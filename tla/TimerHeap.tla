------------------------------ MODULE TimerHeap -------------------------------
(***************************************************************************)
(* The timer heap of pjlib/src/pj/timer.c, as it is built here             *)
(* (PJ_TIMER_USE_COPY, no linked list): a binary heap of copies of the     *)
(* scheduled entries, a parallel array of timer ids whose unused elements  *)
(* are a free list, and arrays that double when they fill.  Every          *)
(* operation runs under the heap's lock, which poll releases around each   *)
(* callback.  A time is a number of milliseconds (pj_time_val).            *)
(***************************************************************************)
EXTENDS Integers, FiniteSets

CONSTANTS Entries,    \* timer entries
          Pollers,    \* threads that poll
          Size,       \* argument of pj_timer_heap_create
          PerPoll,    \* max_entries_per_poll
          MaxTime,    \* bound of the clock and of expiry times
          MaxDelay,   \* bound of the delays
          MaxSched,   \* bound of the number of successful schedules
          Grouped,    \* entries scheduled with the group lock
          Nothing

ASSUME TimerHeapAssumption ==
    /\ Size \in Nat /\ PerPoll \in Nat \ {0}
    /\ MaxTime \in Nat /\ MaxDelay \in Nat /\ MaxSched \in Nat
    /\ Grouped \subseteq Entries
    /\ Nothing \notin Entries \cup 0 .. MaxTime

VARIABLES ht,     \* pj_timer_heap_t
          tid,    \* entry -> its _timer_id
          poll,   \* poller -> the pass it is in
          refs,   \* reference count the entries hold on their group lock
          now,    \* pj_gettickcount
          left    \* schedules left under the bound MaxSched

vars == <<ht, tid, poll, refs, now, left>>

Times == 0 .. MaxTime

\* A slot of timer_dups: the entry copied and when it expires.
Dup == [entry : Entries, value : Times]

Idle == [entry |-> Nothing, count |-> 0]

\* The reference an entry's schedule takes on its group lock, if it has one.
Ref(e) == IF e \in Grouped THEN 1 ELSE 0

---------------------------------------------------------------------------
\* The heap: slots 0 .. cur_size-1 hold indices of timer_dups, which are timer ids.

cur_size(h) == Cardinality(DOMAIN h.heap)

HEAP_PARENT(x) == IF x = 0 THEN 0 ELSE (x - 1) \div 2
HEAP_LEFT(x) == x + x + 1

\* _timer_value of the node in a slot.
Value(h, slot) == h.dups[h.heap[slot]].value

\* f with f[x] = y, whether x was in its domain or not.
With(f, x, y) == [z \in DOMAIN f \cup {x} |-> IF z = x THEN y ELSE f[z]]

copy_node(h, slot, id) ==
    [h EXCEPT !.heap = With(@, slot, id), !.ids[id] = slot]

\* The slots a loop visits that begins at slot and goes from s to step[s] until that is s.
Visits(step, slot) ==
    LET at[n \in Nat] == IF n = 0 THEN slot ELSE step[at[n - 1]]
    IN  {at[n] : n \in 0 .. Cardinality(DOMAIN step)}

\* All the copies of such a loop: each node it passes takes the slot before its own, and
\* the moved node the last one.
Shift(h, id, slot, step) ==
    LET path == Visits(step, slot)
        heap == [s \in DOMAIN h.heap \cup {slot} |->
                    IF s \notin path THEN h.heap[s]
                    ELSE IF step[s] = s THEN id ELSE h.heap[step[s]]]
    IN  [h EXCEPT !.heap = heap,
                  !.ids = [i \in DOMAIN @ |-> IF \E s \in path : heap[s] = i
                                              THEN CHOOSE s \in path : heap[s] = i
                                              ELSE @[i]]]

\* Mutant of reheap_down: the left child is taken without a look at the right one.
reheap_down_left(h, id, slot) ==
    LET n == cur_size(h)
        down == [s \in 0 .. n - 1 |->
                    IF HEAP_LEFT(s) < n /\ Value(h, HEAP_LEFT(s)) < h.dups[id].value
                    THEN HEAP_LEFT(s) ELSE s]
    IN  Shift(h, id, slot, down)

\* The child with the smaller value of a slot that has one.
SmallerChild(h, slot) ==
    LET child == HEAP_LEFT(slot)
    IN  IF child + 1 < cur_size(h) /\ Value(h, child + 1) < Value(h, child) THEN child + 1 ELSE child

reheap_down(h, id, slot) ==
    LET n == cur_size(h)
        down == [s \in 0 .. n - 1 |->
                    IF HEAP_LEFT(s) < n /\ Value(h, SmallerChild(h, s)) < h.dups[id].value
                    THEN SmallerChild(h, s) ELSE s]
    IN  Shift(h, id, slot, down)

reheap_up(h, id, slot) ==
    LET up == [s \in 0 .. slot |->
                  IF s > 0 /\ h.dups[id].value < Value(h, HEAP_PARENT(s))
                  THEN HEAP_PARENT(s) ELSE s]
    IN  Shift(h, id, slot, up)

push_freelist(h, id) == [h EXCEPT !.ids[id] = -h.freelist, !.freelist = id]

\* The last node takes the place of the one removed and is moved down or up.
remove_node(h, slot) ==
    LET last == cur_size(h) - 1
        freed == push_freelist(h, h.heap[slot])
        moved == h.heap[last]
        shrunk == [freed EXCEPT !.heap = [s \in 0 .. last - 1 |-> @[s]],
                                !.dups = [i \in DOMAIN @ \ {h.heap[slot]} |-> @[i]]]
        placed == copy_node(shrunk, slot, moved)
    IN  IF slot = last THEN shrunk
        ELSE IF h.dups[moved].value >= Value(placed, HEAP_PARENT(slot))
             THEN reheap_down(placed, moved, slot)
             ELSE reheap_up(placed, moved, slot)

\* Mutant of grow_heap: the first new id is linked to itself.
grow_heap_off(h) ==
    LET size == 2 * h.max_size
    IN  [h EXCEPT !.max_size = size,
                  !.ids = [i \in 0 .. size - 1 |-> IF i < h.max_size THEN @[i] ELSE -i]]

\* The new ids continue the free list, whose end is the id max_size.
grow_heap(h) ==
    LET size == 2 * h.max_size
    IN  [h EXCEPT !.max_size = size,
                  !.ids = [i \in 0 .. size - 1 |-> IF i < h.max_size THEN @[i] ELSE -(i + 1)]]

\* schedule_entry and insert_node.  The id is taken before the arrays may grow.
schedule_entry(h, entry, expires) ==
    LET id == h.freelist
        popped == [h EXCEPT !.freelist = -h.ids[id]]
        roomy == IF cur_size(h) + 2 >= h.max_size THEN grow_heap(popped) ELSE popped
        node == [entry |-> entry, value |-> expires]
    IN  reheap_up([roomy EXCEPT !.dups = With(@, id, node)], id, cur_size(h))

---------------------------------------------------------------------------
\* Operations

pj_timer_heap_create ==
    [max_size |-> Size + 2, freelist |-> 1,
     heap |-> [s \in {} |-> 0], dups |-> [i \in {} |-> 0],
     ids |-> [i \in 0 .. Size + 1 |-> -(i + 1)]]

Init ==
    /\ ht = pj_timer_heap_create
    /\ tid = [e \in Entries |-> -1]          \* pj_timer_entry_init
    /\ poll = [p \in Pollers |-> Idle]
    /\ refs = 0
    /\ now = 0
    /\ left = MaxSched

pj_timer_entry_running(e) == tid[e] >= 1

\* schedule_w_grp_lock reads the clock before it takes the lock, so the entry may be
\* inserted with a time long past.  An entry that is running is refused.
Schedule(e, expires) ==
    /\ left > 0
    /\ ~pj_timer_entry_running(e)
    /\ cur_size(ht) < ht.max_size
    /\ expires <= now + MaxDelay
    /\ ht' = schedule_entry(ht, e, expires)
    /\ tid' = [tid EXCEPT ![e] = ht.freelist]
    /\ refs' = refs + Ref(e)
    /\ left' = left - 1
    /\ UNCHANGED <<poll, now>>

\* Mutant of Cancel: the reference on the group lock is kept.
CancelKeepsRef(e) ==
    /\ tid[e] >= 1 /\ tid[e] < ht.max_size
    /\ LET slot == ht.ids[tid[e]]
       IN  ht' = IF slot >= 0 /\ ht.dups[ht.heap[slot]].entry = e THEN remove_node(ht, slot) ELSE ht
    /\ tid' = [tid EXCEPT ![e] = -1]
    /\ UNCHANGED <<poll, refs, now, left>>

\* cancel_timer and cancel.  The id of the entry may be out of range, free again, or
\* another entry's by now.
Cancel(e) ==
    /\ tid[e] >= 1 /\ tid[e] < ht.max_size
    /\ LET slot == ht.ids[tid[e]]
           mine == slot >= 0 /\ ht.dups[ht.heap[slot]].entry = e
       IN  /\ ht' = IF mine THEN remove_node(ht, slot) ELSE ht
           /\ refs' = IF mine THEN refs - Ref(e) ELSE refs
    /\ tid' = [tid EXCEPT ![e] = -1]
    /\ UNCHANGED <<poll, now, left>>

\* The head of the heap is due.
Expired == cur_size(ht) > 0 /\ Value(ht, 0) <= now

\* A poller holding the lock removes the head and unlocks to call its callback.
Pop(p) ==
    LET node == ht.dups[ht.heap[0]]
    IN  /\ ht' = remove_node(ht, 0)
        /\ tid' = [tid EXCEPT ![node.entry] = -1]
        /\ poll' = [poll EXCEPT ![p] = [entry |-> node.entry, count |-> @.count + 1]]

\* pj_timer_heap_poll, from its start to its first callback.
Poll(p) ==
    /\ poll[p] = Idle
    /\ Expired
    /\ Pop(p)
    /\ UNCHANGED <<refs, now, left>>

\* Mutant of CallbackReturns: one entry more than the limit is taken.
CallbackReturnsLong(p) ==
    /\ poll[p].entry # Nothing
    /\ refs' = refs - Ref(poll[p].entry)
    /\ IF Expired /\ poll[p].count <= PerPoll
       THEN Pop(p)
       ELSE poll' = [poll EXCEPT ![p] = Idle] /\ UNCHANGED <<ht, tid>>
    /\ UNCHANGED <<now, left>>

\* The callback returns: the reference is dropped, and the poll goes on if another
\* entry is due and the limit is not reached.
CallbackReturns(p) ==
    /\ poll[p].entry # Nothing
    /\ refs' = refs - Ref(poll[p].entry)
    /\ IF Expired /\ poll[p].count < PerPoll
       THEN Pop(p)
       ELSE poll' = [poll EXCEPT ![p] = Idle] /\ UNCHANGED <<ht, tid>>
    /\ UNCHANGED <<now, left>>

Tick ==
    /\ now < MaxTime
    /\ now' = now + 1
    /\ UNCHANGED <<ht, tid, poll, refs, left>>

Next ==
    \/ \E e \in Entries : Cancel(e) \/ \E t \in Times : Schedule(e, t)
    \/ \E p \in Pollers : Poll(p) \/ CallbackReturns(p)
    \/ Tick

Spec == Init /\ [][Next]_vars

---------------------------------------------------------------------------
\* Properties

Ids == 1 .. ht.max_size - 1

InHeap == {ht.heap[s] : s \in DOMAIN ht.heap}

\* Types: the arrays are as long as max_size says, and ids are within them.
TypeOK ==
    /\ ht.max_size \in Nat /\ ht.freelist \in 1 .. ht.max_size
    /\ DOMAIN ht.heap = 0 .. cur_size(ht) - 1
    /\ InHeap \subseteq Ids
    /\ ht.ids \in [0 .. ht.max_size - 1 -> -ht.max_size .. ht.max_size]
    /\ \A i \in DOMAIN ht.dups : i \in Ids /\ ht.dups[i] \in Dup
    /\ tid \in [Entries -> {-1} \cup Ids]
    /\ poll \in [Pollers -> [entry : Entries \cup {Nothing}, count : 0 .. PerPoll]]
    /\ refs \in Nat /\ now \in Times /\ left \in 0 .. MaxSched

\* Every entry that believes it is running is found through timer_ids at the slot of
\* its own copy, and the heap holds nothing else: what cancel relies on, whatever
\* reheap_up, reheap_down and grow_heap have moved.
Located ==
    /\ \A e \in Entries : tid[e] # -1 =>
           LET slot == ht.ids[tid[e]]
           IN  slot \in DOMAIN ht.heap /\ ht.heap[slot] = tid[e] /\ ht.dups[tid[e]].entry = e
    /\ Cardinality({e \in Entries : tid[e] # -1}) = cur_size(ht)

\* The free list runs through every id that is not in the heap, once, and ends at
\* max_size, where grow_heap appends: no id is lost or given out twice.
FreeList ==
    LET next == [i \in Ids \ InHeap |-> -ht.ids[i]]
    IN  /\ {next[i] : i \in DOMAIN next} \cup {ht.freelist} = DOMAIN next \cup {ht.max_size}
        /\ \A i, j \in DOMAIN next : next[i] = next[j] => i = j
        /\ \A i \in DOMAIN next : next[i] # ht.freelist

\* The three arrays of pj_timer_heap_t agree through every move and every growth: a cancel
\* finds its entry (Located), and a new entry gets an id that nobody has (FreeList).
Arrays == Located /\ FreeList

\* The group lock is referenced once for every scheduled entry that names it and once
\* for every callback of such an entry that has not returned: a callback never runs on
\* a destroyed lock, and no reference is left behind by a cancel that lost the race.
RefsCounted ==
    refs = Cardinality({i \in InHeap : ht.dups[i].entry \in Grouped})
           + Cardinality({p \in Pollers : poll[p].entry \in Grouped})

\* The heap implements the set of timers: cancel disarms exactly the entry asked for,
\* and poll takes an entry that is due and none before it.
Promise == INSTANCE TimerSet WITH
    armed <- [e \in Entries |-> IF tid[e] = -1 THEN Nothing ELSE ht.dups[tid[e]].value],
    calling <- [p \in Pollers |-> poll[p].entry]

ImplementsTimerSet == Promise!Spec
===============================================================================
