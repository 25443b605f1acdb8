------------------------------ MODULE FrameList -------------------------------
(***************************************************************************)
(* The frame list of the jitter buffer (jb_framelist_t of jbuf.c): a ring  *)
(* of max_count slots.  The frame with index origin + k, for k < size, is  *)
(* k slots after head.  A slot is MISSING, DISCARDED or holds a frame.     *)
(* The operators take a list and return it changed.                        *)
(***************************************************************************)
EXTENDS Integers, FiniteSets

CONSTANTS max_count,        \* capacity in frames
          MAX_MISORDER,     \* a frame this far behind the list is no longer late but a jump
          MAX_DROPOUT,      \* a frame further ahead than this is a jump
          MAX_FRAME_INDEX   \* an index from which on a jump back is a wrap-around

ASSUME FrameListAssumption ==
    /\ max_count \in Nat \ {0} /\ MAX_MISORDER \in Nat \ {0}
    /\ MAX_DROPOUT \in Nat /\ MAX_FRAME_INDEX \in Nat

Slots == 0 .. max_count - 1

INVALID_OFFSET == -9999

\* What a slot holds or a get returns other than a frame, which is a number from 1 on.
MISSING == 0
DISCARDED == -1
NONE == -2

jb_framelist_reset ==
    [head |-> 0, origin |-> INVALID_OFFSET, size |-> 0, discarded_num |-> 0,
     slot |-> [i \in Slots |-> MISSING]]

\* The slot k places after the head.
Pos(l, k) == (l.head + k) % max_count

\* How many of the first n frames are discarded ones.
DiscardedAmong(l, n) == Cardinality({k \in 0 .. n - 1 : l.slot[Pos(l, k)] = DISCARDED})

jb_framelist_eff_size(l) == l.size - l.discarded_num

\* The list without its first n frames, which were in the slots of cleared.
Without(l, n, cleared) ==
    [l EXCEPT !.head = (@ + n) % max_count,
              !.origin = @ + n,
              !.size = @ - n,
              !.discarded_num = @ - DiscardedAmong(l, n),
              !.slot = [i \in Slots |-> IF i \in cleared THEN MISSING ELSE @[i]]]

AtMost(count, n) == IF count > n THEN n ELSE count

\* Mutant of jb_framelist_remove_head: only the part before the end of the ring is cleared.
remove_head_step1(l, count) ==
    Without(l, AtMost(count, l.size), {i \in Slots : l.head <= i /\ i < l.head + AtMost(count, l.size)})

\* Removes the oldest count frames.
jb_framelist_remove_head(l, count) ==
    Without(l, AtMost(count, l.size), {i \in Slots : (i - l.head) % max_count < AtMost(count, l.size)})

\* The discarded frames at the head, which a get skips.
Skipped(l) ==
    CHOOSE n \in 0 .. l.size : /\ DiscardedAmong(l, n) = n
                               /\ n = l.size \/ l.slot[Pos(l, n)] # DISCARDED

\* The list after its head has been taken.
HeadTaken(l) ==
    [l EXCEPT !.slot[l.head] = MISSING, !.origin = @ + 1, !.head = (@ + 1) % max_count, !.size = @ - 1]

\* Mutant of TakeFrom: a missing frame stays at the head until it arrives.
TakeFromWaits(l, skipped) ==
    IF l.size = 0 THEN [frame |-> NONE, fl |-> l]
    ELSE IF l.slot[l.head] = MISSING THEN [frame |-> MISSING, fl |-> l]
    ELSE [frame |-> IF skipped THEN MISSING ELSE l.slot[l.head], fl |-> HeadTaken(l)]

\* After discarded frames the next one is replaced by a missing one, to be concealed.
TakeFrom(l, skipped) ==
    IF l.size = 0 THEN [frame |-> NONE, fl |-> l]
    ELSE [frame |-> IF skipped THEN MISSING ELSE l.slot[l.head], fl |-> HeadTaken(l)]

\* What is returned, NONE when there is none, and the list that is left.
jb_framelist_get(l) == TakeFrom(jb_framelist_remove_head(l, Skipped(l)), Skipped(l) > 0)

JumpTo(index) == [jb_framelist_reset EXCEPT !.origin = index]

\* jb_framelist_put_at before the slot is looked up: sequence restart or a jump back.
Back(l, index) ==
    IF index >= l.origin THEN l
    ELSE IF l.origin + l.size >= MAX_FRAME_INDEX THEN [l EXCEPT !.origin = index - l.size]
    ELSE JumpTo(index)

\* An empty list starts at the frame, and so does one that is too far behind.
Ahead(l, index) ==
    IF l.size = 0 THEN [l EXCEPT !.origin = index]
    ELSE IF index - l.origin >= max_count /\ index - l.origin > MAX_DROPOUT THEN JumpTo(index) ELSE l

\* Mutant of TooLate: a late frame makes the list jump back to it.
TooLateNot(l, index) == FALSE

TooLate(l, index) == index < l.origin /\ l.origin - index < MAX_MISORDER

\* The slot of the frame, unless the list is full or the frame is there already.
PutInto(l, distance, frame) ==
    IF distance >= max_count THEN [status |-> "TOOMANY", fl |-> l]
    ELSE IF l.slot[Pos(l, distance)] # MISSING THEN [status |-> "EXISTS", fl |-> l]
    ELSE [status |-> "SUCCESS",
          fl |-> [l EXCEPT !.slot[Pos(l, distance)] = frame,
                           !.size = IF l.size <= distance THEN distance + 1 ELSE @]]

PutAligned(l, index, frame) == PutInto(l, index - l.origin, frame)

\* Its result and the list that it leaves.
jb_framelist_put_at(l, index, frame) ==
    IF TooLate(l, index) THEN [status |-> "TOOSMALL", fl |-> l]
    ELSE PutAligned(Ahead(Back(l, index), index), index, frame)

\* jb_framelist_discard: the frame stays in its place, to be skipped.
jb_framelist_discard(l, index) ==
    [l EXCEPT !.slot[Pos(l, index - l.origin)] = DISCARDED, !.discarded_num = @ + 1]

\* The frames that are held.
Held(l) == {l.slot[Pos(l, k)] : k \in 0 .. l.size - 1} \ {MISSING, DISCARDED}

---------------------------------------------------------------------------
\* Free slots are empty, so that a frame put there is not taken for a duplicate and a get does
\* not loop on a stale DISCARDED at the head of an empty list; discarded frames are counted
\* exactly, so that the effective size, an unsigned difference, does not wrap below zero.
RingSound(l) ==
    /\ l.head \in Slots /\ l.size \in 0 .. max_count
    /\ \A i \in Slots : (i - l.head) % max_count >= l.size => l.slot[i] = MISSING
    /\ l.discarded_num = DiscardedAmong(l, l.size)
===============================================================================
