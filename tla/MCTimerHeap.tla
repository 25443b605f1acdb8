----------------------------- MODULE MCTimerHeap ------------------------------
(* TimerHeap on a small instance; the entries are interchangeable. *)
EXTENDS TimerHeap, TLC

Symmetry == Permutations(Entries \ Grouped) \cup Permutations(Grouped)
===============================================================================
