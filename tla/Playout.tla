-------------------------------- MODULE Playout --------------------------------
(***************************************************************************)
(* What a player expects of the receiving side of a stream: frames are     *)
(* heard in the order in which they were sent and each at most once, from  *)
(* one restart of the playout to the next.  Frames may be lost at any      *)
(* time.  Frames are numbered from 1 in the order in which they were sent. *)
(***************************************************************************)
EXTENDS Naturals

CONSTANT Frames

VARIABLES held,  \* frames that may still be heard
          last   \* the last one heard since the restart, 0 if none

vars == <<held, last>>

Init == held = {} /\ last = 0

\* A frame that is newer than all that was heard arrives; it may push others out.
Arrive ==
    /\ \E f \in Frames : f > last /\ held' \subseteq held \cup {f}
    /\ UNCHANGED last

\* The oldest frame that is not given up is heard.
Play ==
    /\ last' \in held
    /\ held' \subseteq {f \in held : f > last'}

\* Frames are given up.
Lose == held' \subseteq held /\ UNCHANGED last

Restart == held' = {} /\ last' = 0

Next == Arrive \/ Play \/ Lose \/ Restart

Spec == Init /\ [][Next]_vars
===============================================================================
