----------------------------- MODULE MCFramework -----------------------------
(* Framework with finite sets for TLC. *)
EXTENDS Framework, TLC

\* Call objects are interchangeable, and so are URIs.
Sym == Permutations(Objs) \cup Permutations(Peers)
==============================================================================
