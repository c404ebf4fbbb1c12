----------------------------- MODULE MCPiPool -----------------------------
(* Two sessions, two calls and two workers that compact; one entry fits.   *)
EXTENDS PiPool, TLC

CONSTANT MaxBusy  \* bound: threads at work, files mangled and a clearing at a time

MCConstraint ==
  Cardinality({t \in Threads : pc[t] # "none"}) + Cardinality(mangled)
    + (IF clearing = {} THEN 0 ELSE 1) <= MaxBusy

(* Sessions, calls, workers and processes are alike.                       *)
MCSymmetry ==
  Permutations(Sessions) \cup Permutations(Calls)
    \cup Permutations(Workers) \cup Permutations(Procs)
=============================================================================
