----------------------------- MODULE MCScheduler -----------------------------
(***************************************************************************)
(* Instances of Scheduler for TLC.                                         *)
(***************************************************************************)
EXTENDS Scheduler

\* Threads and processes other than the root's and init's are interchangeable.
Symmetric ==
  Permutations(Threads \ {IdleThread, InitThread})
    \cup Permutations(Procs \ {IdleProc, InitProc})
=============================================================================
