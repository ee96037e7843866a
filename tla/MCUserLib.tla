------------------------------ MODULE MCUserLib ------------------------------
(***************************************************************************)
(* Instances of UserLib for TLC.                                           *)
(***************************************************************************)
EXTENDS UserLib

CONSTANTS t1, t2, t3, t4

\* Those of the program and of the semaphore, and one per thread.
AllConds == Threads \cup {MonCond, SemCond}

\* Any thread writes and nobody downgrades, or one thread does both.
Apart ==
  {[writers |-> Threads, downgraders |-> {}],
   [writers |-> {Root},  downgraders |-> {Root}]}

\* Any thread writes and downgrades.
Together == {[writers |-> Threads, downgraders |-> Threads]}

\* Two threads join t3, and nobody joins a thread that joins it.
Tree == {<<t1, t2>>, <<t1, t3>>, <<t2, t3>>, <<t1, t4>>}
=============================================================================
