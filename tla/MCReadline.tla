------------------------------ MODULE MCReadline ------------------------------
(***************************************************************************)
(* An instance of Readline for TLC.                                        *)
(***************************************************************************)
EXTENDS Readline

CONSTANTS t1, t2, t3, p2

\* t1 and t2 share a process, t3 has its own.
TwoAndOne == t1 :> InitProc @@ t2 :> InitProc @@ t3 :> p2
               @@ IdleThread :> IdleProc
===============================================================================
