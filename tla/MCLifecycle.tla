----------------------------- MODULE MCLifecycle -----------------------------
(***************************************************************************)
(* Instances of Lifecycle for TLC.                                         *)
(***************************************************************************)
EXTENDS Lifecycle

\* Threads and processes other than the root's and init's are interchangeable.
Symmetric ==
  Permutations(Threads \ {IdleThread, InitThread})
    \cup Permutations(Procs \ {IdleProc, InitProc})

\* Two processes below root at most, and a thread that does not exist yet.
Few ==
  /\ Cardinality({p \in Procs \ {IdleProc} : parent[p] # NoProc}) <= 2
  /\ \E t \in Threads : thr.state[t] = "NEW"

\* The runnable threads that are in a call.
Busy == {t \in Threads : thr.state[t] \in {"RUNNING", "READY"} /\ op[t] # "user"}

\* Threads are shared out in one of two ways: few processes, which may have
\* several threads, set a status, fault and be killed; or a family of
\* processes of one thread each that fork, wait and vanish.  Two threads at a
\* time are in a call, more of them only in init on its own.  Nothing follows
\* a node that is freed twice.
FewOrSimple ==
  /\ PopsAlone
  /\ \/ Few
     \/ /\ \A p \in Procs : Len(tcbs[p]) <= 1 /\ status[p] = 0
        /\ \A t \in Threads :
             op[t] \in {"user", "vanish"} \cup WaitOps
                        \cup {"fork", "fork_build", "fork_insert"}
  /\ \/ Cardinality(Busy) <= 2
     \/ \A p \in Procs \ {IdleProc, InitProc} : parent[p] = NoProc

\* A family leaves the order in which it runs to the timer: a thread outside
\* of a call, which a yield leaves there, gives the processor up to it only.
YieldIfFew == Few \/ op[Me] # "user" \/ op' # op \/ Timer
=============================================================================
