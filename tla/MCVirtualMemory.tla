--------------------------- MODULE MCVirtualMemory ---------------------------
(***************************************************************************)
(* Small instances of VirtualMemory.                                       *)
(***************************************************************************)
EXTENDS VirtualMemory, TLC

\* A program with a text page at the bottom and a stack page at the top.
SmallImage ==
  [v \in 1..(NPages - 1) |-> CASE v = 1 -> "text"
                               [] v = NPages - 1 -> "zero"
                               [] OTHER -> "none"]

Symmetric == Permutations(Dirs) \cup Permutations(Procs \ {InitProc})

\* deschedule and a system call that got stuck concern their own process only:
\* they are looked at while there is no other.
OwnTrouble ==
  \A p \in Procs : checked[p] # 0 \/ job[p].op = "stuck" =>
    \A q \in Procs \ {p} : proc[q] = "free"

\* While there are two processes, each has one allocation of one page at most
\* (a process on its own may have more), new_pages asks for the page above the
\* text or the two above it, and free_frame does not lose any.
Short ==
  (\A p \in Procs : proc[p] # "free") =>
    /\ lost = {}
    /\ \A p \in Procs :
         /\ job[p].op = "new" => job[p].len <= 2 /\ job[p].base = 2
         /\ \A i \in DOMAIN alloc[p] : i = 1 /\ alloc[p][i].len = 1
=============================================================================
