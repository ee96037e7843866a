---------------------------- MODULE VirtualMemory ----------------------------
(***************************************************************************)
(* The frame pool, the page directories and the calls that edit them:      *)
(* new_pages, remove_pages, page faults, the copying of the address space  *)
(* in fork, its replacement in exec and its release in wait.               *)
(*                                                                         *)
(* Processes share the pool and nothing else, so one step of a process is  *)
(* what it does up to one operation on the pool (under vm_lock).  Within a *)
(* process these calls exclude each other: they hold the PCB lock, or the  *)
(* process has one thread (fork, exec), or none (wait).  job[p] is the     *)
(* call in progress in p.                                                  *)
(*                                                                         *)
(* A page directory is a function from pages to entries; a page table that *)
(* is missing is one whose entries are all PAGE_UNAVAILABLE.  Pages are    *)
(* numbered, page 0 standing for the kernel's, and their arithmetic wraps  *)
(* as that of uint32_t addresses does.                                     *)
(***************************************************************************)
EXTENDS Integers, Sequences, FiniteSets, SequencesExt

CONSTANTS
  Procs,     \* PCBs
  InitProc,  \* the process that is there at the start
  NoProc,
  Dirs,      \* page directories
  NoDir,
  NPages,    \* pages of an address space, the kernel page included
  NFrames,   \* frames of the pool at the start, the zero frame not counted
  Image,     \* Image[v]: what exec puts at page v
  Ops,       \* the calls that are made (bad_args: new_pages with bad pointers)
  Fails      \* the kernel allocations that may fail

Unavailable == -2    \* not present, PAGE_UNAVAILABLE
Available   == -1    \* not present, PAGE_AVAILABLE
Zero        == 0     \* the zero frame, read-only

USER_PAGE_START == 1

Pages     == 0..(NPages - 1)
UserPages == USER_PAGE_START..(NPages - 1)
Frames    == 1..NFrames
ASSUME MemoryAssumption ==
  /\ NPages \in Nat /\ NPages > USER_PAGE_START
  /\ NFrames \in Nat
  /\ InitProc \in Procs /\ NoProc \notin Procs
  /\ NoDir \notin Dirs
  /\ Image \in [UserPages -> {"none", "zero", "data", "text"}]
  /\ Cardinality({v \in UserPages : Image[v] \in {"data", "text"}}) <= NFrames
  /\ Fails \subseteq {"page_table", "list_node", "pool_node"}
  /\ Ops \subseteq {"new_pages", "remove_pages", "fork", "exec", "wait",
                    "vanish", "fault", "deschedule", "bad_args"}

VARIABLES
  pool,       \* alloc_list: the free frames
  pte,        \* pte[d][v]: entry of page v in page directory d
  readonly,   \* readonly[d]: the pages of d mapped without the R/W bit
  proc,       \* proc[p]: "free", "new", "live", "zombie" or "reaped"
  dir,        \* dir[p]: pcb->page_directory
  alloc,      \* alloc[p]: page_allocation_list
  job,        \* job[p]: the call in progress
  checked,    \* checked[p]: page a thread of p in deschedule found readable
  saved,      \* saved[p]: the entries of p when its call began (history)
  lost        \* frames nobody can free any more: free_frame had no list node
              \* for them, or the wait that was freeing them was killed (history)

vars == <<pool, pte, readonly, proc, dir, alloc, job, checked, saved, lost>>

\* A call: its place, the child and page directory it works on, its range of
\* pages, and the next page of its loop.
Job(op, child, d, base, len, next) ==
  [op |-> op, child |-> child, dir |-> d, base |-> base, len |-> len,
   next |-> next]

User == Job("user", NoProc, NoDir, 0, 0, 0)

Blank == [v \in UserPages |-> Unavailable]

-----------------------------------------------------------------------------
(***************************************************************************)
(* The frame pool: alloc_frame takes the front, free_frame keeps the list  *)
(* ascending and refuses a frame that is in it.                            *)
(***************************************************************************)
\* The walk stops before the first frame above f; f is new unless it is the
\* frame before that.
InsertFrame(s, f) ==
  LET above == SelectInSeq(s, LAMBDA g : g > f)
      i     == IF above = 0 THEN Len(s) + 1 ELSE above
  IN  IF i > 1 /\ s[i - 1] = f THEN s ELSE InsertAt(s, i, f)

\* free_frame; a failed malloc of the list node loses the frame.
FreeFrame(f) ==
  \/ /\ pool' = IF f \in Frames THEN InsertFrame(pool, f) ELSE pool
     /\ lost' = lost
  \/ /\ "pool_node" \in Fails /\ f \in Frames
     /\ pool' = pool
     /\ lost' = lost \cup {f}

\* The directory that %cr3 points to while p runs.
Entry(p, v) == pte[dir[p]][v]

\* A directory that nobody uses: construct_page_dir may return it.
FreeDir(d) == \A p \in Procs : dir[p] # d /\ job[p].dir # d

SetEntry(d, v, x) == pte' = [pte EXCEPT ![d][v] = x]

\* map_new_frame: alloc_frame takes the front of the pool.
MapNewFrame(d, v) ==
  /\ pool # <<>>
  /\ pool' = Tail(pool)
  /\ SetEntry(d, v, Head(pool))

\* unmap_frame, then set_availability(PAGE_UNAVAILABLE).
Release(d, v) == FreeFrame(pte[d][v]) /\ SetEntry(d, v, Unavailable)

\* set_availability or map_zero_frame: no frame of the pool is involved.
MapOther(d, v, x) == SetEntry(d, v, x) /\ UNCHANGED pool

Goto(p, j) == job' = [job EXCEPT ![p] = j]

Advance(p) == Goto(p, [job[p] EXCEPT !.next = @ + 1])

\* p may make a call: no thread of p holds the PCB lock.
MayCall(p, o) == o \in Ops /\ proc[p] = "live" /\ job[p].op = "user"

\* The exited processes whose address spaces threads of p are releasing.
Reaping(p) == {q \in Procs : job[q].op = "reap" /\ job[q].child = p}

\* No other thread of p is in deschedule or wait.
Alone(p) == checked[p] = 0 /\ Reaping(p) = {}

\* The first process as load_executable leaves it: frames in the order of
\* the pages, the rest in the pool.
Framed == {v \in UserPages : Image[v] \in {"data", "text"}}
Text   == {v \in UserPages : Image[v] = "text"}
Loaded ==
  [v \in UserPages |->
     CASE Image[v] = "none" -> Unavailable
       [] Image[v] = "zero" -> Zero
       [] OTHER -> Cardinality({w \in Framed : w <= v})]

Init ==
  /\ \E d \in Dirs :
       /\ dir = [p \in Procs |-> IF p = InitProc THEN d ELSE NoDir]
       /\ pte = [e \in Dirs |-> IF e = d THEN Loaded ELSE Blank]
       /\ readonly = [e \in Dirs |-> IF e = d THEN Text ELSE {}]
  /\ pool = [i \in 1..(NFrames - Cardinality(Framed)) |->
               Cardinality(Framed) + i]
  /\ proc = [p \in Procs |-> IF p = InitProc THEN "live" ELSE "free"]
  /\ alloc = [p \in Procs |-> <<>>]
  /\ job = [p \in Procs |-> User]
  /\ checked = [p \in Procs |-> 0]
  /\ saved = [p \in Procs |-> Blank]
  /\ lost = {}

-----------------------------------------------------------------------------
(***************************************************************************)
(* handle_new_pages: the pages are mapped one after the other; the first   *)
(* that cannot be, or a failure to record the allocation, undoes them all. *)
(***************************************************************************)
NewPages(p, base, len) ==
  /\ MayCall(p, "new_pages")
  /\ len <= NFrames
  /\ Goto(p, Job("new", NoProc, NoDir, base, len, 0))
  /\ saved' = [saved EXCEPT ![p] = pte[dir[p]]]
  /\ UNCHANGED <<pool, pte, readonly, proc, dir, alloc, checked>>

\* The page the loop is at.
Current(p) == (job[p].base + job[p].next) % NPages

\* A user page that is neither mapped nor PAGE_AVAILABLE.
Claimable(p, v) == v \in UserPages /\ Entry(p, v) = Unavailable

\* get_availability, set_availability, map_new_frame and memset succeed.
NewPage(p) ==
  LET v == Current(p)
  IN  /\ job[p].op = "new" /\ job[p].next < job[p].len
      /\ Claimable(p, v)
      /\ MapNewFrame(dir[p], v)
      /\ Advance(p)
      /\ UNCHANGED <<readonly, proc, dir, alloc, checked, saved>>

\* Roll back the first n pages.
UndoNew(p, n) == Goto(p, Job("new_undo", NoProc, NoDir, job[p].base, n, 0))

\* Mutant: the roll-back stops one page short.
NewPageFailShort(p) ==
  LET v == Current(p)
  IN  /\ job[p].op = "new" /\ job[p].next < job[p].len
      /\ \/ ~Claimable(p, v)
         \/ pool = <<>>
         \/ "page_table" \in Fails
      /\ UndoNew(p, IF job[p].next = 0 THEN 0 ELSE job[p].next - 1)
      /\ UNCHANGED <<pool, pte, readonly, proc, dir, alloc, checked,
                     saved>>

\* One of them fails; the page itself ends up PAGE_UNAVAILABLE again.
NewPageFail(p) ==
  LET v == Current(p)
  IN  /\ job[p].op = "new" /\ job[p].next < job[p].len
      /\ \/ ~Claimable(p, v)
         \/ pool = <<>>
         \/ "page_table" \in Fails
      /\ UndoNew(p, job[p].next)
      /\ UNCHANGED <<pool, pte, readonly, proc, dir, alloc, checked,
                     saved>>

\* unmap_frame and set_availability(PAGE_UNAVAILABLE).
NewUndo(p) ==
  /\ job[p].op = "new_undo" /\ job[p].next < job[p].len
  /\ Release(dir[p], Current(p))
  /\ Advance(p)
  /\ UNCHANGED <<readonly, proc, dir, alloc, checked, saved>>

\* The allocation goes before the first one that does not start below it.
InsertAlloc(s, a) ==
  LET i == SelectInSeq(s, LAMBDA b : b.base >= a.base)
  IN  InsertAt(s, IF i = 0 THEN Len(s) + 1 ELSE i, a)

NewDone(p) ==
  /\ job[p].op = "new" /\ job[p].next = job[p].len
  /\ \/ /\ alloc' = [alloc EXCEPT ![p] =
              InsertAlloc(@, [base |-> job[p].base, len |-> job[p].len])]
        /\ Goto(p, User)
        /\ saved' = [saved EXCEPT ![p] = Blank]
     \/ /\ "list_node" \in Fails
        /\ UndoNew(p, job[p].len)
        /\ UNCHANGED <<alloc, saved>>
  /\ UNCHANGED <<pool, pte, readonly, proc, dir, checked>>

NewFailed(p) ==
  /\ job[p].op = "new_undo" /\ job[p].next = job[p].len
  /\ Goto(p, User)
  /\ saved' = [saved EXCEPT ![p] = Blank]
  /\ UNCHANGED <<pool, pte, readonly, proc, dir, alloc, checked>>

-----------------------------------------------------------------------------
(***************************************************************************)
(* handle_remove_pages.                                                    *)
(***************************************************************************)

\* The nodes the search loop looks at: the first one, then the following
\* ones as long as they start below base.
Visited(s, base) ==
  {i \in DOMAIN s : \A j \in 2..i : s[j].base < base}

\* Found: the node is removed (POP_FRONT) before the pages are.
RemovePages(p, base) ==
  \E i \in Visited(alloc[p], base) :
    /\ MayCall(p, "remove_pages")
    /\ alloc[p][i].base = base
    /\ alloc' = [alloc EXCEPT ![p] = RemoveAt(@, i)]
    /\ Goto(p, Job("remove", NoProc, NoDir, base, alloc[p][i].len, 0))
    /\ UNCHANGED <<pool, pte, readonly, proc, dir, checked, saved>>

\* unmap_frame and set_availability; an unmapped page ends the call.
RemovePage(p) ==
  LET v == Current(p)
  IN  /\ job[p].op = "remove" /\ job[p].next < job[p].len
      /\ IF Entry(p, v) >= Zero
         THEN /\ Release(dir[p], v)
              /\ Advance(p)
         ELSE /\ Goto(p, User)
              /\ UNCHANGED <<pool, pte, lost>>
      /\ UNCHANGED <<readonly, proc, dir, alloc, checked, saved>>

RemoveDone(p) ==
  /\ job[p].op = "remove" /\ job[p].next = job[p].len
  /\ Goto(p, User)
  /\ UNCHANGED <<pool, pte, readonly, proc, dir, alloc, checked,
                 saved>>

-----------------------------------------------------------------------------
(***************************************************************************)
(* destruct_page_dir: the frames of the directory are freed, page by page, *)
(* and the directory is freed.  It ends fork and exec that fail, a         *)
(* successful exec (of the old directory), and wait (of the child's).      *)
(***************************************************************************)
Destructs == {"fork_undo", "exec_undo", "exec_free", "reap"}

\* The calls of a process with a single thread.
SingleThread == {"fork", "fork_copy", "fork_undo", "exec", "exec_undo", "exec_free"}

Destruct(op, child, d) == Job(op, child, d, 0, 0, USER_PAGE_START)

DestructPage(p) ==
  LET d == job[p].dir
      v == job[p].next
  IN  /\ job[p].op \in Destructs
      /\ v < NPages
      /\ Release(d, v)
      /\ readonly' = [readonly EXCEPT ![d] = @ \ {v}]
      /\ Advance(p)
      /\ UNCHANGED <<proc, dir, alloc, checked, saved>>

\* Mutant: exec keeps the allocations of the old address space.
DestructDoneKeep(p) ==
  /\ job[p].op \in Destructs
  /\ job[p].next = NPages
  /\ Goto(p, User)
  /\ alloc' = IF job[p].op = "reap" THEN [alloc EXCEPT ![p] = <<>>] ELSE alloc
  /\ proc' = IF job[p].op = "reap" THEN [proc EXCEPT ![p] = "free"] ELSE proc
  /\ dir' = IF job[p].op = "reap" THEN [dir EXCEPT ![p] = NoDir] ELSE dir
  /\ UNCHANGED <<pool, pte, readonly, checked, saved>>

\* exec forgets the allocations of the old address space, wait those of the
\* child, and its PCB.
DestructDone(p) ==
  /\ job[p].op \in Destructs
  /\ job[p].next = NPages
  /\ Goto(p, User)
  /\ alloc' = IF job[p].op \in {"exec_free", "reap"}
              THEN [alloc EXCEPT ![p] = <<>>] ELSE alloc
  /\ proc' = IF job[p].op = "reap" THEN [proc EXCEPT ![p] = "free"] ELSE proc
  /\ dir' = IF job[p].op = "reap" THEN [dir EXCEPT ![p] = NoDir] ELSE dir
  /\ UNCHANGED <<pool, pte, readonly, checked, saved>>

\* A thread of p in handle_wait, holding no lock any more, releases the
\* address space of the exited process q.
Reap(p, q) ==
  /\ "wait" \in Ops
  /\ proc[p] = "live" /\ job[p].op \notin SingleThread \cup {"stuck"}
  /\ proc[q] = "zombie"
  /\ proc' = [proc EXCEPT ![q] = "reaped"]
  /\ Goto(q, Destruct("reap", p, dir[q]))
  /\ UNCHANGED <<pool, pte, readonly, dir, alloc, checked, saved>>

\* The last thread of p vanishes (vanish), or all of them (task_vanish), those
\* in handle_wait too.  Nobody has a pointer to the PCBs and directories that
\* these were releasing: their frames are lost, and so are the blocks
\* themselves (their names stand for others from then on).
Vanish(p) ==
  LET quit == Reaping(p)
      left == {dir[q] : q \in quit}
  IN  /\ MayCall(p, "vanish")
      /\ proc' = [q \in Procs |-> CASE q = p -> "zombie"
                                   [] q \in quit -> "free"
                                   [] OTHER -> proc[q]]
      /\ dir' = [q \in Procs |-> IF q \in quit THEN NoDir ELSE dir[q]]
      /\ alloc' = [q \in Procs |-> IF q \in quit THEN <<>> ELSE alloc[q]]
      /\ job' = [q \in Procs |-> IF q \in quit THEN User ELSE job[q]]
      /\ lost' = lost \cup {f \in Frames :
                             \E d \in left, v \in UserPages : pte[d][v] = f}
      /\ pte' = [d \in Dirs |-> IF d \in left THEN Blank ELSE pte[d]]
      /\ readonly' = [d \in Dirs |-> IF d \in left THEN {} ELSE readonly[d]]
      /\ checked' = [checked EXCEPT ![p] = 0]
      /\ UNCHANGED <<pool, saved>>

-----------------------------------------------------------------------------
(***************************************************************************)
(* fork_ctrl_blk: the child gets a directory, and page after page a copy   *)
(* of the parent's entry with a frame of its own.                          *)
(***************************************************************************)
Fork(p, q, d) ==
  /\ MayCall(p, "fork") /\ Alone(p)
  /\ proc[q] = "free" /\ FreeDir(d)
  /\ proc' = [proc EXCEPT ![q] = "new"]
  /\ dir' = [dir EXCEPT ![q] = d]
  /\ Goto(p, Job("fork", q, d, 0, 0, USER_PAGE_START))
  /\ UNCHANGED <<pool, pte, readonly, alloc, checked, saved>>

\* Mutant: the child shares the parent's frame.
ForkPageShare(p) ==
  LET d == job[p].dir
      v == job[p].next
  IN  /\ job[p].op = "fork" /\ v < NPages
      /\ MapOther(d, v, Entry(p, v))
      /\ readonly' = [readonly EXCEPT ![d] =
                        @ \cup (readonly[dir[p]] \cap {v})]
      /\ Advance(p)
      /\ UNCHANGED <<proc, dir, alloc, checked, saved>>

\* An entry without a frame is copied as it is.  For one with a frame the child
\* gets a new frame, and p goes over to the child's directory (page_directory
\* and %cr3; a context switch reloads the one from the other) to fill it.
ForkPage(p) ==
  LET d == job[p].dir
      v == job[p].next
      x == Entry(p, v)
  IN  /\ job[p].op = "fork" /\ v < NPages
      /\ \/ /\ x \notin Frames
            /\ MapOther(d, v, x)
            /\ Advance(p)
            /\ UNCHANGED dir
         \/ /\ x \in Frames
            /\ MapNewFrame(d, v)
            /\ Goto(p, [job[p] EXCEPT !.op = "fork_copy", !.dir = dir[p]])
            /\ dir' = [dir EXCEPT ![p] = d]
      /\ UNCHANGED <<readonly, proc, alloc, checked, saved>>

\* Mutant: p stays on the child's directory.
ForkCopiedStay(p) ==
  LET d == dir[p]
      v == job[p].next
  IN  /\ job[p].op = "fork_copy"
      /\ readonly' = [readonly EXCEPT ![d] =
                        @ \cup (readonly[job[p].dir] \cap {v})]
      /\ Goto(p, [job[p] EXCEPT !.op = "fork", !.next = @ + 1])
      /\ UNCHANGED <<pool, pte, proc, dir, alloc, checked, saved>>

\* The frame is filled: p is back on its own directory, and the child's page
\* gets the access bit of the parent's.
ForkCopied(p) ==
  LET d == dir[p]
      v == job[p].next
  IN  /\ job[p].op = "fork_copy"
      /\ dir' = [dir EXCEPT ![p] = job[p].dir]
      /\ readonly' = [readonly EXCEPT ![d] =
                        @ \cup (readonly[job[p].dir] \cap {v})]
      /\ Goto(p, [job[p] EXCEPT !.op = "fork", !.dir = d, !.next = @ + 1])
      /\ UNCHANGED <<pool, pte, proc, alloc, checked, saved>>

\* Mutant: the child's directory is not destructed.
ForkFailLeak(p) ==
  LET q == job[p].child
      v == job[p].next
  IN  /\ job[p].op = "fork"
      /\ \/ v < NPages /\ Entry(p, v) # Unavailable /\ "page_table" \in Fails
         \/ v < NPages /\ Entry(p, v) \in Frames /\ pool = <<>>
         \/ v = NPages /\ "list_node" \in Fails
      /\ proc' = [proc EXCEPT ![q] = "free"]
      /\ dir' = [dir EXCEPT ![q] = NoDir]
      /\ Goto(p, User)
      /\ UNCHANGED <<pool, pte, readonly, alloc, checked, saved>>

\* No page table, no frame, no list node or no TCB: the child's PCB is
\* popped and its directory destructed.
ForkFail(p) ==
  LET q == job[p].child
      v == job[p].next
  IN  /\ job[p].op = "fork"
      /\ \/ v < NPages /\ Entry(p, v) # Unavailable /\ "page_table" \in Fails
         \/ v < NPages /\ Entry(p, v) \in Frames /\ pool = <<>>
         \/ v = NPages /\ "list_node" \in Fails
      /\ proc' = [proc EXCEPT ![q] = "free"]
      /\ dir' = [dir EXCEPT ![q] = NoDir]
      /\ Goto(p, Destruct("fork_undo", NoProc, job[p].dir))
      /\ UNCHANGED <<pool, pte, readonly, alloc, checked, saved>>

ForkDone(p) ==
  LET q == job[p].child
  IN  /\ job[p].op = "fork" /\ job[p].next = NPages
      /\ alloc' = [alloc EXCEPT ![q] = alloc[p]]
      /\ proc' = [proc EXCEPT ![q] = "live"]
      /\ Goto(p, User)
      /\ UNCHANGED <<pool, pte, readonly, dir, checked, saved>>

-----------------------------------------------------------------------------
(***************************************************************************)
(* load_executable: p runs on a new directory while it is filled; the old  *)
(* one (job[p].dir) is kept as the way back.                               *)
(***************************************************************************)
Exec(p, d) ==
  /\ MayCall(p, "exec") /\ Alone(p)
  /\ FreeDir(d)
  /\ dir' = [dir EXCEPT ![p] = d]
  /\ Goto(p, Job("exec", NoProc, dir[p], 0, 0, USER_PAGE_START))
  /\ UNCHANGED <<pool, pte, readonly, proc, alloc, checked, saved>>

\* change_availability, map_and_clear and change_access for one page.
ExecPage(p) ==
  LET v == job[p].next
  IN  /\ job[p].op = "exec" /\ v < NPages
      /\ IF v \in Framed
         THEN MapNewFrame(dir[p], v)
         ELSE MapOther(dir[p], v, IF Image[v] = "zero" THEN Zero
                                                       ELSE Unavailable)
      /\ readonly' = [readonly EXCEPT ![dir[p]] = @ \cup (Text \cap {v})]
      /\ Advance(p)
      /\ UNCHANGED <<proc, dir, alloc, checked, saved>>

\* Back to the old directory; the new one is destructed.
ExecFail(p) ==
  LET v == job[p].next
  IN  /\ job[p].op = "exec" /\ v < NPages /\ Image[v] # "none"
      /\ \/ v \in Framed /\ pool = <<>>
         \/ "page_table" \in Fails
      /\ dir' = [dir EXCEPT ![p] = job[p].dir]
      /\ Goto(p, Destruct("exec_undo", NoProc, dir[p]))
      /\ UNCHANGED <<pool, pte, readonly, proc, alloc, checked,
                     saved>>

\* Loaded: the old directory is destructed.
ExecDone(p) ==
  /\ job[p].op = "exec" /\ job[p].next = NPages
  /\ Goto(p, Destruct("exec_free", NoProc, job[p].dir))
  /\ UNCHANGED <<pool, pte, readonly, proc, dir, alloc, checked,
                 saved>>

-----------------------------------------------------------------------------
(***************************************************************************)
(* handle_page_fault, and kernel accesses to user memory.                  *)
(***************************************************************************)

\* A read or write of page v faults and the fault is resolved; a fault that
\* is not kills the thread (the last thread: Vanish).  When a write to the
\* zero frame finds the pool empty, the page is left unmapped.
ResolveFault(p, v, write) ==
  LET x == Entry(p, v)
  IN  /\ \/ x = Available /\ ~write /\ MapOther(dir[p], v, Zero)
         \/ x \in {Available, Zero} /\ write /\ MapNewFrame(dir[p], v)
         \/ x = Zero /\ write /\ pool = <<>> /\ MapOther(dir[p], v, Available)
      /\ UNCHANGED <<readonly, proc, dir, alloc, job, checked, saved>>

PageFault(p, v, write) == MayCall(p, "fault") /\ ResolveFault(p, v, write)

\* deschedule asks is_readable about the page of *reject before it takes the
\* PCB lock, ...
DescheduleCheck(p, v) ==
  /\ "deschedule" \in Ops /\ proc[p] = "live"
  /\ job[p].op \notin SingleThread
  /\ checked[p] = 0
  /\ Entry(p, v) # Unavailable
  /\ checked' = [checked EXCEPT ![p] = v]
  /\ UNCHANGED <<pool, pte, readonly, proc, dir, alloc, job, saved>>

\* ... and reads it holding the lock: a page that is not present faults, and
\* handle_page_fault spins on the lock its own thread holds.
DescheduleRead(p) ==
  /\ MayCall(p, "deschedule") /\ checked[p] # 0
  /\ checked' = [checked EXCEPT ![p] = 0]
  /\ Goto(p, IF Entry(p, checked[p]) < Zero THEN [User EXCEPT !.op = "stuck"]
                                            ELSE User)
  /\ UNCHANGED <<pool, pte, readonly, proc, dir, alloc, saved>>

\* new_pages reads its arguments holding the lock, too; here they are at a
\* page that is not present.
NewPagesArgs(p, v) ==
  /\ MayCall(p, "bad_args")
  /\ Entry(p, v) < Zero
  /\ Goto(p, [User EXCEPT !.op = "stuck"])
  /\ UNCHANGED <<pool, pte, readonly, proc, dir, alloc, checked, saved>>

-----------------------------------------------------------------------------
\* The steps that free frames or lose them, ...
Freeing(p) == NewUndo(p) \/ RemovePage(p) \/ DestructPage(p) \/ Vanish(p)

\* ... and the others.
Other(p) ==
  \/ \E v \in Pages, n \in 1..NPages : NewPages(p, v, n)
  \/ NewPage(p) \/ NewPageFail(p) \/ NewDone(p) \/ NewFailed(p)
  \/ \E v \in UserPages : RemovePages(p, v)
  \/ RemoveDone(p)
  \/ DestructDone(p)
  \/ \E q \in Procs : Reap(p, q)
  \/ \E q \in Procs, d \in Dirs : Fork(p, q, d)
  \/ ForkPage(p) \/ ForkCopied(p) \/ ForkFail(p) \/ ForkDone(p)
  \/ \E d \in Dirs : Exec(p, d)
  \/ ExecPage(p) \/ ExecFail(p) \/ ExecDone(p)
  \/ \E v \in UserPages, w \in BOOLEAN : PageFault(p, v, w)
  \/ \E v \in UserPages : DescheduleCheck(p, v) \/ NewPagesArgs(p, v)
  \/ DescheduleRead(p)

Next == \E p \in Procs : Freeing(p) \/ (Other(p) /\ UNCHANGED lost)

Spec == Init /\ [][Next]_vars

-----------------------------------------------------------------------------
(***************************************************************************)
(* Properties.                                                             *)
(***************************************************************************)

Mapped(f) == {e \in Dirs \X UserPages : pte[e[1]][e[2]] = f}

\* A frame is in one place only: once in the pool, or mapped at one page of
\* one directory.  (alloc_frame, free_frame and every caller that maps,
\* unmaps, copies or rolls back.)
FrameOnce ==
  /\ \A i, j \in DOMAIN pool : i < j => pool[i] < pool[j]
  /\ \A f \in Frames :
       /\ Cardinality(Mapped(f)) <= 1
       /\ Mapped(f) # {} => f \notin {pool[i] : i \in DOMAIN pool}
       /\ f \in lost => Mapped(f) = {} /\ f \notin {pool[i] : i \in DOMAIN pool}

\* No frame is lost: one that is not in the pool is mapped in the directory of a
\* process, or in one that a running call is about to release, with two
\* exceptions: free_frame had no memory for its list node, or task_vanish killed
\* the wait that was releasing it.  (The failure paths of new_pages, fork and
\* exec, and wait.)
NoLeak ==
  \A f \in Frames :
    \/ f \in lost
    \/ f \in {pool[i] : i \in DOMAIN pool}
    \/ \E e \in Mapped(f) : ~FreeDir(e[1])

\* No process shares its directory with another or with a call that destructs
\* it, except that a parent in fork is on the directory of its child while it
\* fills a frame; the child does not run then, and each has its own when it
\* does.  (fork's switch there and back, the way back of exec, and the popped
\* PCB of a fork that fails.)
DirsPrivate ==
  \A p \in Procs : proc[p] \in {"live", "zombie"} =>
    /\ dir[p] \in Dirs
    /\ \A q \in Procs : job[q].dir # dir[p]
    /\ \A q \in Procs \ {p} : dir[q] = dir[p] =>
         job[p].op = "fork_copy" /\ job[p].child = q /\ proc[q] = "new"

\* The directory with the memory of p.
Home(p) == IF job[p].op = "fork_copy" THEN job[p].dir ELSE dir[p]

AllocPages(a) == a.base..(a.base + a.len - 1)

\* In a process that is not in exec, the allocations are in order, disjoint,
\* and backed by frames, so that remove_pages does not fail half-way; and the
\* pages without the R/W bit are those of the text, through fork and exec,
\* whatever was mapped and unmapped: the text stays read-only and what
\* new_pages returned can be written.
AllocBacked ==
  \A p \in Procs :
    proc[p] = "live" /\ job[p].op \notin {"exec", "exec_free"} =>
      /\ \A i, j \in DOMAIN alloc[p] : i < j =>
           alloc[p][i].base + alloc[p][i].len <= alloc[p][j].base
      /\ \A i \in DOMAIN alloc[p] : \A v \in AllocPages(alloc[p][i]) :
           v \in UserPages /\ pte[Home(p)][v] \in Frames
      /\ readonly[Home(p)] = Text

\* A new_pages that fails leaves every entry as it found it.
AllOrNothing ==
  [][\A p \in Procs :
       job[p].op = "new_undo" /\ job'[p].op = "user" =>
         pte'[dir[p]] = saved[p]]_vars

\* No thread faults while it holds the PCB lock that the fault handler takes.
NoSelfLock == \A p \in Procs : job[p].op # "stuck"

==============================================================================
