------------------------------ MODULE Scheduler ------------------------------
(***************************************************************************)
(* Threads, the processor and the system calls that move threads between   *)
(* the thread lists: timer ticks, yield, deschedule, make_runnable, sleep, *)
(* thread_fork, fork, vanish and task_vanish.                              *)
(*                                                                         *)
(* The machine is a uniprocessor.  System calls run with interrupts        *)
(* enabled, so the timer may preempt the running thread between any two    *)
(* steps below; one step is a stretch the code runs with interrupts        *)
(* disabled, or one that touches nothing another thread can see.           *)
(***************************************************************************)
EXTENDS ThreadLists, FiniteSets

CONSTANTS
  Threads,      \* TCBs (a TCB is identified with its tid)
  Procs,        \* PCBs
  NoProc,       \* the NULL pcb_t *
  IdleThread,   \* the first thread, of the root process: runs idle
  IdleProc,     \* root_pcb_node_ptr->data
  InitThread,   \* the thread of init, forked from the root at boot
  InitProc,
  Calls,        \* the system calls user programs make, of LockingCalls
  TickMod,      \* tick_count is unsigned: 2^32 in the build
  SleepArgs     \* the positive arguments of sleep that are tried

ASSUME ThreadAssumption ==
  /\ NoThread \notin Threads
  /\ IdleThread \in Threads /\ InitThread \in Threads
  /\ IdleThread # InitThread

ASSUME ProcAssumption ==
  /\ NoProc \notin Procs
  /\ IdleProc \in Procs /\ InitProc \in Procs
  /\ IdleProc # InitProc

ASSUME TickAssumption == TickMod \in Nat \ {0} /\ SleepArgs \subseteq Nat \ {0}

VARIABLES
  thr,     \* thread_lists and the TCBs' state, blocking_detail and pcb_ptr
  tick,    \* tick_count
  tcbs,    \* tcbs[p]: tcb_list of process p, <<>> when p is not in use
  parent,  \* parent[p]: parent_pcb_ptr
  lock,    \* lock[p]: the holder of the PCB lock, NoThread when unlocked
  op,      \* op[t]: where thread t is in its system call
  node     \* node[t]: the TCB the call of t works on (new_tcb_ptr, node_ptr)

vars == <<thr, tick, tcbs, parent, lock, op, node>>

\* System calls that begin with mutex_lock(&(pcb_ptr->lock)).
LockingCalls ==
  {"deschedule", "sleep", "thread_fork", "fork", "vanish", "task_vanish"}

\* Later places in those calls.
Places == {"fork_build", "fork_insert", "thread_fork_insert",
           "task_vanish_loop"}

ASSUME CallAssumption == Calls \subseteq LockingCalls

Ops == {"user"} \cup LockingCalls \cup Places

\* The thread that holds the processor, and its process.
Me   == RunningThread(thr)
Mine == thr.pcb[Me]

\* Me is past mutex_lock in call o.
Holding(o) == op[Me] = o /\ lock[Mine] = Me

\* get_thread_alive_count
AliveCount(p) ==
  Cardinality({u \in Range(tcbs[p]) : thr.state[u] # "TERMINATED"})

Goto(o) == op' = [op EXCEPT ![Me] = o]

\* mutex_unlock(&(pcb_ptr->lock)) of the caller's process
Unlock == lock' = [lock EXCEPT ![Mine] = NoThread]

-----------------------------------------------------------------------------
(***************************************************************************)
(* The state when kernel_main enters user mode: the root process is about  *)
(* to run idle, init is runnable.                                          *)
(***************************************************************************)
Init ==
  /\ thr = [list   |-> [l \in ListIdx |->
                          CASE l = "RUNNING" -> <<IdleThread>>
                            [] l = "READY"   -> <<InitThread>>
                            [] OTHER         -> <<>>],
            state  |-> [t \in Threads |->
                          CASE t = IdleThread -> "RUNNING"
                            [] t = InitThread -> "READY"
                            [] OTHER          -> "NEW"],
            detail |-> [t \in Threads |-> NoDetail],
            pcb    |-> [t \in Threads |->
                          CASE t = IdleThread -> IdleProc
                            [] t = InitThread -> InitProc
                            [] OTHER          -> NoProc]]
  /\ tick = 0
  /\ tcbs = [p \in Procs |-> CASE p = IdleProc -> <<IdleThread>>
                               [] p = InitProc -> <<InitThread>>
                               [] OTHER        -> <<>>]
  /\ parent = [p \in Procs |-> IF p = InitProc THEN IdleProc ELSE NoProc]
  /\ lock = [p \in Procs |-> NoThread]
  /\ op = [t \in Threads |-> "user"]
  /\ node = [t \in Threads |-> NoThread]

-----------------------------------------------------------------------------
(***************************************************************************)
(* Timer interrupts.  task_vanish kills siblings with interrupts disabled, *)
(* one loop iteration per step here.                                       *)
(***************************************************************************)
InterruptsEnabled == op[Me] # "task_vanish_loop"

\* Mutant: the counter does not wrap.
NextTickUnbounded == tick + 1

NextTick == (tick + 1) % TickMod

\* The first sleeping thread is due at tick n.
SleeperDue(n) ==
  /\ thr.list["SLEEP"] # <<>>
  /\ thr.detail[Head(thr.list["SLEEP"])].wakeup_time <= n

\* A turn of round_robin: the thread it returns runs, Me becomes runnable.
\* Nothing happens when no thread is runnable.
TakeTurn(T) == SwitchContext(Rotate(T), RoundRobin(T), "READY", NoDetail)

\* handle_timer: a due sleeper runs at once and this tick does not rotate.
Timer ==
  /\ InterruptsEnabled
  /\ tick' = NextTick
  /\ thr' = IF SleeperDue(NextTick)
            THEN SwitchContext(thr, Head(thr.list["SLEEP"]), "READY", NoDetail)
            ELSE TakeTurn(thr)
  /\ UNCHANGED <<tcbs, parent, lock, op, node>>

-----------------------------------------------------------------------------
(***************************************************************************)
(* handle_yield and mutex_lock, which yields to the holder while it spins. *)
(***************************************************************************)

\* handle_yield with a tid: only a thread of the READY list is yielded to.
YieldTo(T, t) ==
  IF t \in Range(T.list["READY"])
  THEN SwitchContext(T, t, "READY", NoDetail)
  ELSE T

\* handle_yield; NoThread stands for the argument -1.
Yield(t) ==
  /\ op[Me] = "user" /\ Me # IdleThread
  /\ thr' = IF t = NoThread THEN TakeTurn(thr) ELSE YieldTo(thr, t)
  /\ UNCHANGED <<tick, tcbs, parent, lock, op, node>>

\* The user program enters a system call (idle makes none: it loops).
Call(o) ==
  /\ op[Me] = "user" /\ Me # IdleThread
  /\ Goto(o)
  /\ UNCHANGED <<thr, tick, tcbs, parent, lock, node>>

\* Mutant: the lock is taken whoever holds it.
MutexLockUnguarded ==
  /\ op[Me] \in LockingCalls
  /\ lock[Mine] # Me
  /\ lock' = [lock EXCEPT ![Mine] = Me]
  /\ UNCHANGED <<thr, tick, tcbs, parent, op, node>>

\* mutex_lock(&(p->lock)): take it, or yield and try again.  The spinning
\* thread yields to the tid stored in the mutex: the holder's, or -1 when the
\* holder was preempted before it stored its tid or after it cleared it.
SpinLock(p) ==
  \/ /\ lock[p] = NoThread
     /\ lock' = [lock EXCEPT ![p] = Me]
     /\ UNCHANGED thr
  \/ /\ lock[p] # NoThread
     /\ thr' = YieldTo(thr, lock[p]) \/ thr' = TakeTurn(thr)
     /\ UNCHANGED lock

\* The PCB lock of the caller's process.
MutexLock ==
  /\ op[Me] \in LockingCalls
  /\ lock[Mine] # Me
  /\ SpinLock(Mine)
  /\ UNCHANGED <<tick, tcbs, parent, op, node>>

-----------------------------------------------------------------------------
(***************************************************************************)
(* Blocking calls: interrupts go off under the PCB lock, the next thread   *)
(* is chosen, the lock is released and the processor handed over.          *)
(***************************************************************************)

\* Mutant: the lock is not released.
BlockKeepLock(reason, d) ==
  LET next == FindNextThread(thr, tcbs[Mine])
  IN  /\ next # NoThread
      /\ thr' = SwitchContext(FindNextRotate(thr, tcbs[Mine]), next,
                              reason, d)
      /\ Goto("user")
      /\ UNCHANGED <<tick, tcbs, parent, lock, node>>

Block(reason, d) ==
  LET next == FindNextThread(thr, tcbs[Mine])
  IN  /\ next # NoThread    \* else handle_halt stops the machine
      /\ thr' = SwitchContext(FindNextRotate(thr, tcbs[Mine]), next,
                              reason, d)
      /\ Unlock
      /\ Goto("user")
      /\ UNCHANGED <<tick, tcbs, parent, node>>

\* handle_sleep(ticks)
Sleep(ticks) ==
  /\ Holding("sleep")
  /\ Block("SLEEP", [wakeup_time  |-> (tick + ticks) % TickMod,
                     first_reader |-> FALSE])

\* handle_deschedule: *reject is read with interrupts off.
Deschedule(reject) ==
  /\ Holding("deschedule")
  /\ \/ /\ reject
        /\ Unlock
        /\ Goto("user")
        /\ UNCHANGED <<thr, tick, tcbs, parent, node>>
     \/ /\ ~reject
        /\ Block("DESCHEDULE", NoDetail)

\* handle_make_runnable: -1 unless t is descheduled.
MakeRunnable(t) ==
  /\ op[Me] = "user" /\ Me # IdleThread
  /\ t \in Range(thr.list["DESCHEDULE"])
  /\ thr' = AlterState(thr, t, "READY", NoDetail)
  /\ UNCHANGED <<tick, tcbs, parent, lock, op, node>>

-----------------------------------------------------------------------------
(***************************************************************************)
(* thread_fork: the TCB is in tcb_list, in READY_STATE, before its node is *)
(* in thread_lists[READY_STATE]; the PCB lock covers the gap.              *)
(***************************************************************************)

\* A copy of the caller's TCB in process p, not in any thread list yet.
NewTcb(u, p) ==
  [list   |-> thr.list,
   state  |-> [thr.state EXCEPT ![u] = "READY"],
   detail |-> thr.detail,
   pcb    |-> [thr.pcb EXCEPT ![u] = p]]

\* The TCB is popped from tcb_list again and freed.
FreeTcb(u) ==
  [list   |-> thr.list,
   state  |-> [thr.state EXCEPT ![u] = "NEW"],
   detail |-> thr.detail,
   pcb    |-> [thr.pcb EXCEPT ![u] = NoProc]]

\* Mutant: the list is started anew with the node.
LinkReadyAlone(u, i) ==
  [list   |-> [thr.list EXCEPT !["READY"] = <<u>>],
   state  |-> thr.state,
   detail |-> thr.detail,
   pcb    |-> thr.pcb]

\* The node of u is linked into READY at position i.
LinkReady(u, i) ==
  [list   |-> [thr.list EXCEPT !["READY"] = InsertAt(@, i, u)],
   state  |-> thr.state,
   detail |-> thr.detail,
   pcb    |-> thr.pcb]

ThreadForkCreate(u) ==
  /\ Holding("thread_fork")
  /\ thr.state[u] = "NEW"
  /\ tcbs' = [tcbs EXCEPT ![Mine] = Append(@, u)]
  /\ thr' = NewTcb(u, Mine)
  /\ node' = [node EXCEPT ![Me] = u]
  /\ Goto("thread_fork_insert")
  /\ UNCHANGED <<tick, parent, lock>>

ThreadForkInsert ==
  /\ Holding("thread_fork_insert")
  /\ thr' = LinkReady(node[Me], ReadySlot(thr, Mine))
  /\ node' = [node EXCEPT ![Me] = NoThread]
  /\ Unlock
  /\ Goto("user")
  /\ UNCHANGED <<tick, tcbs, parent>>

\* malloc fails for the TCB, or for its node: POP_BACK(tcb_list).
ThreadForkFail ==
  /\ \/ /\ Holding("thread_fork")
        /\ UNCHANGED <<thr, tcbs, node>>
     \/ /\ Holding("thread_fork_insert")
        /\ thr' = FreeTcb(node[Me])
        /\ tcbs' = [tcbs EXCEPT ![Mine] = Front(@)]
        /\ node' = [node EXCEPT ![Me] = NoThread]
  /\ Unlock
  /\ Goto("user")
  /\ UNCHANGED <<tick, parent>>

-----------------------------------------------------------------------------
(***************************************************************************)
(* fork: only for a process with one live thread; the PCB lock is released *)
(* before the child is built.                                              *)
(***************************************************************************)
ForkCheck ==
  /\ Holding("fork")
  /\ Unlock
  /\ Goto(IF AliveCount(Mine) = 1 THEN "fork_build" ELSE "user")
  /\ UNCHANGED <<thr, tick, tcbs, parent, node>>

ForkBuild(u, q) ==
  /\ op[Me] = "fork_build"
  /\ thr.state[u] = "NEW" /\ tcbs[q] = <<>>
  /\ tcbs' = [tcbs EXCEPT ![q] = <<u>>]
  /\ parent' = [parent EXCEPT ![q] = Mine]
  /\ thr' = NewTcb(u, q)
  /\ node' = [node EXCEPT ![Me] = u]
  /\ Goto("fork_insert")
  /\ UNCHANGED <<tick, lock>>

ForkInsert ==
  /\ op[Me] = "fork_insert"
  /\ thr' = LinkReady(node[Me], Len(thr.list["READY"]) + 1)
  /\ node' = [node EXCEPT ![Me] = NoThread]
  /\ Goto("user")
  /\ UNCHANGED <<tick, tcbs, parent, lock>>

\* Some allocation fails: before the TCB exists, or for its node.
ForkFail ==
  /\ \/ /\ op[Me] = "fork_build"
        /\ UNCHANGED <<thr, tcbs, parent, node>>
     \/ /\ op[Me] = "fork_insert"
        /\ tcbs' = [tcbs EXCEPT ![thr.pcb[node[Me]]] = <<>>]
        /\ parent' = [parent EXCEPT ![thr.pcb[node[Me]]] = NoProc]
        /\ thr' = FreeTcb(node[Me])
        /\ node' = [node EXCEPT ![Me] = NoThread]
  /\ Goto("user")
  /\ UNCHANGED <<tick, lock>>

-----------------------------------------------------------------------------
(***************************************************************************)
(* vanish and task_vanish.                                                 *)
(***************************************************************************)

\* handle_vanish of the last live thread: the parent's first waiter wakes,
\* and round_robin picks the next thread.
VanishLast ==
  LET T == WakeWaiter(thr, parent[Mine])
  IN  /\ Holding("vanish")
      /\ AliveCount(Mine) = 1
      /\ RoundRobin(T) # NoThread    \* else handle_halt
      /\ thr' = SwitchContext(Rotate(T), RoundRobin(T), "TERMINATED", NoDetail)
      /\ Unlock
      /\ Goto("user")
      /\ UNCHANGED <<tick, tcbs, parent, node>>

\* handle_vanish with siblings alive.
VanishThread ==
  /\ Holding("vanish")
  /\ AliveCount(Mine) # 1
  /\ Block("TERMINATED", NoDetail)

\* Mutant: the walk starts after the first TCB.
TaskVanishBeginNext ==
  /\ Holding("task_vanish")
  /\ node' = [node EXCEPT ![Me] =
                 IF Len(tcbs[Mine]) > 1 THEN tcbs[Mine][2] ELSE Me]
  /\ Goto("task_vanish_loop")
  /\ UNCHANGED <<thr, tick, tcbs, parent, lock>>

\* handle_task_vanish: interrupts off, walk tcb_list from its front.
TaskVanishBegin ==
  /\ Holding("task_vanish")
  /\ node' = [node EXCEPT ![Me] = Head(tcbs[Mine])]
  /\ Goto("task_vanish_loop")
  /\ UNCHANGED <<thr, tick, tcbs, parent, lock>>

\* One iteration: every TCB but the caller's is terminated; past the last
\* one the lock is released and handle_vanish is called.
TaskVanishStep ==
  LET u == node[Me]
      i == SelectInSeq(tcbs[Mine], LAMBDA v : v = u)
  IN  /\ op[Me] = "task_vanish_loop"
      /\ thr' = IF u # Me THEN AlterState(thr, u, "TERMINATED", NoDetail)
                          ELSE thr
      /\ \/ /\ i < Len(tcbs[Mine])
            /\ node' = [node EXCEPT ![Me] = tcbs[Mine][i + 1]]
            /\ UNCHANGED <<lock, op>>
         \/ /\ i = Len(tcbs[Mine])
            /\ node' = [node EXCEPT ![Me] = NoThread]
            /\ Unlock
            /\ Goto("vanish")
      /\ UNCHANGED <<tick, tcbs, parent>>

-----------------------------------------------------------------------------
Next ==
  \/ Timer
  \/ MutexLock
  \/ \E t \in Threads \cup {NoThread} : Yield(t)
  \/ \E o \in Calls : Call(o)
  \/ \E n \in SleepArgs : Sleep(n)
  \/ \E reject \in BOOLEAN : Deschedule(reject)
  \/ \E t \in Threads : MakeRunnable(t)
  \/ \E u \in Threads : ThreadForkCreate(u)
  \/ ThreadForkInsert
  \/ ThreadForkFail
  \/ ForkCheck
  \/ \E u \in Threads, q \in Procs : ForkBuild(u, q)
  \/ ForkInsert
  \/ ForkFail
  \/ VanishLast
  \/ VanishThread
  \/ TaskVanishBegin
  \/ TaskVanishStep

Spec == Init /\ [][Next]_vars

\* A timer interrupt would be taken and change something.
TimerEnabled ==
  /\ InterruptsEnabled
  /\ NextTick # tick \/ SleeperDue(NextTick) \/ thr.list["READY"] # <<>>

\* The timer device keeps interrupting (weak fairness of Timer, with its
\* enabling condition written out), and a stretch with interrupts disabled
\* runs to its end.
FairSpec ==
  /\ Spec
  /\ []<><<Timer>>_vars \/ []<>~TimerEnabled
  /\ WF_vars(TaskVanishStep)
-----------------------------------------------------------------------------
(***************************************************************************)
(* Properties.                                                             *)
(***************************************************************************)
Details == [wakeup_time : 0..TickMod - 1, first_reader : BOOLEAN]

\* Every variable keeps its type.
TypeOK ==
  /\ thr \in [list   : [ListIdx -> Seq(Threads)],
              state  : [Threads -> ListIdx \cup {"NEW"}],
              detail : [Threads -> Details],
              pcb    : [Threads -> Procs \cup {NoProc}]]
  /\ tick \in 0..TickMod - 1
  /\ tcbs \in [Procs -> Seq(Threads)]
  /\ parent \in [Procs -> Procs \cup {NoProc}]
  /\ lock \in [Procs -> Threads \cup {NoThread}]
  /\ op \in [Threads -> Ops]
  /\ node \in [Threads -> Threads \cup {NoThread}]

\* TCBs in READY_STATE whose node is not in thread_lists[READY_STATE] yet.
Pending == {node[t] : t \in {s \in Threads :
                       op[s] \in {"fork_insert", "thread_fork_insert"}}}

\* Exactly one thread runs.  A thread is in the list its state (or blocking
\* reason) names and in no other, and in it once; only a TCB that fork or
\* thread_fork is still building, and a thread already terminated, may be in
\* none.  alter_state, find_next_thread and switch_context all rely on this,
\* and they check nothing: switching to a thread whose node is missing would
\* leave the RUNNING list empty.
ListsAgree ==
  /\ Len(thr.list["RUNNING"]) = 1
  /\ \A l \in ListIdx : IsInjective(thr.list[l])
  /\ \A l \in ListIdx, t \in Threads :
       /\ t \in Range(thr.list[l]) => thr.state[t] = l /\ t \notin Pending
       /\ thr.state[t] = l /\ l # "TERMINATED" /\ t \notin Pending
            => t \in Range(thr.list[l])

\* The SLEEP list is sorted by wake-up time, so that handle_timer may look at
\* its front only.
SleepSorted ==
  LET s == thr.list["SLEEP"]
  IN  \A i, j \in DOMAIN s : i < j =>
        thr.detail[s[i]].wakeup_time <= thr.detail[s[j]].wakeup_time

\* The runnable threads of a process are next to one another in the READY
\* list, whatever sequence of rotations, switches and wake-ups led there:
\* round_robin moves on by one process, not by one thread.
ReadyGrouped ==
  LET s == thr.list["READY"]
  IN  \A i, j, k \in DOMAIN s :
        i < j /\ j < k /\ thr.pcb[s[i]] = thr.pcb[s[k]]
          => thr.pcb[s[j]] = thr.pcb[s[i]]

\* A PCB lock is held by a live thread of that process that has not gone to
\* sleep with it, so a thread spinning in mutex_lock always spins on a holder
\* the scheduler can run.
HolderCanRun ==
  \A p \in Procs : lock[p] # NoThread =>
    /\ thr.pcb[lock[p]] = p
    /\ thr.state[lock[p]] \in {"READY", "RUNNING"}

\* find_next_thread and round_robin always find a thread for a caller that
\* blocks or vanishes (idle is runnable whenever it does not run), so
\* handle_halt is never called from a blocking call.
NeverHalts == Me # IdleThread => thr.list["READY"] # <<>>

\* A terminated thread stays terminated: no wake-up, no switch and no list
\* operation brings back a thread whose TCB is about to be freed.
DeadStaysDead ==
  [][\A t \in Threads :
       thr.state[t] = "TERMINATED" => thr'.state[t] = "TERMINATED"]_vars

\* When handle_task_vanish goes on to handle_vanish, the caller is the last
\* live thread of its process: no sibling that was forking a thread, sleeping
\* or spinning on the PCB lock has survived the walk.
TaskVanishKills ==
  [][\A t \in Threads :
       op[t] = "task_vanish_loop" /\ op'[t] = "vanish" =>
         \A u \in Range(tcbs[thr.pcb[t]]) \ {t} :
           thr'.state[u] = "TERMINATED"]_vars

\* Every thread in the READY list gets the processor (or is terminated by a
\* sibling): no sequence of yields, blocking calls and forks starves it, as
\* long as the timer ticks and no sleeper takes every tick.
ReadyRuns ==
  \A t \in Threads :
    t \in Range(thr.list["READY"]) ~> t \notin Range(thr.list["READY"])
=============================================================================
