------------------------------ MODULE Lifecycle ------------------------------
(***************************************************************************)
(* Processes: who is whose child, how a process ends and who collects it.  *)
(* Composes Scheduler (threads, thread lists, PCB locks, fork, vanish,     *)
(* task_vanish) with the child lists and exit statuses, and adds           *)
(* handle_wait, handle_set_status and fault_kill_thread.                   *)
(*                                                                         *)
(* handle_wait holds the caller's PCB lock while it locks one child after  *)
(* the other, and takes init's PCB lock on top when it hands its           *)
(* grandchildren over; every other call takes one PCB lock at a time.      *)
(***************************************************************************)
EXTENDS Scheduler

CONSTANTS
  MoreCalls,    \* the calls of this module that are made, of WaitCalls and yield
  Statuses,     \* the arguments of set_status and task_vanish that are tried
  FailProcs,    \* the processes whose fork may run out of memory
  MaxCount      \* bound on thread_count: how many threads are ever made

\* Entry points that also begin with mutex_lock(&(pcb_ptr->lock)).
WaitCalls == {"wait", "fault"}

ASSUME LifecycleAssumption ==
  /\ MoreCalls \subseteq WaitCalls \cup {"yield"}
  /\ Statuses \subseteq Int
  /\ FailProcs \subseteq Procs
  /\ MaxCount \in Nat

VARIABLES
  children,  \* children[p]: child_pcb_list of p, front first
  status,    \* status[p]: pcb->status
  kid,       \* kid[t]: the child that wait scans or reaps, or fork builds
  stale,     \* how many nodes of the TERMINATED list point to a freed TCB;
             \* thr.list has the others (which is in front is not recorded)
  thread_count  \* the next tid

family == <<children, status, kid, stale, thread_count>>
lvars  == <<vars, family>>

\* Places of handle_wait, in order.
WaitOps == {"wait", "wait_scan", "wait_adopt", "wait_free", "wait_pop",
            "wait_pop_last", "wait_wake"}

\* The ones after the locks are released: what has been collected is freed, ...
Freeing == {"wait_free", "wait_pop", "wait_pop_last"}

\* ... and who may have to be told is woken.
Late == {"wait_free", "wait_pop", "wait_pop_last", "wait_wake"}

LInit ==
  /\ Init
  /\ children = [p \in Procs |-> IF p = IdleProc THEN <<InitProc>> ELSE <<>>]
  /\ status = [p \in Procs |-> 0]
  /\ kid = [t \in Threads |-> NoProc]
  /\ stale = 0
  /\ thread_count = 2    \* idle and init

SetKid(q) == kid' = [kid EXCEPT ![Me] = q]

\* mutex_lock of the caller's PCB lock in wait and fault_kill_thread.
MutexLockOwn ==
  /\ op[Me] \in WaitCalls
  /\ lock[Mine] # Me
  /\ SpinLock(Mine)
  /\ UNCHANGED <<tick, tcbs, parent, op, node, family>>

-----------------------------------------------------------------------------
(***************************************************************************)
(* fork_ctrl_blk.  The child's PCB is pushed onto child_pcb_list without   *)
(* the PCB lock, before the pages are copied and the TCB is built.         *)
(***************************************************************************)
ForkPush(q) ==
  /\ op[Me] = "fork_build" /\ kid[Me] = NoProc
  /\ q # IdleProc /\ parent[q] = NoProc
  /\ children' = [children EXCEPT ![Mine] = Append(@, q)]
  /\ parent' = [parent EXCEPT ![q] = Mine]
  /\ status' = [status EXCEPT ![q] = 0]
  /\ SetKid(q)
  /\ UNCHANGED <<thr, tick, tcbs, lock, op, node, stale, thread_count>>

\* The next tid is taken (under thread_manager_lock).
TakeTid ==
  /\ thread_count < MaxCount
  /\ thread_count' = thread_count + 1
  /\ UNCHANGED <<children, status, kid, stale>>

ForkCopy(u) ==
  /\ kid[Me] # NoProc
  /\ ForkBuild(u, kid[Me])
  /\ TakeTid

ForkDone ==
  /\ ForkInsert
  /\ SetKid(NoProc)
  /\ UNCHANGED <<children, status, stale, thread_count>>

\* POP_BACK(parent_pcb_ptr->child_pcb_list) frees the last PCB of the list.
ForkUndo ==
  LET q == Last(children[Mine])
  IN  /\ Mine \in FailProcs
      /\ op[Me] \in {"fork_build", "fork_insert"}
      /\ IF kid[Me] = NoProc    \* nothing pushed yet
         THEN ForkFail /\ UNCHANGED family
         ELSE /\ children' = [children EXCEPT ![Mine] = Front(@)]
              /\ parent' = [parent EXCEPT ![q] = NoProc]
              /\ thr' = IF node[Me] = NoThread THEN thr
                                               ELSE FreeTcb(node[Me])
              /\ tcbs' = [tcbs EXCEPT ![kid[Me]] = <<>>]
              /\ node' = [node EXCEPT ![Me] = NoThread]
              /\ SetKid(NoProc)
              /\ Goto("user")
              /\ UNCHANGED <<tick, lock, status, stale, thread_count>>

-----------------------------------------------------------------------------
(***************************************************************************)
(* How a process ends.                                                     *)
(***************************************************************************)

\* handle_set_status
SetStatus(s) ==
  /\ op[Me] = "user" /\ Me # IdleThread
  /\ status' = [status EXCEPT ![Mine] = s]
  /\ UNCHANGED <<vars, children, kid, stale, thread_count>>

\* handle_task_vanish stores the status once its siblings are dead and the
\* lock is released.
TaskVanish(s) ==
  /\ TaskVanishStep
  /\ status' = IF op'[Me] = "vanish" THEN [status EXCEPT ![Mine] = s]
                                     ELSE status
  /\ UNCHANGED <<children, kid, stale, thread_count>>

\* A fault the kernel cannot resolve enters fault_kill_thread.
Fault ==
  /\ Call("fault")
  /\ UNCHANGED family

\* fault_kill_thread counts the live threads under the lock, ...
FaultCount ==
  /\ Holding("fault")
  /\ Unlock
  /\ Goto(IF AliveCount(Mine) <= 1 THEN "fault_last" ELSE "vanish")
  /\ UNCHANGED <<thr, tick, tcbs, parent, node, family>>

\* ... sets the status after it released the lock, and calls handle_vanish.
FaultLast ==
  /\ op[Me] = "fault_last"
  /\ status' = [status EXCEPT ![Mine] = -2]
  /\ Goto("vanish")
  /\ UNCHANGED <<thr, tick, tcbs, parent, lock,
                 node, children, kid, stale, thread_count>>

-----------------------------------------------------------------------------
(***************************************************************************)
(* handle_wait.                                                            *)
(***************************************************************************)

\* No child left: wait returns -1.
WaitNone ==
  /\ Holding("wait")
  /\ children[Mine] = <<>>
  /\ Unlock
  /\ Goto("user")
  /\ UNCHANGED <<thr, tick, tcbs, parent, node, family>>

\* find_exited_child starts at the front of the list.
WaitScan ==
  /\ Holding("wait")
  /\ children[Mine] # <<>>
  /\ SetKid(Head(children[Mine]))
  /\ Goto("wait_scan")
  /\ UNCHANGED <<thr, tick, tcbs, parent, lock, node,
                 children, status, stale, thread_count>>

\* mutex_lock(&(current_child->lock))
WaitLockChild ==
  /\ op[Me] = "wait_scan"
  /\ lock[kid[Me]] # Me
  /\ SpinLock(kid[Me])
  /\ UNCHANGED <<tick, tcbs, parent, op, node, family>>

\* The child under scan is locked.
AtChild == op[Me] = "wait_scan" /\ lock[kid[Me]] = Me

\* The place of that child in the list.
KidIndex == SelectInSeq(children[Mine], LAMBDA p : p = kid[Me])

\* Mutant: a child that is alive is unlocked before the next one is locked.
WaitNextChildUnlock ==
  /\ AtChild
  /\ AliveCount(kid[Me]) # 0
  /\ kid[Me] # Last(children[Mine])
  /\ SetKid(children[Mine][KidIndex + 1])
  /\ lock' = [lock EXCEPT ![kid[Me]] = NoThread]
  /\ UNCHANGED <<thr, tick, tcbs, parent, op, node, children, status, stale,
                 thread_count>>

\* Still alive: its lock is kept and the next child is looked at.
WaitNextChild ==
  /\ AtChild
  /\ AliveCount(kid[Me]) # 0
  /\ kid[Me] # Last(children[Mine])
  /\ SetKid(children[Mine][KidIndex + 1])
  /\ UNCHANGED <<vars, children, status, stale, thread_count>>

\* Mutant: the children stay locked while the caller sleeps.
WaitBlockKeepChildren ==
  LET next == FindNextThread(thr, tcbs[Mine])
  IN  /\ AtChild
      /\ AliveCount(kid[Me]) # 0
      /\ kid[Me] = Last(children[Mine])
      /\ next # NoThread
      /\ thr' = SwitchContext(FindNextRotate(thr, tcbs[Mine]), next,
                              "VANISH_WAIT", NoDetail)
      /\ Unlock
      /\ SetKid(NoProc)
      /\ Goto("wait")
      /\ UNCHANGED <<tick, tcbs, parent, node, children, status, stale,
                     thread_count>>

\* None has exited: with interrupts disabled unlock the children and the
\* caller's PCB and block; when woken, lock the PCB and start again.
WaitBlock ==
  LET next == FindNextThread(thr, tcbs[Mine])
  IN  /\ AtChild
      /\ AliveCount(kid[Me]) # 0
      /\ kid[Me] = Last(children[Mine])
      /\ next # NoThread    \* else handle_halt
      /\ thr' = SwitchContext(FindNextRotate(thr, tcbs[Mine]), next,
                              "VANISH_WAIT", NoDetail)
      /\ lock' = [p \in Procs |->
                    IF p = Mine \/ p \in Range(children[Mine])
                    THEN NoThread ELSE lock[p]]
      /\ SetKid(NoProc)
      /\ Goto("wait")
      /\ UNCHANGED <<tick, tcbs, parent, node, children, status, stale,
                     thread_count>>

\* Mutant: a child with one thread left counts as exited.
WaitFoundOneLeft ==
  /\ AtChild
  /\ AliveCount(kid[Me]) <= 1
  /\ lock' = [p \in Procs |->
                IF \E i \in 1..KidIndex : children[Mine][i] = p
                THEN NoThread ELSE lock[p]]
  /\ children' = [children EXCEPT ![Mine] = RemoveAt(@, KidIndex)]
  /\ Goto("wait_adopt")
  /\ UNCHANGED <<thr, tick, tcbs, parent, node, status, kid, stale,
                 thread_count>>

\* An exited child: unlock_children up to it, and detach it.
WaitFound ==
  /\ AtChild
  /\ AliveCount(kid[Me]) = 0
  /\ lock' = [p \in Procs |->
                IF \E i \in 1..KidIndex : children[Mine][i] = p
                THEN NoThread ELSE lock[p]]
  /\ children' = [children EXCEPT ![Mine] = RemoveAt(@, KidIndex)]
  /\ Goto("wait_adopt")
  /\ UNCHANGED <<thr, tick, tcbs, parent, node, status, kid, stale,
                 thread_count>>

\* A caller other than init takes init's PCB lock as well.
WaitLockInit ==
  /\ op[Me] = "wait_adopt"
  /\ Mine # InitProc /\ lock[InitProc] # Me
  /\ SpinLock(InitProc)
  /\ UNCHANGED <<tick, tcbs, parent, op, node, family>>

\* Mutant: the parent pointers are left alone.
WaitAdoptKeepParent ==
  /\ op[Me] = "wait_adopt" /\ lock[InitProc] = Me
  /\ children' = [children EXCEPT ![kid[Me]] = <<>>,
                                  ![InitProc] = @ \o children[kid[Me]]]
  /\ lock' = [lock EXCEPT ![InitProc] = NoThread, ![Mine] = NoThread]
  /\ Goto("wait_free")
  /\ UNCHANGED <<thr, tick, tcbs, parent, node, status, kid, stale,
                 thread_count>>

\* The grandchildren go to the end of init's list, or become the caller's
\* list when init has no child; init is their parent.  Both locks are
\* released.
WaitAdopt ==
  LET q == kid[Me]
      s == children[q]
  IN  /\ op[Me] = "wait_adopt"
      /\ lock[InitProc] = Me
      /\ children' =
           IF s = <<>> THEN children
           ELSE IF children[InitProc] = <<>>
                THEN [children EXCEPT ![q] = <<>>, ![Mine] = s]
                ELSE [children EXCEPT ![q] = <<>>, ![InitProc] = @ \o s]
      /\ parent' = [p \in Procs |-> IF p \in Range(s) THEN InitProc
                                                      ELSE parent[p]]
      /\ lock' = [lock EXCEPT ![InitProc] = NoThread, ![Mine] = NoThread]
      /\ Goto("wait_free")
      /\ UNCHANGED <<thr, tick, tcbs, node, status, kid, stale, thread_count>>

\* Without a lock and with interrupts enabled: the first TCB that is left of
\* the child is freed.  Its node, if it is in the TERMINATED list, stays there.
WaitFreeTcb ==
  LET q == kid[Me]
      u == Head(tcbs[q])
      dead == thr.list["TERMINATED"]
  IN  /\ op[Me] = "wait_free" /\ tcbs[q] # <<>>
      /\ thr' = [list   |-> [thr.list EXCEPT !["TERMINATED"] =
                               RemoveFirst(dead, u)],
                 state  |-> [thr.state EXCEPT ![u] = "NEW"],
                 detail |-> thr.detail,
                 pcb    |-> [thr.pcb EXCEPT ![u] = NoProc]]
      /\ stale' = IF u \in Range(dead) THEN stale + 1 ELSE stale
      /\ tcbs' = [tcbs EXCEPT ![q] = Tail(@)]
      /\ op' = [op EXCEPT ![u] = "user"]
      /\ node' = [node EXCEPT ![u] = NoThread]
      /\ kid' = [kid EXCEPT ![u] = NoProc]
      /\ UNCHANGED <<tick, parent, lock, children, status, thread_count>>

\* The TERMINATED list is not empty: POP_FRONT reads its front, and decides
\* whether that is the only node.
WaitPopRead ==
  LET nodes == Len(thr.list["TERMINATED"]) + stale
  IN  /\ op[Me] = "wait_free" /\ tcbs[kid[Me]] = <<>>
      /\ nodes # 0
      /\ Goto(IF nodes = 1 THEN "wait_pop_last" ELSE "wait_pop")
      /\ UNCHANGED <<thr, tick, tcbs, parent, lock, node, family>>

\* The TERMINATED list becomes s.
Terminated(s) == thr' = [thr EXCEPT !.list["TERMINATED"] = s]

\* The front moves on, and the node is unlinked and freed.
WaitPop ==
  /\ op[Me] = "wait_pop"
  /\ \/ /\ thr.list["TERMINATED"] # <<>>
        /\ Terminated(Tail(thr.list["TERMINATED"]))
        /\ UNCHANGED stale
     \/ /\ stale # 0
        /\ stale' = stale - 1
        /\ UNCHANGED thr
  /\ Goto("wait_free")
  /\ UNCHANGED <<tick, tcbs, parent, lock, node, children, status, kid,
                 thread_count>>

\* The front becomes NULL: what was appended since it was read is lost.
WaitPopLast ==
  /\ op[Me] = "wait_pop_last"
  /\ Terminated(<<>>)
  /\ stale' = 0
  /\ Goto("wait_free")
  /\ UNCHANGED <<tick, tcbs, parent, lock, node, children, status, kid,
                 thread_count>>

\* The list is empty: the child's memory and its PCB are freed.
WaitFreePcb ==
  LET q == kid[Me]
  IN  /\ op[Me] = "wait_free" /\ tcbs[q] = <<>>
      /\ thr.list["TERMINATED"] = <<>> /\ stale = 0
      /\ parent' = [parent EXCEPT ![q] = NoProc]
      /\ status' = [status EXCEPT ![q] = 0]
      /\ SetKid(NoProc)
      /\ Goto("wait_wake")
      /\ UNCHANGED <<thr, tick, tcbs, lock, node, children, stale,
                     thread_count>>

\* The next waiter of the process and the first waiter of init wake up.
WaitWake ==
  /\ op[Me] = "wait_wake"
  /\ thr' = WakeWaiter(WakeWaiter(thr, Mine), InitProc)
  /\ Goto("user")
  /\ UNCHANGED <<tick, tcbs, parent, lock, node, family>>

-----------------------------------------------------------------------------
\* The steps of Scheduler that touch nothing of the family.
ThreadStep ==
  \/ Timer
  \/ MutexLock
  \/ "yield" \in MoreCalls /\ \E t \in Threads \cup {NoThread} : Yield(t)
  \/ \E o \in Calls : Call(o)
  \/ ThreadForkInsert
  \/ ThreadForkFail
  \/ ForkCheck
  \/ VanishLast
  \/ VanishThread
  \/ TaskVanishBegin

LNext ==
  \/ ThreadStep /\ UNCHANGED family
  \/ \E u \in Threads : ThreadForkCreate(u) /\ TakeTid
  \/ MutexLockOwn
  \/ \E q \in Procs : ForkPush(q)
  \/ \E u \in Threads : ForkCopy(u)
  \/ ForkDone
  \/ ForkUndo
  \/ \E s \in Statuses : SetStatus(s) \/ TaskVanish(s)
  \/ "fault" \in MoreCalls /\ Fault
  \/ FaultCount
  \/ FaultLast
  \/ "wait" \in MoreCalls /\ Call("wait") /\ UNCHANGED family
  \/ WaitNone
  \/ WaitScan
  \/ WaitLockChild
  \/ WaitNextChild
  \/ WaitBlock
  \/ WaitFound
  \/ WaitLockInit
  \/ WaitAdopt
  \/ WaitFreeTcb
  \/ WaitPopRead
  \/ WaitPop
  \/ WaitPopLast
  \/ WaitFreePcb
  \/ WaitWake

LSpec == LInit /\ [][LNext]_lvars

-----------------------------------------------------------------------------
(***************************************************************************)
(* Properties.                                                             *)
(***************************************************************************)

\* A thread that is not dead.
Live(t) == thr.state[t] \notin {"NEW", "TERMINATED"}

\* The process tree is consistent: a process is in the child list of the
\* process its parent_pcb_ptr names, once, and in no other; a process with a
\* live thread is in a list.  Handing grandchildren over to init (and only to
\* init, whoever reaps their parent) keeps this, so vanish always finds the
\* process that must be told, and that process still exists.
FamilyOK ==
  /\ \A p \in Procs : IsInjective(children[p])
  /\ \A p, q \in Procs : q \in Range(children[p]) => parent[q] = p
  /\ \A t \in Threads : Live(t) /\ t # IdleThread =>
       LET p == thr.pcb[t]
       IN  parent[p] \in Procs /\ p \in Range(children[parent[p]])

\* What wait frees is dead and nobody else uses it: no live thread belongs to
\* the process, nobody holds its PCB lock, scans it or waits for the lock, and
\* its children have been handed over.
FreedQuiet ==
  \A t \in Threads : Live(t) /\ op[t] \in Freeing =>
    /\ \A u \in Threads : thr.pcb[u] = kid[t] => ~Live(u)
    /\ lock[kid[t]] = NoThread
    /\ \A u \in Threads \ {t} : Live(u) => kid[u] # kid[t]
    /\ children[kid[t]] = <<>>

\* Whoever holds a PCB lock can run, and it is the lock of its own process, of
\* a child or of init: no thread sleeps in wait, and none is killed by its
\* sibling's task_vanish, with the locks of the children it has scanned.
HoldersRun ==
  \A p \in Procs : lock[p] # NoThread =>
    /\ thr.state[lock[p]] \in {"READY", "RUNNING"}
    /\ thr.pcb[lock[p]] \in {p, parent[p]} \/ p = InitProc

\* A wake-up is not lost: while a thread sleeps in wait and its process has an
\* exited child to collect, a runnable thread of the process is in wait too,
\* or kills the sleeper in task_vanish; or the process is init and somebody
\* has handed orphans over to it and has yet to wake it.  The last one may
\* have been killed by a task_vanish of its own process in the meantime: init
\* then sleeps on until its next child exits.
ZombieNoticed ==
  \A t \in Range(thr.list["VANISH_WAIT"]) :
    LET p == thr.pcb[t]
    IN  (\E q \in Range(children[p]) : tcbs[q] # <<>> /\ AliveCount(q) = 0)
          => \E u \in Threads :
               \/ /\ thr.state[u] \in {"READY", "RUNNING"}
                  /\ thr.pcb[u] = p
                  /\ op[u] \in WaitOps \cup {"task_vanish_loop"}
               \/ /\ p = InitProc
                  /\ thr.state[u] \in {"READY", "RUNNING", "TERMINATED"}
                  /\ op[u] \in Late

\* No two threads are inside POP_FRONT of the TERMINATED list at a time: each
\* would free the same node.  handle_wait pops the list with interrupts
\* enabled and holds no lock.
PopsAlone ==
  \A t, u \in Threads :
    /\ Live(t) /\ op[t] \in {"wait_pop", "wait_pop_last"}
    /\ Live(u) /\ op[u] \in {"wait_pop", "wait_pop_last"}
    => t = u

\* A fork that fails takes back the child it has pushed, not another one.
UndoesOwn == ForkUndo /\ kid[Me] # NoProc => kid[Me] = Last(children[Mine])

\* wait and fork free what is theirs: no node of the TERMINATED list is freed
\* twice, and no PCB of a process that still runs is freed by a fork that
\* fails.  ("alter_state is the official way of modifying thread_lists", and a
\* PCB is in its parent's list of "child processes".)
FreesOwn == []PopsAlone /\ [][UndoesOwn]_lvars

\* The behaviours without these two heap errors.
OrderlySpec == LSpec /\ FreesOwn

\* The process whose PCB lock t asks for, if it asks for one.
Wants(t) ==
  CASE op[t] = "wait_scan"                   -> kid[t]
    [] op[t] = "wait_adopt"                  -> InitProc
    [] op[t] \in LockingCalls \cup WaitCalls -> thr.pcb[t]
    [] OTHER                                 -> NoProc

\* t spins on a PCB lock that u holds.
SpinsOn(t, u) == Live(t) /\ Wants(t) # NoProc /\ lock[Wants(t)] = u

\* No two threads spin on locks the other one holds: a wait that found an
\* exited child returns it.
NoLockCycle ==
  \A t, u \in Threads : t # u => ~(SpinsOn(t, u) /\ SpinsOn(u, t))

=============================================================================
