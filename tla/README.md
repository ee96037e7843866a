# A TLA+ model of the kernel: threads, processes, and who waits for whom

This directory models the kernel in `kern/` and the thread library in
`user/libthread` and `user/libautostack`: the thread lists and the scheduler, the
system calls that block, wake, create and end threads, the life of processes
(fork, exit, fault, wait, adoption by init), virtual memory, the kernel's mutex,
readline and the keyboard, the console, the hypervisor's guests, and the user
mutexes, condition variables, semaphores, reader/writer locks and threads built
on top of the system calls.  TLC checks the models on small instances.  TLAPS
proves, for any number of threads, processes, pages and frames and any size of
the buffers and of the screen, the safety properties of all of them.

## The system

A uniprocessor Pebbles kernel with preemptive threads.  System calls run in
kernel mode *with interrupts enabled*; short stretches run with interrupts
disabled.  The parts written for this kernel are in `kern/` and
`user/libthread`, `user/libautostack`; `410kern`, `410user`, `410guests`,
`guests`, `spec` and `vq_challenge` are course code, tests and data.

| Part | State | Operations | Talks to | What must be right |
|---|---|---|---|---|
| control blocks (`ctrl_blk.c`) | `thread_lists`, TCBs, PCBs, child lists | `alter_state`, `fork_ctrl_blk`, `thread_fork_ctrl_blk`, searches | everything | a thread is in the one list its state names; the process tree is consistent |
| scheduler (`scheduler.c`, `context_switcher.c`) | order of the READY list | `round_robin`, `find_next_thread`, `switch_context` | control blocks | exactly one running thread; no starvation |
| timer (`timer.c`) | `tick_count` | `handle_timer` | scheduler | sleepers wake, the list rotates |
| kernel mutex (`mutex.c`) | `lock_state`, `tid` | lock (spin and yield to the holder), try, unlock | `handle_yield` | mutual exclusion; the holder can run |
| thread calls (`system_call.c`) | place in the call | yield, deschedule, make_runnable, sleep, thread_fork, vanish, task_vanish | PCB lock, scheduler | no lost wake-up, no resurrected thread |
| process calls (`system_call.c`, `fault_handler.c`) | child lists, status | fork, wait, set_status, fault_kill_thread | PCB locks of parent, children and init | wait frees only the dead, no waiter is forgotten, no deadlock |
| virtual memory (`vm.c`, page faults) | frame pool, page directories, allocation lists | new_pages, remove_pages, map/unmap, fork copies | PCB lock | no frame shared or leaked, roll-back on failure |
| keyboard and readline | scancode and character buffers, READLINE list | interrupt, readline, getchar | scheduler | one reader at a time, hand-off, no lost key |
| console | cursor, colour, screen | putbyte, scroll | print, guests | cursor stays on the screen |
| loader, exec, swexn | address space, handler | exec, swexn | VM, autostack | a failing exec leaves the old program; faults reach the handler registered last |
| hypervisor (`virtual_interrupt.c`, `interrupt.c`) | virtual IDT, pending interrupts | hypercalls, delivery | timer, keyboard | interrupts do not nest, a crash takes no lock along |
| thread library (`user/libthread`) | mutex, cond, sem, rwlock queues, thread table | the usual calls | deschedule, make_runnable, yield | no lost waiter, no lost unit, exclusion |

Hard behaviour comes from three sources: preemption between any two
instructions of a system call; spinning locks whose waiters yield to a named
thread; and memory that is freed by another process (wait).  The `hazards` of
`PROJECT.json` list the places line by line.

## Modules

```
ThreadLists               list operations as functions
   ^
Scheduler                 threads, timer, PCB locks, calls
   ^    ^    ^
   |    |    MCScheduler  (MCScheduler.cfg, MCFair.cfg)
   |    Readline          readline, print, keyboard
   |       ^-- MCReadline (MCReadline.cfg)
Lifecycle                 fork, wait, exit, faults
   ^------ MCLifecycle    (MCFamily.cfg, MCDeadlock.cfg, MCHeap.cfg)

VirtualMemory             frames, page directories, address spaces
   ^------ MCVirtualMemory  (MCMemory.cfg, MCSelfLock.cfg)

Lock                      the abstract lock
   | implemented by
SpinMutex                 mutex_lock, mutex_try_lock, mutex_unlock
   ^------ MCMutex (MCMutex.cfg)

CondVar   <-- Semaphore, RWLock, ThreadLib        Autostack
                 \          |         /              /
                          UserLib
                             ^-- MCUserLib (MCUserLib.cfg, MCDowngrade.cfg)
Console   <-- Guest  <-- MCGuest (MCGuest.cfg)

Proofs:   SequenceLemmas <-- SchedulerProofs <-- ReadlineProofs, LifecycleProofs
             ^-- VirtualMemoryProofs, UserLibProofs
          SpinMutexProofs, GuestProofs
```

Every proof module extends the module it is about.

### ThreadLists

`alter_state`, `round_robin`, `find_next_thread`, `switch_context` and
`find_tcb_in_list` run with interrupts disabled, so each is a function from
one value of the bookkeeping to the next.  The bookkeeping is a record: the
lists (front of the circular list first), and for each thread its state (or
blocking reason), `blocking_detail` and `pcb_ptr`.  Two details of the code
are kept on purpose: `alter_state` chooses the destination node *before* it
unlinks the source node (so a thread that moves to the list it heads drops out
of every list, `Relink`), and `switch_context` ignores the result of both
`alter_state` calls.

### Scheduler

One action per stretch that runs with interrupts disabled, or that touches
nothing another thread can see; `Timer` may come between any two of them.
`op[t]` is the place of thread `t` in its call, `node[t]` the TCB it works on.

| Action | Code |
|---|---|
| `Timer` | `handle_timer` (500 Hz ticks, 500 Hz rotation: every tick without a due sleeper rotates) |
| `Yield`, `Call` | `handle_yield`; entry of a call |
| `MutexLock` (`SpinLock`) | `mutex_lock` of the PCB lock, `SpinMutex` in one step.  The `xchange` and the store of `tid` are one step; that a spinner may read `tid = -1` in between, and yields to anyone, is kept as a choice |
| `Sleep`, `Deschedule`, `MakeRunnable` | the handlers, `Block` being their common tail |
| `ThreadForkCreate/Insert/Fail` | `thread_fork_ctrl_blk`: the TCB is READY before its node is in the READY list |
| `ForkCheck/Build/Insert/Fail` | `handle_fork` and `fork_ctrl_blk` |
| `VanishLast`, `VanishThread` | `handle_vanish` |
| `TaskVanishBegin/Step` | `handle_task_vanish`, one iteration per step, interrupts off |

`handle_halt` in a blocking call is a disabled action (`next # NoThread`);
`NeverHalts` shows that the case does not arise.  `make_runnable` and `yield`
of a thread that is not there return -1 and are stuttering steps.

### Lifecycle

Adds `child_pcb_list` (`children`), `pcb->status`, the child a thread scans,
reaps or builds (`kid`) and the tid counter `thread_count`.  `handle_wait`
becomes `WaitScan`, `WaitLockChild` / `WaitNextChild` (`find_exited_child`,
which keeps every child's lock), `WaitBlock`, `WaitFound` (unlock, detach),
`WaitLockInit` / `WaitAdopt` (grandchildren to init), `WaitFreeTcb`,
`WaitPopRead`, `WaitPop` / `WaitPopLast`, `WaitFreePcb` and `WaitWake`.
`fault_kill_thread` is `FaultCount` and `FaultLast`.  `ForkPush` and `ForkUndo`
are the `PUSH_BACK` and `POP_BACK` of the child's PCB, done without the PCB lock.

What `wait` frees it frees without a lock and with interrupts enabled, so the
model does it piece by piece: one TCB (`WaitFreeTcb`), one node of the TERMINATED
list, the PCB.  A node of that list whose TCB has been freed stays in the list;
`stale` counts these, and which of the nodes is in front is left open.
`POP_FRONT` is two steps: it reads the front and whether that is the only node
(`WaitPopRead`), then moves the front on, unlinks and frees (`WaitPop`), or clears
the front, with whatever was appended meanwhile (`WaitPopLast`).  Two threads
between these steps would free the same node (`PopsAlone` says nobody is), and a
failed fork may pop a PCB that is not its child's (`UndoesOwn` says it does not).
`FreesOwn` is both together; it is violated, see Findings.  A heap on which `free`
has been called twice has no behaviour one could model; `OrderlySpec` is `LSpec` up
to the first such error.

### VirtualMemory

Stands on its own: what it needs of the other modules is that the PCB lock
excludes (checked there), that fork and exec run in a process with one thread,
and that exited processes are collected by some live process.  `pool` is
`alloc_list`, `pte[d][v]` the entry of page `v` in page directory `d`
(`Unavailable`, `Available`, `Zero` or a frame), `readonly` the pages without
the R/W bit, `alloc[p]` the `page_allocation_list`, `job[p]` the call in
progress and how far its loop has come.

| Action | Code |
|---|---|
| `NewPages`, `NewPage`, `NewPageFail`, `NewUndo`, `NewDone`, `NewFailed` | `handle_new_pages`, one page per step, and its roll-back |
| `NewPagesArgs` | the read of its argument packet, under the lock, faults |
| `RemovePages`, `RemovePage`, `RemoveDone` | `handle_remove_pages`; `Visited` is its search loop |
| `DestructPage`, `DestructDone` | `destruct_page_dir` and what its caller does next |
| `Fork`, `ForkPage`, `ForkCopied`, `ForkFail`, `ForkDone` | the copying of the address space in `fork_ctrl_blk`; between `ForkPage` and `ForkCopied` the parent's `page_directory` is the child's |
| `Exec`, `ExecPage`, `ExecFail`, `ExecDone` | `load_executable`; `Image` is the program |
| `Reap` | the release of an exited process in `handle_wait`, carried out without any lock |
| `Vanish` | the end of a process; what its threads were releasing in `handle_wait` is lost (`Reaping`, `lost`) |
| `PageFault` | `handle_page_fault` of a fault that is resolved (one that is not kills the thread) |
| `DescheduleCheck`, `DescheduleRead` | `is_readable` before the lock, the read under it |

A step is what a process does up to one operation on the pool, the only thing
processes share; `vm_lock` makes that operation atomic.  Page tables are not
modelled apart from their allocation failing; page number arithmetic wraps as
`uint32_t` does.  Contents of frames, the TLB and guests are left out.

### SpinMutex and Lock

`SpinMutex` is `kern/mutex.c` and `user/libthread/mutex.c`, one access to memory
or one system call per step: `ExchangeLock`, `ReadTid`, `Yield` (the spinning
loop), `ExchangeTry`, `StoreTid`, `ClearTid`, `ReleaseWord`.  `Preempt` is the
timer.  The client is that of `malloc_wrappers.c`: lock, work, unlock, or one
attempt.  `Lock` says what a lock is: a thread asks, gets in when it is free, or
is turned away when it only tried, and leaves.  `ImplementsLock` is the
refinement; the mapping `Phase` puts a thread inside from its successful exchange
to the release of the word.

### CondVar, Semaphore, RWLock, ThreadLib

`CondVar` has `cond_wait` in four steps (`CwEnqueue`, `CwUnlock`, `CwSleep`,
`CwLock`) and `cond_signal` / `cond_broadcast` in two (`CsTake` or `CbTake`, then
`CsWake` per waiter).  `asleep` is the kernel's DESCHEDULE list; the loop around
`make_runnable` is a step that is not enabled before the waiter is descheduled.
`frame[t]` is the call a thread is in and where it goes on, so that the other
modules call `cond_wait` and `cond_signal` as their code does.

* `Semaphore`: `sem_wait`, `sem_signal`.
* `RWLock`: `rwlock_lock` (`LockRead`, `LockWrite`; `WriterSlot` is where a writer
  goes in `rw_list`), `rwlock_unlock` (`ToGrant`, with the case that falls
  through), `rwlock_downgrade`.
* `ThreadLib`: `thr_create` in its three steps, with `thread_fork` that may fail,
  `wrap_func`, `thr_join`, `thr_exit` and the crash handler.  `node[t]` is the heap
  block of the list node of `t`'s record: `append_node` gets a fresh block or one
  that was freed (`FreeNodes`), and `remove_node` removes the record whose node is
  at the address it is given (`Cleanup`), which need not be the one it means.
  `overtaken` records that a second `thr_join` cleaned up after a thread another
  one joins, the case in which that matters.  A thread whose record is gone is
  killed in `wrap_func` (`lost`), or holds the chain's mutex for ever in `thr_exit`
  (`ThrExitUnknown`).

`UserLib` composes them: `use` says which of them a process uses, and
`MonitorStep` is a program that waits, signals and broadcasts.

### Autostack

`swexn` in the kernel, the delivery of a fault in `interrupt.c:444`, and
`libautostack`, in a process with one thread.  A program starts with a `Push` onto
the page where `exec` left the stack pointer or the one below (`_main`,
`install_autostack` and `swexn` push before a handler is registered; `Images` has
every split of the stack into pages with a frame, for the arguments, and pages on
the zero frame), then `Install`.  After that the thread runs an instruction at a
time (`Instruction`: a read or a write of any page, or a division by zero), which
completes, or faults: `DeliverFault` (a handler is registered), `ResolveFault` and
`KillFault` (`handle_page_fault`), `Grow` and `Decline` (`handle_autostack`).  `Exec`
replaces the program, clearing `handler` and not `exception_stack`.

### Readline

Extends `Scheduler` with `scancode_buf`, `ch_buf`, `input_lock` and
`output_lock`.  `Keyboard` is the interrupt; `handle_readline` is `ReadCall`,
`TryInput`, `Granted` (resumed by the last owner), `ReadChar` (`extract_ch`),
`Echo`, `Edit` and `Release`; `handle_print` is `PrintCall`, `PrintLock`,
`PrintDone`.  A key is what `process_scancode` makes of it.

### Console and Guest

`Console` is the driver as functions of cursor and colour, with C's division and
signed chars.  `Guest` has one guest, a host thread that
prints and one that reads, and one processor (`cpu`).  The guest takes virtual
interrupts (`Deliver`, one frame each in `frames`; `GuestTimer`, `GuestKey`,
`Fault`), returns from them (`HvIret`), sets its table and its flag (also by a
`hv_setidt` with the unchecked irqno -2), and uses the
console (`HvCall`, `HvLock`, then the call; `hv_print_at` in three steps).
`HostFault` is the crash of the guest inside a hypervisor call.

## Runs

Threads and processes other than the root's (idle) and init's are symmetric;
symmetry is used in the safety runs of the first four modules only.

| Run | Instance | Shows |
|---|---|---|
| `scheduler` | 4 threads, 3 processes, all calls, tick counter modulo 4; 650,000 states | `TypeOK`, `ListsAgree`, `ReadyGrouped`, `HolderCanRun`, `NeverHalts`, `SleepSorted`; `DeadStaysDead`, `TaskVanishKills` |
| `fair` | 4 threads, 3 processes, all calls but sleep, `FairSpec` | `ReadyRuns`: no runnable thread starves |
| `family` | 5 threads, 5 processes, 5 tids; all ways to die, failing forks, init's too; up to the errors of `heap_errors`; 720,000 states | `FamilyOK`, `FreedQuiet`, `HoldersRun`, `ZombieNoticed` |
| `memory` | 2 processes, 3 directories, 4 user pages, 4 frames; all calls, faults and failures; 660,000 states | `FrameOnce`, `NoLeak`, `DirsPrivate`, `AllocBacked`; `AllOrNothing` |
| `mutex` | 3 threads; 34,000 states | `TidNamesOwner`; `ImplementsLock`, `SomebodyEnters` |
| `userlib` | 4 threads (or one, with 3 frames, whose stack of up to 4 pages grows); 140,000 states | `NoLostWaiter`, `UnitsKept`, `WriterAlone`, `GrantedPrefix`, `WrapFinds`, `ExitNoticed`, `LastEnds`; `SignalEnds`, `FaultSettles` |
| `readline` | 2 readers of one process, 1 printer, buffers of 2; 190,000 states | `OneReader`, `NoLostKey`, `BufOneLine`; `ReadlineReturns` |
| `guest` | screen of 2 by 2, 4 values of a byte, 2 nested frames, a key buffer of 2; 1,500,000 states | `CursorOnScreen`, `LockSurvivesGuest`, `OneInterrupt`, `ReaderNotMissed`; `PrintAtInvisible` |
| `wait_deadlock` | 4 threads, 4 processes | `NoLockCycle` fails: see Findings |
| `self_lock` | 1 process, 4 user pages, 3 frames | `NoSelfLock` fails: see Findings |
| `rw_downgrade` | 4 threads, any of which writes and downgrades | `WriterAlone` fails: see Findings |
| `heap_errors` | 5 threads, 6 processes, init's fork may fail | `FreesOwn` fails: see Findings |

### Bounds

*Scheduler.*  Four threads are idle, init and two more: two processes besides
idle of which one has two threads, which the preference for siblings, the
grouping of the READY list and `task_vanish` need.  `TickMod` stands for 2^32;
where nobody sleeps the counter is not read and `TickMod = 1` keeps it out of the
state.  `Calls` and `MoreCalls` choose the calls of a run.

*Lifecycle.*  Three generations below init are what an adoption by init, caused
by a process other than init, needs.  `MaxCount` bounds how many threads are ever
created.  `FewOrSimple` divides the instance: either at most two processes below
root, which may have several threads, set a status, fault and be killed by
`task_vanish`, or a family of processes of one thread each that fork, wait and
vanish, where only the timer changes who runs (`YieldIfFew`).  At most two
runnable threads are in a call at a time, more of them only while init has no
child.
`FailProcs` names the processes whose fork may run out of memory.  The run `family`
checks `OrderlySpec`: its action constraint `UndoesOwn` leaves out a `POP_BACK` of
another process's PCB, and `FewOrSimple` does not go on from a state in which
`PopsAlone` fails.  That these happen is what `heap_errors` shows, without the
action constraint and with `FreesOwn` as its property.

*VirtualMemory.*  `SmallImage` has a read-only text page at the bottom and a
zero-frame stack page at the top, which a `new_pages` in the middle can run into
(roll-back) or run past (wrap-around).  Four frames are what a fork with one
allocation needs to succeed, so that the pool is empty afterwards; with less no
child has an allocation, with more it never runs out.  `Fails` has the kernel
allocations that may fail: page tables, list nodes, and the pool's list nodes
(where a frame is lost: the model counts it in `lost`).  `OwnTrouble` and `Short`
keep two processes from doing at the same time what concerns only one of them.
Deadlock is not checked there: every process may have exited or hang in its own
lock.

*User library.*  Four threads give two waiters, a signaller and a late comer for
condition variables, two joiners of one thread, and a queue of three behind a
writer.  Semaphores start with one or two units.  `Apart` is the part of the
reader/writer lock that is right: any thread writes and none downgrades, or the
one writer downgrades.

*Readline.*  Every thread but idle is runnable at the beginning, in any order that
keeps processes together (`ReadyOrders`).  Buffers of two are full after two keys, also with an Enter; two
sibling readers are an owner and a waiter, and one that comes back.

*Guest.*  2 by 2 has a first and a last position, and lines that wrap; four
values of a byte have negative chars.  Two frames are a handler and a fault in it.

### Fairness

`FairSpec` of `Scheduler` assumes that the timer keeps interrupting (its enabling
condition is written out, because interrupts are off in `task_vanish`'s loop)
and that a stretch with interrupts off runs to its end.  Nothing is assumed of
user programs or of a system call's progress: the timer alone must bring every
runnable thread to the processor.  `ReadyRuns` is checked without sleepers: a
tick that wakes a sleeper does not rotate, as the comment at `timer.c:53-54`
says, so sleepers due at every tick would starve the READY list.

`FairSpec` of `SpinMutex` assumes that the scheduler comes round to every thread,
which is `ReadyRuns`, and strong fairness of a thread's steps, since a thread is
preempted and resumed again and again.  Under it somebody always gets the lock;
a particular thread may starve, because nothing in `mutex.c` queues.

`UFairSpec` assumes that a thread which is not descheduled gets on with
`cond_wait` and `cond_signal`, and that an instruction runs.  Nothing is assumed
of when the program calls or unlocks.

`RdFairSpec` assumes that the timer interrupts, that a thread which gets the
processor gets on when the lock it needs is free, that printing stops at some time
(a spinning thread has no claim on a lock others keep taking), and that the user
presses Enter again and again.  The last is about keys that find room in the
buffer: that the buffer gets room again is for the code to ensure.

Every property of a passing run comes with a mutant of the code (in
`PROJECT.json`; the mutated definitions stand, marked, before the ones they
replace) under which TLC finds it violated.

## Findings

* `wait_deadlock`: init in `wait` holds its PCB lock and takes its children's
  (`ctrl_blk.c:686`); a child of init in `wait` holds its own and takes init's
  (`system_call.c:396`).  Both spin forever.
* `self_lock`: `deschedule` reads `*reject` under the PCB lock; if a sibling has
  removed the page since the check, the fault handler spins on the lock of its
  own thread and the process hangs.  `new_pages` reads its arguments like that
  without a check.
* `rw_downgrade`: `rwlock_downgrade` signals every record behind the first reader,
  writers among them, and a writer enters beside the readers (`rwlock.c:286`).
* `heap_errors`: `fork_ctrl_blk` undoes the push of the child's PCB with
  `POP_BACK`, without a lock.  While init forks, p1's `wait` collects p2 and appends
  p2's child p4 to init's list; init's fork fails and frees the PCB of p4, whose
  thread lives (`ctrl_blk.c:288` and its like); `FamilyOK` is false then.  The other
  half of `FreesOwn` fails as well: `wait` empties the TERMINATED list with no lock
  and interrupts enabled (`system_call.c:440`), so that, preempted inside
  `POP_FRONT`, it and the wait of another process unlink and free the same node.
  TLC shows that one when `FailProcs` of `MCHeap.cfg` is empty.

Seen while modelling and not the subject of a run:

* A woken waiter in `wait` that finds no child returns -1 without waking the next
  one; a reap by init wakes two of its waiters, so init needs four waiting
  threads, any other process three.

* `wait` wakes init for an exited orphan it has handed over only after it has freed
  its own child; if a sibling's `task_vanish` kills it before that, init sleeps on
  until its next child exits (seven threads and six processes are needed).
  `ZombieNoticed` allows for this case, and for no other.
* The search of `remove_pages` stops before the node it looks for, unless that is
  the first: only the lowest allocation of a process can be removed.
* The status -2 of a fatal fault is lost when two threads fault together.
* A thread that dies while a `wait` pops the last node of the TERMINATED list is
  lost from the list (`WaitPopLast`); nothing looks it up there.
* `task_vanish` and a fault look at no lock but the PCB's: a sibling that is
  killed with the console, input or malloc lock leaves it locked, and one that is
  killed in `wait` loses the memory of the child it was releasing.
* Kernel writes to a zero-frame page change the zero frame, since CR0.WP is
  never set (the exception stack of `swexn` is such a write); the roll-back of
  `new_pages` leaves pages in the TLB; a sibling can read a new page before it is
  cleared.
* `hv_setidt` checks `irqno` from above only: -2 is the guest's interrupt flag (in
  the model), and below that are fields of the host's own PCB (left out: the guest
  is taken not to write there).
* The second loop of `rwlock_downgrade` does not end when a writer queues before
  a reader; a failed `thread_fork` leaves its record in the chain; `thr_join`
  frees the stack of a thread that has announced its exit and not vanished yet.
* `thr_join` looks at `has_exited` before `is_joined_on` (`thread.c:233`), so a
  second joiner cleans up while the first is on its way back from `cond_wait`; the
  first one then removes a freed node, which may be the record of a new thread by
  now.  With one thread that two others join, the run `userlib` reaches a thread that
  finds no record; `WrapFinds` and `LastEnds` name the case (`overtaken`).
* Every page fault goes to the registered handler, also the write to a zero-frame
  page that the kernel would resolve; `handle_autostack` declines it with a `swexn`
  that leaves no handler (`autostack.c:53`), so the stack does not grow any more:
  the next touch below it kills the thread although frames are left.
* `exec` clears `handler` and not `exception_stack`, by which a fault is delivered;
  a push of the new program to a zero-frame page of its stack, before it has called
  `swexn`, goes to the NULL handler (the place `wild` of `Autostack`).
* A terminal colour of 0x80 and above is a negative char, and nothing is drawn.

## Proofs

Every theorem holds for all values of the constants that satisfy the named
assumptions of the modules.  They say little: special values are different from
the ordinary ones (`ThreadAssumption`, `ProcAssumption`, `TidAssumption`,
`CondAssumption`, `UseAssumption`), counts and sizes are positive numbers
(`TickAssumption`, `ConsoleAssumption`, `GuestAssumption`, `AutostackAssumption`),
sets of threads are finite where they are counted or enumerated (`CondAssumption`,
`ReadlineAssumption`), and init's image fits into memory (`MemoryAssumption`).

`SequenceLemmas` has what the proofs need of sequences: insertion, removal,
rotation, searches.  `SchedulerProofs` starts with the list operations:
`AlterState` moves a thread from the list its state names to the target and
disturbs nothing else (`AlterStateAgree`), `Rotate` permutes the READY list
(`RotateAgree`), `SwitchContext` hands the processor over (`SwitchContextAgree`),
the searches return listed threads, and insertion, removal and rotation keep SLEEP
sorted and READY grouped (`AlterOrdered`, `RotateOrdered`).

### Scheduler (`SchedulerProofs`)

| Theorem | Statement |
|---|---|
| `TypeCorrect`, `ListsAgreeAlways`, `HolderCanRunAlways` | `[]TypeOK`, `[]ListsAgree`, `[]HolderCanRun` |
| `SleepersSorted`, `ProcessesGrouped` | `[]SleepSorted`, `[]ReadyGrouped` |
| `NeverHaltsAlways` | `[]NeverHalts` |
| `DeadStayDead`, `TaskVanishKillsAll` | the action properties `DeadStaysDead`, `TaskVanishKills` |

The first three follow from the inductive invariant `IInv` (theorem `Invariance`).
`ListsAgree` alone is not inductive: `find_next_thread` picks a thread by its
*state*, so the proof must know that no TCB of the caller's process is under
construction.  `IInv` therefore adds that every TCB belongs to the `tcb_list` of
its process (`TcbInv`), that a lock is held by a thread of that process in one of
the places that hold it (`LockInv`, `HoldInv`), and that a TCB under construction
belongs to a thread that holds the PCB lock or to a new process nobody runs in
(`PendInv`).

The others follow from `FullInv` (theorem `FullInvariance`), which adds the order
of the lists, `IdleInv` and `WalkInv`.  `NeverHalts` is about the idle thread: it
makes no call and is alone in its process, so nobody can stop it.
`TaskVanishKills` is about the end of a walk, so `WalkInv` says that every TCB the
walk has passed is terminated.  Each action is shown to preserve `IInv` together
with an action formula `Kept`: it keeps the order, wakes no dead thread, and makes
nobody but a thread of the caller's own locked process, or a TCB under
construction, stop being runnable.  `DeadStaysDead` is the second part of `Kept`.

### Processes (`LifecycleProofs`)

| Theorem | Statement |
|---|---|
| `FamilyConsistent`, `FreedIsQuiet` | `[]FamilyOK`, `[]FreedQuiet` |
| `ZombiesNoticed` | `[]ZombieNoticed` |
| `LockHoldersRun` | `[]HoldersRun` |
| `LifecycleLists`, `WaitNeverHalts` | `[]ListsAgree`, `[]NeverHalts`, now of `LSpec` |
| `TaskVanishKillsWaiters` | the action property `TaskVanishKills`, of `LSpec` |

All of them are theorems of `OrderlySpec`: they hold of every behaviour of `LSpec`
up to the first of the two heap errors above, and with any fork failing, init's too.
The two conditions are there for different reasons.  `[][UndoesOwn]_lvars` is what
the invariant needs: `heap_errors` shows a behaviour without it, after which
`FamilyOK` is false.  `[]PopsAlone` is used by no step of the proof; it is what makes the
theorems say something about the code, since the TERMINATED list of the model is
the one in memory only while no node has been freed twice.

The inductive invariant is `LInv` (theorem `LInvariance`).  Its parts, and what
each is for:

* `Core`: what `IInv` of the scheduler says about lists and TCBs.  `LockInv` is not
  part of it: here a thread also holds its children's locks, and init's.
* `OwnInv`, `HolderInv`: who may hold which PCB lock in each place.  A thread in
  `wait_scan` has the locks of the children it has passed (`ScanInv`); so a child
  that is found dead was locked, and nobody else can have found it.
* `ForkInv`: a thread that forks is alone in its process, and the child it builds is
  the last of the list unless it is init, to which others may have been handed; so
  but for init the `POP_BACK` takes that child and no other.
* `ReapInv`, `KidInv`: the child being collected is dead, out of its parent's list,
  and no other thread works on it, from the adoption to the release of its PCB.
  This is `FreedQuiet`.
* `Kin`, `Home`: child lists and parent pointers agree, and the process of a live
  thread is in its parent's list.  This is `FamilyOK`.
* `Tree`: every process descends from the root.  It is stated without induction
  (a set of processes with the root that contains the children of its members
  contains them all) and serves one purpose: init has a child when somebody else hands
  over orphans (`InitHasChild`).  `system_call.c:405` would otherwise hang them into
  the list of the caller.
* `Zombie`: as `ZombieNoticed`, over threads' states in place of lists.
* `SleepInv`, `NodeInv`, `IdleHome`, `WalkInv`: where sleepers are, what is left
  in a call's variables, that idle is alone in the root process, and what a walk of
  `task_vanish` has done.

Most actions leave the family alone.  They move one thread from one place of a call
to another, and `QuietStep` with its lemmas handles them together; fork's push and
undo, the detaching of a child, the adoption and the freeing have a chain of lemmas
each, one per part of the invariant.

### Mutex (`SpinMutexProofs`)

`WordOKAlways` (at most one thread owns the mutex, and the word says so),
`TidNamesOwnerAlways` (the unprotected tid is the owner's or -1) and
`MutexImplementsLock` (`Spec` implements `Lock`).  The inductive invariant is
`TypeOK`, `WordOK` and `TidNamesOwner` together (`MutexInvariance`): `TidNamesOwner`
needs that there is one owner, since a second one would store or clear the tid of
the first.  The refinement maps every step to one of `Lock` or to a stutter;
`WordOK` turns the test of the word into the abstract lock's `Free`.

### Readline (`ReadlineProofs`)

`OneReaderAlways`, `KeysReachReader` and `OneLineBuffered`: `[]OneReader`,
`[]NoLostKey`, `[]BufOneLine`.  The invariant is `RdInv` (`ReadlineInvariant`).  Two
things have to be added to the three properties.  `GrantInv`: a thread that was
told to go on by the last owner has the processor, and `input_lock` is still free
for it; that is why the ignored result of `mutex_try_lock` is harmless.  `WaitInv`:
in the READLINE list the owner of `input_lock`, and nobody else, is marked as the
first reader; so `handle_keyboard` resumes the owner and `Release` a waiter.  The
proof distinguishes the three ways in which the processor changes hands: a turn
(`TurnKeeps`), a waiter resumed (`ResumeSwitched`) and a thread that waits
(`WaitSwitched`).

### Virtual memory (`VirtualMemoryProofs`)

`FrameInOnePlace`, `NoFrameLost`, `DirectoriesPrivate`, `AllocationsBacked`: the
invariants `FrameOnce`, `NoLeak`, `DirsPrivate`, `AllocBacked`; and
`NewPagesAllOrNothing`: the action property `AllOrNothing`.  The invariant
`MemInv` (`MemoryInvariant`) says where every frame is (`FramesOK`), which
directory belongs to a process and which to the call it is in (`DirsOK`), that a
directory nobody uses maps nothing (`FreeBlank`), and for each call how far it has
come (`CallOK`): which pages `new_pages` has mapped and has to unmap again, what
`fork` has copied, what `exec` has built, what `destruct_page_dir` has released.
`NoLeak` needs `FreeBlank`: a directory that is given up must be empty by then, on
every failure path.  The pages of a process are in the directory `Home` names: its
own, or, while `fork` fills a frame, the one its call will return to.
`AllOrNothing` needs that no page of an allocation lies among those a failing
`new_pages` unmaps.

### User library (`UserLibProofs`)

| Theorem | Statement |
|---|---|
| `WaitersKept` | `[]NoLostWaiter` |
| `SemaphoreSafe` | `[]UnitsKept` |
| `WriterExcludes`, `RwLockGranted` | `WriterAlone`, `GrantedPrefix` always, in programs in which nobody downgrades or at most one thread writes (`Downgradable`) |
| `NewThreadFindsRecord`, `JoinersNotice`, `LastThreadEnds` | `[]WrapFinds`, `[]ExitNoticed`, `[]LastEnds` |

One invariant `UserInv` (`UserInvariant`) has a part for each module.  `CondInv`:
a thread in `cond_wait` is in the list of its condition variable, or some
signaller has taken it and has yet to wake it, and only one has.  `Guarded`: who
is inside a part of the library holds its mutex, through the calls of `cond_wait`
and `cond_signal` made there.  `SemInv`: the count, the threads that have a unit
and the queue add up.  `RwInv`: the records in `rw_list` are those of the threads
that have or want the lock, and the ones signalled, or about to be signalled by
the thread that unlocks or downgrades, are the ones that may have it; a writer
that downgrades counts as a reader from the call on.  `ThrInv`: which threads have
a record, have exited or are joined, that no two records are in one block, and
that the target of a joiner still has its record while nobody has `overtaken`
another.  `WrapFinds` and the first part of `LastEnds` except the processes in
which that happened, or a thread crashed: there they are false.  The hypothesis on downgrading is needed: with a second writer the property
is false (`rw_downgrade`).

### Guest and console (`GuestProofs`)

`CursorStaysOnScreen`, `LockOutlivesGuest`, `InterruptsDoNotNest`, `ReaderSeesKeys`:
the invariants `CursorOnScreen`, `LockSurvivesGuest`, `OneInterrupt`,
`ReaderNotMissed`; and `PrintAtLeavesNoTrace`: `PrintAtInvisible`.  The invariant
`GuestInv` (`GuestInvariant`) adds that the guest has `output_lock` only in a call
(`LockInCall`), that a buffer which passed `is_host_readable` does not fault, and
that interrupts are off from a timer or key frame on, and were at the faults above
it (`OffInHandler`): otherwise the `hv_iret` of a fault could turn them on inside the
handler.  The cursor rests on C's division and remainder of screen indices, which
are lemmas about `RowOf`, `ColOf` and `Forward`.

### Only model-checked

* The liveness properties `ReadyRuns`, `SomebodyEnters`, `SignalEnds`, `FaultSettles`
  and `ReadlineReturns`: fairness and `ENABLED` are beyond the prover.
Every other property of a passing run is a theorem.

## Not modelled, and the plan

Abstracted: contents of memory and registers, tids (a thread stands for its
tid), what is on the screen, logging, argument checks that only return -1, and
the programming of devices.

Left out: ELF parsing, argument passing and the loading of guests (`loader.c`),
guest memory and guest user mode, the destroy functions of the thread library and
its failing `malloc`, `panic`, descriptor tables (`segmentation.c`) and assembly
stubs.

Most of the repository is not this kernel: `410kern`, `410user`, `410guests`,
`guests/*` (eight copies of the course's user programs and libraries), `spec` and
`vq_challenge` are course material, test programs, boot code and libraries the
kernel links.  They have no state of this system and are outside the models.  Of
the code that was written here, the models stand for somewhat more than half the
lines of `kern/*.c`, `user/libthread` and `user/libautostack`; the rest is what the
paragraphs above name.

Next, in this order:

1. `Readline` with `task_vanish`, so that the locks a killed sibling leaves behind
   become part of a run.
2. The destroy functions of the thread library, whose contract is that nobody is in
   the object.
3. `DeadStaysDead` for `Lifecycle`, where `wait` makes the TCBs of the dead new again.
