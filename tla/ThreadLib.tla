------------------------------ MODULE ThreadLib ------------------------------
(***************************************************************************)
(* thr_init, thr_create, thr_join, thr_exit and the crash handler of the   *)
(* thread library (thread.c).  thread_info_chain holds a record per        *)
(* thread, under thread_info_chain_mutex; a record has a condition         *)
(* variable on which the joining thread waits, here the thread itself.     *)
(* The node of a record is a block of the heap: append_node may get one    *)
(* that remove_node has freed, and remove_node goes by its address.        *)
(***************************************************************************)
EXTENDS CondVar

CONSTANTS
  Root,          \* the thread that calls thr_init
  ChainLock,     \* thread_info_chain_mutex
  Joins          \* <<t, u>>: the program makes t join u

ASSUME ThreadLibAssumption ==
  /\ Root \in Threads /\ ChainLock \in Mutexes /\ Threads \subseteq Conds
  /\ Joins \subseteq Threads \X Threads

VARIABLES
  thread_info_chain,  \* the threads that have a record
  node,          \* node[t]: the block of the node of t's record
  tid_known,     \* the threads whose record has their tid
  is_joined_on,  \* the threads whose record says so
  has_exited,    \* the threads whose record says so
  target,        \* target[t]: the thread that t creates or joins
  overtaken,     \* a second thr_join cleaned up after a thread that
                 \* another one joins
  crashed,       \* a thread of the process called the crash handler
  ended          \* the process called task_vanish

tvars == <<thread_info_chain, node, tid_known, is_joined_on, has_exited, target,
           overtaken, crashed, ended>>

\* After thr_init.
TInit ==
  /\ thread_info_chain = {Root}
  /\ node = [t \in Threads |-> t]
  /\ tid_known = {Root}
  /\ is_joined_on = {}
  /\ has_exited = {}
  /\ target = [t \in Threads |-> NoThread]
  /\ overtaken = FALSE
  /\ crashed = FALSE
  /\ ended = FALSE

calls == <<waiting, asleep, frame, waking>>

-----------------------------------------------------------------------------
(***************************************************************************)
(* thr_create holds the chain's mutex until the tid that thread_fork       *)
(* returns is in the record; the new thread may run before that.           *)
(***************************************************************************)

\* malloc gives append_node any block that no record is in: a fresh one, for
\* which the thread's own name stands, or one that was freed.
FreeNodes(u) ==
  ({u} \cup {node[v] : v \in {w \in Threads : at[w] # "none"}})
    \ {node[v] : v \in thread_info_chain}
ThrCreate(t, u) ==
  /\ Here(t, "user") /\ at[u] = "none"
  /\ Take(t, ChainLock)
  /\ thread_info_chain' = thread_info_chain \cup {u}
  /\ \E b \in FreeNodes(u) : node' = [node EXCEPT ![u] = b]
  /\ target' = [target EXCEPT ![t] = u]
  /\ Goto(t, "tc_fork")
  /\ UNCHANGED <<calls, tid_known, is_joined_on, has_exited, overtaken, crashed,
                 ended>>

\* Mutant: the mutex is released before thread_fork is called.
ThreadForkUnlocked(t) ==
  /\ Here(t, "tc_fork")
  /\ Drop(ChainLock)
  /\ at' = [at EXCEPT ![t] = "tc_store", ![target[t]] = "wrap"]
  /\ UNCHANGED <<calls, tvars>>

\* thread_fork
ThreadFork(t) ==
  /\ Here(t, "tc_fork")
  /\ at' = [at EXCEPT ![t] = "tc_store", ![target[t]] = "wrap"]
  /\ UNCHANGED <<held, calls, tvars>>

\* thread_fork fails: the record stays in the chain, with a negative tid.
ThreadForkFails(t) ==
  /\ Here(t, "tc_fork")
  /\ at' = [at EXCEPT ![t] = "user", ![target[t]] = "failed"]
  /\ target' = [target EXCEPT ![t] = NoThread]
  /\ Drop(ChainLock)
  /\ UNCHANGED <<calls, thread_info_chain, node, tid_known, is_joined_on,
                 has_exited, overtaken, crashed, ended>>

ThrCreateDone(t) ==
  /\ Here(t, "tc_store")
  /\ tid_known' = tid_known \cup {target[t]}
  /\ target' = [target EXCEPT ![t] = NoThread]
  /\ Drop(ChainLock)
  /\ Goto(t, "user")
  /\ UNCHANGED <<calls, thread_info_chain, node, is_joined_on, has_exited,
                 overtaken, crashed, ended>>

\* wrap_func looks its record up under the mutex.  When it finds none it
\* registers no handler and calls a NULL function, and with no chain at all
\* it faults before: the kernel kills the thread.
WrapFunc(t) ==
  /\ Here(t, "wrap")
  /\ held[ChainLock] = NoThread
  /\ Goto(t, IF t \in thread_info_chain /\ t \in tid_known
             THEN "user" ELSE "lost")
  /\ UNCHANGED <<held, calls, tvars>>

-----------------------------------------------------------------------------
(***************************************************************************)
(* thr_join                                                                *)
(***************************************************************************)

\* The record of u is destructed: remove_node takes the record off the chain
\* whose node is at the address of u's node.  (free is called for the stack
\* of u as well; what a second free does to the heap is left out.)
Cleanup(u) ==
  thread_info_chain' = {v \in thread_info_chain : node[v] # node[u]}

\* u has exited: its record goes, even if another thread joins it and has not
\* come back from cond_wait.  Nobody joins on it: the caller waits.  (No such
\* thread, or one that runs and has a joiner: thr_join returns -1.)
ThrJoin(t, u) ==
  /\ Here(t, "user") /\ <<t, u>> \in Joins
  /\ u \in thread_info_chain /\ u \in tid_known
  /\ \/ /\ u \in has_exited
        /\ held[ChainLock] = NoThread
        /\ Cleanup(u)
        /\ overtaken' = (overtaken \/ u \in is_joined_on)
        /\ UNCHANGED <<held, calls, at, is_joined_on, target>>
     \/ /\ u \notin has_exited \cup is_joined_on
        /\ Take(t, ChainLock)
        /\ is_joined_on' = is_joined_on \cup {u}
        /\ target' = [target EXCEPT ![t] = u]
        /\ CallWait(t, u, ChainLock, "tj_check")
        /\ UNCHANGED <<waiting, asleep, waking, thread_info_chain, overtaken>>
  /\ UNCHANGED <<node, tid_known, has_exited, crashed, ended>>

\* Back from cond_wait, with the mutex: again, unless u has exited.
ThrJoinCheck(t) ==
  /\ Here(t, "tj_check")
  /\ \/ /\ target[t] \in has_exited
        /\ Cleanup(target[t])
        /\ target' = [target EXCEPT ![t] = NoThread]
        /\ Drop(ChainLock)
        /\ Goto(t, "user")
        /\ UNCHANGED calls
     \/ /\ target[t] \notin has_exited
        /\ CallWait(t, target[t], ChainLock, "tj_check")
        /\ UNCHANGED <<held, waiting, asleep, waking, thread_info_chain, target>>
  /\ UNCHANGED <<node, tid_known, is_joined_on, has_exited, overtaken, crashed,
                 ended>>

-----------------------------------------------------------------------------
(***************************************************************************)
(* thr_exit and the crash handler                                          *)
(***************************************************************************)

\* thread_alive_count
AliveCount == Cardinality(thread_info_chain \ has_exited)

\* The last one: every record is destructed, then task_vanish(status).  (Which
\* stacks destruct_each_thread frees on the way is left out: with more than
\* one record it frees the newest one's again and again.)
ThrExitLast(t) ==
  /\ Here(t, "user") /\ AliveCount <= 1
  /\ held[ChainLock] = NoThread
  /\ thread_info_chain' = {}
  /\ Goto(t, "te_task")
  /\ UNCHANGED <<held, calls, node, tid_known, is_joined_on, has_exited, target,
                 overtaken, crashed, ended>>

\* Mutant: the joining thread is not signalled.
ThrExitSilent(t) ==
  /\ Here(t, "user") /\ AliveCount > 1 /\ t \in thread_info_chain
  /\ Take(t, ChainLock)
  /\ has_exited' = has_exited \cup {t}
  /\ Goto(t, "te_unlock")
  /\ UNCHANGED <<calls, thread_info_chain, node, tid_known, is_joined_on, target,
                 overtaken, crashed, ended>>

\* Mutant: the count includes the caller.
ThrExitAlways(t) ==
  /\ Here(t, "user") /\ AliveCount > 0 /\ t \in thread_info_chain
  /\ Take(t, ChainLock)
  /\ has_exited' = has_exited \cup {t}
  /\ IF t \in is_joined_on
     THEN CallSignal(t, "cs_take", t, "te_unlock")
     ELSE Goto(t, "te_unlock") /\ UNCHANGED frame
  /\ UNCHANGED <<waiting, asleep, waking, thread_info_chain, node, tid_known,
                 is_joined_on, target, overtaken, crashed, ended>>

\* Others are left: the status is there, and the joining thread is signalled.
ThrExit(t) ==
  /\ Here(t, "user") /\ AliveCount > 1 /\ t \in thread_info_chain
  /\ Take(t, ChainLock)
  /\ has_exited' = has_exited \cup {t}
  /\ IF t \in is_joined_on
     THEN CallSignal(t, "cs_take", t, "te_unlock")
     ELSE Goto(t, "te_unlock") /\ UNCHANGED frame
  /\ UNCHANGED <<waiting, asleep, waking, thread_info_chain, node, tid_known,
                 is_joined_on, target, overtaken, crashed, ended>>

\* Others are left and the caller has no record: it reads through a NULL
\* pointer, and its crash handler spins for the mutex that it holds itself.
ThrExitUnknown(t) ==
  /\ Here(t, "user") /\ AliveCount > 1 /\ t \notin thread_info_chain
  /\ Take(t, ChainLock)
  /\ Goto(t, "te_spin")
  /\ UNCHANGED <<calls, tvars>>

Spin(t) ==
  /\ Here(t, "te_spin")
  /\ UNCHANGED <<cvars, tvars>>

ThrExitUnlock(t) ==
  /\ Here(t, "te_unlock")
  /\ Drop(ChainLock)
  /\ Goto(t, "te_vanish")
  /\ UNCHANGED <<calls, tvars>>

\* vanish
Vanish(t) ==
  /\ Here(t, "te_vanish")
  /\ Goto(t, "gone")
  /\ UNCHANGED <<held, calls, tvars>>

\* handle_thread_crash
Crash(t) ==
  /\ Here(t, "user")
  /\ held[ChainLock] = NoThread
  /\ thread_info_chain' = {}
  /\ crashed' = TRUE
  /\ Goto(t, "te_task")
  /\ UNCHANGED <<held, calls, node, tid_known, is_joined_on, has_exited, target,
                 overtaken, ended>>

\* task_vanish kills every thread of the process.
TaskVanish(t) ==
  /\ Here(t, "te_task")
  /\ at' = [u \in Threads |-> "gone"]
  /\ asleep' = {}
  /\ waking' = [u \in Threads |-> <<>>]
  /\ waiting' = [c \in Conds |-> <<>>]
  /\ frame' = [u \in Threads |-> NoFrame]
  /\ ended' = TRUE
  /\ UNCHANGED <<held, thread_info_chain, node, tid_known, is_joined_on,
                 has_exited, target, overtaken, crashed>>

ThrStep(t) ==
  \/ \E u \in Threads : ThrCreate(t, u) \/ ThrJoin(t, u)
  \/ ThreadFork(t) \/ ThreadForkFails(t) \/ ThrCreateDone(t) \/ WrapFunc(t)
  \/ ThrJoinCheck(t)
  \/ ThrExitLast(t) \/ ThrExit(t) \/ ThrExitUnknown(t) \/ Spin(t)
  \/ ThrExitUnlock(t) \/ Vanish(t)
  \/ Crash(t) \/ TaskVanish(t)

-----------------------------------------------------------------------------
\* A new thread finds its record, with its function in it, although it may
\* run before thr_create knows its tid, and although other threads join and
\* exit meanwhile and their nodes are used again.  (Two exceptions: a thread
\* crashed, and the chain is gone; or a second thr_join overtook the first,
\* which then frees a node that is no longer its own.)
WrapFinds == ~crashed /\ ~overtaken => \A t \in Threads : at[t] # "lost"

\* No exit is missed: with the chain unlocked nobody waits for a thread that
\* has exited, however thr_join and thr_exit were interleaved.
ExitNoticed ==
  held[ChainLock] = NoThread =>
    \A u \in has_exited : waiting[u] = <<>>

\* The last thread to call thr_exit ends the process, with its status: not
\* before every other thread is on its way out (unless a thread crashed and
\* destructed the chain, or a second thr_join overtook the first, so that the
\* record of a running thread may be gone); and when no thread is left, one
\* of them called task_vanish, so the exit status was set.  (After a
\* thread_fork that failed its record counts as a thread that is alive for
\* ever, and the second part is not so; nor is it when a thread was killed
\* that did not find its record.)
LastEnds ==
  /\ ~crashed /\ ~overtaken =>
       \A t \in Threads : at[t] = "te_task" =>
         \A u \in Threads \ {t} :
           u \in has_exited \/ at[u] \in {"none", "failed", "gone"}
  /\ (\A t \in Threads : at[t] \in {"none", "gone"})
       /\ (\E t \in Threads : at[t] = "gone") => ended
=============================================================================
