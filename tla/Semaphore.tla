------------------------------ MODULE Semaphore ------------------------------
(***************************************************************************)
(* The semaphores of the thread library (sem.c), used by threads that wait *)
(* for a unit, keep it for a while and signal it back.                     *)
(***************************************************************************)
EXTENDS CondVar

CONSTANTS
  SemLock,     \* sem->lock
  SemCond,     \* sem->cond
  Units        \* the arguments of sem_init that are tried

ASSUME SemAssumption ==
  SemLock \in Mutexes /\ SemCond \in Conds /\ Units \subseteq Nat

VARIABLES
  count,       \* sem->count
  units        \* the count it was initialized with

svars == <<count, units>>

SInit == units \in Units /\ count = units

\* Mutant: the count is tested before it goes down.
SemWaitBefore(t) ==
  /\ Here(t, "sem_out")
  /\ Take(t, SemLock)
  /\ count' = count - 1
  /\ IF count < 0
     THEN CallWait(t, SemCond, SemLock, "sw_done")
     ELSE Goto(t, "sw_done") /\ UNCHANGED frame
  /\ UNCHANGED <<waiting, asleep, waking, units>>

\* sem_wait: the count goes down first; below zero the thread waits, once.
SemWait(t) ==
  /\ Here(t, "sem_out")
  /\ Take(t, SemLock)
  /\ count' = count - 1
  /\ IF count' < 0
     THEN CallWait(t, SemCond, SemLock, "sw_done")
     ELSE Goto(t, "sw_done") /\ UNCHANGED frame
  /\ UNCHANGED <<waiting, asleep, waking, units>>

SwDone(t) ==
  /\ Here(t, "sw_done")
  /\ Drop(SemLock)
  /\ Goto(t, "sem_in")
  /\ UNCHANGED <<waiting, asleep, frame, waking, svars>>

\* sem_signal: a waiter is signalled, under the lock, if the count says that
\* there is one, ...
SemSignal(t) ==
  /\ Here(t, "sem_in")
  /\ Take(t, SemLock)
  /\ IF count < 0
     THEN CallSignal(t, "cs_take", SemCond, "ss_count")
     ELSE Goto(t, "ss_count") /\ UNCHANGED frame
  /\ UNCHANGED <<waiting, asleep, waking, svars>>

\* ... and the count goes up afterwards.
SsCount(t) ==
  /\ Here(t, "ss_count")
  /\ count' = count + 1
  /\ Drop(SemLock)
  /\ Goto(t, "sem_out")
  /\ UNCHANGED <<waiting, asleep, frame, waking, units>>

SemStep(t) == SemWait(t) \/ SwDone(t) \/ SemSignal(t) \/ SsCount(t)

-----------------------------------------------------------------------------
\* No more threads have a unit than there are units: a thread that was
\* signalled and has not run yet keeps its claim against one that calls
\* sem_wait in the meantime, although sem_wait does not test the count again
\* after cond_wait.  And with the lock free, the count below zero is the
\* number of threads that wait, so every sem_signal that must find a waiter
\* finds one.
UnitsKept ==
  /\ Cardinality({t \in Threads : at[t] \in {"sem_in", "sw_done"}}) <= units
  /\ held[SemLock] = NoThread =>
       Len(waiting[SemCond]) = IF count < 0 THEN -count ELSE 0
=============================================================================
