------------------------------ MODULE SpinMutex ------------------------------
(***************************************************************************)
(* The mutex of the kernel (src/kern/mutex.c) and of the thread library    *)
(* (src/user/libthread/mutex.c): a word that is exchanged atomically, and  *)
(* the tid of the holder, kept beside it without any protection so that a  *)
(* thread that spins can yield to the holder.  One step is one access to   *)
(* shared memory or one system call, so the scheduler may take the         *)
(* processor away between any two of them.                                 *)
(*                                                                         *)
(* The threads use the mutex the way malloc_wrappers.c does: lock, work in *)
(* the allocator, unlock; or they try it once, as handle_readline does.    *)
(***************************************************************************)
EXTENDS Integers

CONSTANTS
  Threads,
  NoTid        \* the tid -1

ASSUME TidAssumption == NoTid \notin Threads

VARIABLES
  lock_state,  \* mp->lock_state
  tid,         \* mp->tid
  pc,          \* pc[t]: where t is
  esi,         \* esi[t]: the tid t read and is about to yield to
  running      \* the thread that holds the processor

vars == <<lock_state, tid, pc, esi, running>>

Places == {"out", "lock", "read", "yield", "try", "store", "in", "clear",
           "release"}

Init ==
  /\ lock_state = "UNLOCKED"
  /\ tid = NoTid
  /\ pc = [t \in Threads |-> "out"]
  /\ esi = [t \in Threads |-> NoTid]
  /\ running \in Threads

\* t runs the step at place from and goes on to place to.
At(t, from)       == running = t /\ pc[t] = from
Goto(t, to)       == pc' = [pc EXCEPT ![t] = to]

\* A thread calls mutex_lock or mutex_try_lock.
Call(t, entry) ==
  /\ At(t, "out")
  /\ Goto(t, entry)
  /\ UNCHANGED <<lock_state, tid, esi, running>>

\* xchange(&(mp->lock_state), LOCKED) of mutex_lock
ExchangeLock(t) ==
  /\ At(t, "lock")
  /\ lock_state' = "LOCKED"
  /\ Goto(t, IF lock_state = "UNLOCKED" THEN "store" ELSE "read")
  /\ UNCHANGED <<tid, esi, running>>

\* mp->tid is read for the yield ...
ReadTid(t) ==
  /\ At(t, "read")
  /\ esi' = [esi EXCEPT ![t] = tid]
  /\ Goto(t, "yield")
  /\ UNCHANGED <<lock_state, tid, running>>

\* ... and may be stale when the thread yields: that thread runs, if it is
\* still runnable, or any other one for -1; then the loop is tried again.
Yield(t) ==
  /\ At(t, "yield")
  /\ running' \in IF esi[t] # NoTid THEN {esi[t], t} ELSE Threads
  /\ Goto(t, "lock")
  /\ UNCHANGED <<lock_state, tid, esi>>

\* Mutant: the attempt trusts the tid instead of the word.
ExchangeTryTid(t) ==
  /\ At(t, "try")
  /\ lock_state' = "LOCKED"
  /\ Goto(t, IF tid = NoTid THEN "store" ELSE "out")
  /\ UNCHANGED <<tid, esi, running>>

\* xchange of mutex_try_lock: one attempt
ExchangeTry(t) ==
  /\ At(t, "try")
  /\ lock_state' = "LOCKED"
  /\ Goto(t, IF lock_state = "UNLOCKED" THEN "store" ELSE "out")
  /\ UNCHANGED <<tid, esi, running>>

\* mp->tid = the caller's tid
StoreTid(t) ==
  /\ At(t, "store")
  /\ tid' = t
  /\ Goto(t, "in")
  /\ UNCHANGED <<lock_state, esi, running>>

\* Mutant: mutex_unlock does not clear the tid.
LeaveNoClear(t) ==
  /\ At(t, "in")
  /\ Goto(t, "release")
  /\ UNCHANGED <<lock_state, tid, esi, running>>

\* The work under the lock ends: mutex_unlock is called.
Leave(t) ==
  /\ At(t, "in")
  /\ Goto(t, "clear")
  /\ UNCHANGED <<lock_state, tid, esi, running>>

\* mp->tid = -1, ...
ClearTid(t) ==
  /\ At(t, "clear")
  /\ tid' = NoTid
  /\ Goto(t, "release")
  /\ UNCHANGED <<lock_state, esi, running>>

\* Mutant: the word stays locked.
ReleaseWordNot(t) ==
  /\ At(t, "release")
  /\ Goto(t, "out")
  /\ UNCHANGED <<lock_state, tid, esi, running>>

\* ... then mp->lock_state = UNLOCKED (an xchange in the thread library).
ReleaseWord(t) ==
  /\ At(t, "release")
  /\ lock_state' = "UNLOCKED"
  /\ Goto(t, "out")
  /\ UNCHANGED <<tid, esi, running>>

\* The timer takes the processor away and gives it to another thread.
Preempt(t) ==
  /\ running # t
  /\ running' = t
  /\ UNCHANGED <<lock_state, tid, pc, esi>>

Step(t) ==
  \/ ExchangeLock(t) \/ ReadTid(t) \/ Yield(t) \/ ExchangeTry(t)
  \/ StoreTid(t) \/ Leave(t) \/ ClearTid(t) \/ ReleaseWord(t)

Next == \E t \in Threads :
          Call(t, "lock") \/ Call(t, "try") \/ Step(t) \/ Preempt(t)

Spec == Init /\ [][Next]_vars

\* The scheduler comes round to every thread (ReadyRuns of Scheduler), and a
\* thread that gets the processor again and again gets on with its call.
FairSpec ==
  /\ Spec
  /\ \A t \in Threads : SF_vars(Step(t)) /\ []<>(running = t)
-----------------------------------------------------------------------------
(***************************************************************************)
(* Properties.                                                             *)
(***************************************************************************)

\* Every variable keeps its type.
TypeOK ==
  /\ lock_state \in {"UNLOCKED", "LOCKED"}
  /\ tid \in Threads \cup {NoTid}
  /\ pc \in [Threads -> Places]
  /\ esi \in [Threads -> Threads \cup {NoTid}]
  /\ running \in Threads

\* The threads between the successful exchange and the release of the word.
Owners == {t \in Threads : pc[t] \in {"store", "in", "clear", "release"}}

\* The word says whether somebody owns the mutex.
WordOK ==
  /\ \A t, u \in Owners : t = u
  /\ lock_state = "LOCKED" <=> Owners # {}

\* The tid beside the word is the owner's from the moment it stored it until
\* it clears it, and -1 at any other time: it is never that of a thread that
\* has gone, although it is written with no protection but the word itself.
\* A spinning thread that yields to it yields to the thread it waits for.
TidNamesOwner ==
  \A t \in Threads :
    tid = t <=> pc[t] \in {"in", "clear"}

\* Mutual exclusion as an abstract lock: a thread is inside from its
\* successful exchange until the word is released.
PhaseAt(place) ==
  CASE place \in {"store", "in", "clear", "release"} -> "in"
    [] place \in {"lock", "read", "yield"} -> "lock"
    [] OTHER -> place

Phase == [t \in Threads |-> PhaseAt(pc[t])]

Abstract == INSTANCE Lock WITH phase <- Phase

\* mutex_lock, mutex_try_lock and mutex_unlock implement that lock: also the
\* try that fails fails only while another thread is inside.
ImplementsLock == Abstract!Spec

\* As long as somebody wants the mutex, somebody gets it again and again:
\* spinning and yielding never blocks all of them.
SomebodyEnters ==
  (\E t \in Threads : pc[t] = "lock") ~> (\E t \in Threads : pc[t] = "in")
=============================================================================
