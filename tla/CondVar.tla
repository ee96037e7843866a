------------------------------- MODULE CondVar -------------------------------
(***************************************************************************)
(* The condition variables of the thread library (cond.c), on top of its   *)
(* mutexes and the kernel's deschedule and make_runnable.                  *)
(*                                                                         *)
(* A mutex is a lock that one thread holds (SpinMutex shows that it is     *)
(* one).  What cond.c does under cv->lock is one step: every such stretch  *)
(* only touches the list of that condition variable.  Between the other    *)
(* steps any thread may run.                                               *)
(***************************************************************************)
EXTENDS Integers, Sequences, FiniteSets, SequencesExt

CONSTANTS
  Threads,
  NoThread,
  Mutexes,     \* the mutexes that are passed to cond_wait
  Conds        \* the condition variables

ASSUME CondAssumption == NoThread \notin Threads /\ IsFiniteSet(Threads)

VARIABLES
  held,        \* held[m]: the thread that holds mutex m
  waiting,     \* waiting[c]: the tids in the list of c, cv->tid_head first
  asleep,      \* the threads in the kernel's DESCHEDULE list
  at,          \* at[t]: where t is
  frame,       \* frame[t]: the call of cond_wait, cond_signal or
               \* cond_broadcast that t is in: its cv and mp, and where t
               \* goes on afterwards
  waking       \* waking[t]: the tids that cond_signal or cond_broadcast
               \* of t took off the list and has not made runnable yet

cvars == <<held, waiting, asleep, at, frame, waking>>

\* t is in no such call.
NoFrame == [cv |-> NoThread, mp |-> NoThread, back |-> ""]

\* Thread t is at place[t], in no call of this module.
CInit(place) ==
  /\ held = [m \in Mutexes |-> NoThread]
  /\ waiting = [c \in Conds |-> <<>>]
  /\ asleep = {}
  /\ at = place
  /\ frame = [t \in Threads |-> NoFrame]
  /\ waking = [t \in Threads |-> <<>>]

\* t may take a step: it is at place p and not descheduled.
Here(t, p) == at[t] = p /\ t \notin asleep

Goto(t, p) == at' = [at EXCEPT ![t] = p]

\* mutex_lock and mutex_unlock
Take(t, m) == held[m] = NoThread /\ held' = [held EXCEPT ![m] = t]
Drop(m)    == held' = [held EXCEPT ![m] = NoThread]

\* t calls cond_wait, cond_signal or cond_broadcast on c, then goes on at p.
CallWait(t, c, m, p) ==
  /\ Goto(t, "cw_enqueue")
  /\ frame' = [frame EXCEPT ![t] = [cv |-> c, mp |-> m, back |-> p]]

CallSignal(t, call, c, p) ==
  /\ Goto(t, call)
  /\ frame' = [frame EXCEPT ![t] = [cv |-> c, mp |-> NoThread, back |-> p]]

Return(t) ==
  /\ Goto(t, frame[t].back)
  /\ frame' = [frame EXCEPT ![t] = NoFrame]

-----------------------------------------------------------------------------
(***************************************************************************)
(* cond_wait                                                               *)
(***************************************************************************)

\* The thread puts itself at the end of the list, ...
CwEnqueue(t) ==
  /\ Here(t, "cw_enqueue")
  /\ waiting' = [waiting EXCEPT ![frame[t].cv] = Append(@, t)]
  /\ Goto(t, "cw_unlock")
  /\ UNCHANGED <<held, asleep, frame, waking>>

\* ... releases mp, ...
CwUnlock(t) ==
  /\ Here(t, "cw_unlock")
  /\ Drop(frame[t].mp)
  /\ Goto(t, "cw_sleep")
  /\ UNCHANGED <<waiting, asleep, frame, waking>>

\* ... deschedules itself (reject is 0 and nobody else has its address), ...
CwSleep(t) ==
  /\ Here(t, "cw_sleep")
  /\ asleep' = asleep \cup {t}
  /\ Goto(t, "cw_lock")
  /\ UNCHANGED <<held, waiting, frame, waking>>

\* ... and takes mp again once it has been made runnable.
CwLock(t) ==
  /\ Here(t, "cw_lock")
  /\ Take(t, frame[t].mp)
  /\ Return(t)
  /\ UNCHANGED <<waiting, asleep, waking>>

-----------------------------------------------------------------------------
(***************************************************************************)
(* cond_signal and cond_broadcast                                          *)
(***************************************************************************)

\* The first waiter, or all of them, are taken off the list.
CsTake(t) ==
  /\ Here(t, "cs_take")
  /\ LET q == waiting[frame[t].cv]
     IN  IF q = <<>>
         THEN /\ Return(t)
              /\ UNCHANGED <<waiting, waking>>
         ELSE /\ waiting' = [waiting EXCEPT ![frame[t].cv] = Tail(q)]
              /\ waking' = [waking EXCEPT ![t] = <<Head(q)>>]
              /\ Goto(t, "cs_wake")
              /\ UNCHANGED frame
  /\ UNCHANGED <<held, asleep>>

CbTake(t) ==
  /\ Here(t, "cb_take")
  /\ waking' = [waking EXCEPT ![t] = waiting[frame[t].cv]]
  /\ waiting' = [waiting EXCEPT ![frame[t].cv] = <<>>]
  /\ Goto(t, "cs_wake")
  /\ UNCHANGED <<held, asleep, frame>>

\* Mutant: make_runnable is called once, whatever it returns.
CsWakeOnce(t) ==
  /\ Here(t, "cs_wake") /\ waking[t] # <<>>
  /\ asleep' = asleep \ {Head(waking[t])}
  /\ waking' = [waking EXCEPT ![t] = Tail(@)]
  /\ UNCHANGED <<held, waiting, at, frame>>

\* Mutant: a thread that is not descheduled yet is given up by going back
\* to the end of the list.
CsWakeBack(t) ==
  /\ Here(t, "cs_wake") /\ waking[t] # <<>>
  /\ asleep' = asleep \ {Head(waking[t])}
  /\ waking' = [waking EXCEPT ![t] = Append(Tail(@), Head(@))]
  /\ UNCHANGED <<held, waiting, at, frame>>

\* make_runnable succeeds once the waiter is descheduled; until then the
\* caller yields to it and tries again.
CsWake(t) ==
  /\ Here(t, "cs_wake") /\ waking[t] # <<>>
  /\ Head(waking[t]) \in asleep
  /\ asleep' = asleep \ {Head(waking[t])}
  /\ waking' = [waking EXCEPT ![t] = Tail(@)]
  /\ UNCHANGED <<held, waiting, at, frame>>

CsDone(t) ==
  /\ Here(t, "cs_wake") /\ waking[t] = <<>>
  /\ Return(t)
  /\ UNCHANGED <<held, waiting, asleep, waking>>

CondStep(t) ==
  \/ CwEnqueue(t) \/ CwUnlock(t) \/ CwSleep(t) \/ CwLock(t)
  \/ CsTake(t) \/ CbTake(t) \/ CsWake(t) \/ CsDone(t)

-----------------------------------------------------------------------------
(***************************************************************************)
(* Properties.                                                             *)
(***************************************************************************)

\* How many lists t is in, and how many threads are about to wake it.
Claims(t) ==
  Cardinality({c \in Conds : t \in Range(waiting[c])})
    + Cardinality({u \in Threads : t \in Range(waking[u])})

\* No waiter is forgotten, and no signaller waits for ever: a thread that is
\* descheduled, or about to be, is once in the list of its condition variable
\* or once with the thread that is going to make it runnable; any other
\* thread is with neither.  make_runnable fails for a thread that is not
\* descheduled yet, so a waiter that is caught between mutex_unlock and
\* deschedule must not be given up.  (cond_destroy, which empties the list, is
\* left out: the library calls it for a thread that has exited, and when the
\* process is about to end or has crashed.)
NoLostWaiter ==
  \A t \in Threads :
    Claims(t) = IF t \in asleep \/ at[t] \in {"cw_unlock", "cw_sleep"}
                THEN 1 ELSE 0
=============================================================================
