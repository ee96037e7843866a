------------------------------- MODULE UserLib -------------------------------
(***************************************************************************)
(* The thread library as programs use it: a process whose threads share a  *)
(* condition variable, a semaphore, a reader/writer lock, or create and    *)
(* join one another; or a process with one thread, whose stack grows.      *)
(***************************************************************************)
EXTENDS Semaphore, RWLock, ThreadLib, Autostack

CONSTANTS
  MonLock,       \* a mutex and a condition variable of the program
  MonCond,
  Uses           \* what the process may use, of AllUses

AllUses == {"cond", "sem", "rw", "thr", "stack"}

ASSUME UseAssumption ==
  /\ Uses \subseteq AllUses /\ MonLock \in Mutexes /\ MonCond \in Conds
  /\ SemCond \notin Threads \cup {MonCond}   \* they are different variables

VARIABLE use       \* what the process uses

lvars == <<svars, rvars, tvars>>
uvars == <<cvars, lvars, avars, use>>

UInit ==
  /\ use \in Uses
  /\ CInit([t \in Threads |->
              CASE use = "cond" -> "cond_out"
                [] use = "sem"  -> "sem_out"
                [] use = "rw"   -> "rw_out"
                [] use = "thr"  -> IF t = Root THEN "user" ELSE "none"
                [] use = "stack" -> "none"])
  /\ SInit /\ RInit /\ TInit /\ AInit
  \* what is not used is not varied
  /\ use # "sem" => units = CHOOSE n \in Units : TRUE
  /\ use # "rw" => role = CHOOSE r \in Roles : TRUE
  /\ use # "stack" => page = CHOOSE p \in Images : TRUE

\* A program of condition variables: every thread but the root waits, any
\* thread signals or broadcasts, with the mutex or without.
MonitorWait(t) ==
  /\ Here(t, "cond_out") /\ t # Root
  /\ Take(t, MonLock)
  /\ CallWait(t, MonCond, MonLock, "cond_back")
  /\ UNCHANGED <<waiting, asleep, waking>>

MonitorBack(t) ==
  /\ Here(t, "cond_back")
  /\ Drop(MonLock)
  /\ Goto(t, "cond_out")
  /\ UNCHANGED <<waiting, asleep, frame, waking>>

MonitorSignal(t, call) ==
  /\ Here(t, "cond_out")
  /\ \/ CallSignal(t, call, MonCond, "cond_out") /\ UNCHANGED held
     \/ CallSignal(t, call, MonCond, "cond_back") /\ Take(t, MonLock)
  /\ UNCHANGED <<waiting, asleep, waking>>

MonitorStep(t) ==
  \/ MonitorWait(t) \/ MonitorBack(t)
  \/ MonitorSignal(t, "cs_take") \/ MonitorSignal(t, "cb_take")

\* A process without threads does nothing, nor does one whose threads wait
\* for a thread that was killed because it had lost its record.
Finished ==
  /\ \A t \in Threads :
       \/ at[t] \in {"none", "failed", "gone", "lost"}
       \/ overtaken /\ t \in asleep
  /\ use = "stack" => sat \in {"dead", "wild"}
  /\ UNCHANGED uvars

UNext ==
  \/ \E t \in Threads :
       \/ CondStep(t) /\ UNCHANGED <<lvars, avars, use>>
       \/ MonitorStep(t) /\ UNCHANGED <<lvars, avars, use>>
       \/ SemStep(t) /\ UNCHANGED <<rvars, tvars, avars, use>>
       \/ RwStep(t) /\ UNCHANGED <<svars, tvars, avars, use>>
       \/ ThrStep(t) /\ UNCHANGED <<svars, rvars, avars, use>>
  \/ use = "stack" /\ AutostackStep /\ UNCHANGED <<cvars, lvars, use>>
  \/ Finished

USpec == UInit /\ [][UNext]_uvars

\* A thread that is not descheduled gets on with cond_wait and cond_signal,
\* and with an instruction that it tries: the kernel runs every runnable
\* thread (ReadyRuns of Scheduler).
UFairSpec ==
  /\ USpec
  /\ \A t \in Threads :
       WF_uvars(CondStep(t) /\ UNCHANGED <<lvars, avars, use>>)
  /\ WF_uvars(FaultStep /\ UNCHANGED <<cvars, lvars, use>>)

-----------------------------------------------------------------------------
\* The loop around make_runnable ends: the waiter it is for reaches
\* deschedule, whatever locks the signalling thread keeps meanwhile.
SignalEnds ==
  \A t \in Threads : at[t] = "cs_wake" ~> at[t] # "cs_wake"
=============================================================================
