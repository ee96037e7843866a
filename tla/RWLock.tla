-------------------------------- MODULE RWLock --------------------------------
(***************************************************************************)
(* The reader/writer locks of the thread library (rwlock.c).  rw_list      *)
(* holds a record per thread that has or wants the lock; each record has a *)
(* condition variable of its own, here the thread itself.                  *)
(***************************************************************************)
EXTENDS CondVar

CONSTANTS
  RwLock,        \* rwlock->rw_list_manipulation
  Roles          \* the programs: who asks for RWLOCK_WRITE, and which of
                 \* these threads call rwlock_downgrade

ASSUME RwAssumption ==
  /\ RwLock \in Mutexes /\ Threads \subseteq Conds
  /\ Roles \subseteq [writers : SUBSET Threads, downgraders : SUBSET Threads]

VARIABLES
  rw_list,       \* rwlock->rw_list, head first
  rw_lock_type,  \* rw_lock_type[t]: the type in t's record
  granting,      \* granting[t]: the records t has yet to signal
  role           \* the program that runs

rvars == <<rw_list, rw_lock_type, granting, role>>

RInit ==
  /\ role \in Roles
  /\ rw_list = <<>>
  /\ rw_lock_type = [t \in Threads |-> "READ"]
  /\ granting = [t \in Threads |-> <<>>]

\* find_by_rw_lock_type: its place in the list, 0 when there is none.
FindByType(s, type) == SelectInSeq(s, LAMBDA t : rw_lock_type[t] = type)

\* A new reader goes to the end, and waits if there is any writer.
LockRead(t) ==
  /\ rw_list' = Append(rw_list, t)
  /\ IF FindByType(rw_list, "WRITE") = 0
     THEN Goto(t, "rl_done") /\ UNCHANGED frame
     ELSE CallWait(t, t, RwLock, "rl_done")

\* Mutant: a new writer goes before the first reader.
WriterSlotFirst(s) ==
  LET r == FindByType(s, "READ") IN IF r = 0 THEN Len(s) + 1 ELSE r

\* Where a new writer goes: before the first reader, if there is a writer and
\* the reader is not the head (append_node before the head appends), else to
\* the end.
WriterSlot(s) ==
  LET r == FindByType(s, "READ")
  IN  IF FindByType(s, "WRITE") = 0 \/ r <= 1 THEN Len(s) + 1 ELSE r

\* A new writer waits unless the list is empty.
LockWrite(t) ==
  /\ rw_list' = InsertAt(rw_list, WriterSlot(rw_list), t)
  /\ IF rw_list = <<>>
     THEN Goto(t, "rl_done") /\ UNCHANGED frame
     ELSE CallWait(t, t, RwLock, "rl_done")

\* rwlock_lock
RwLockCall(t, type) ==
  /\ Here(t, "rw_out")
  /\ type = "WRITE" => t \in role.writers
  /\ Take(t, RwLock)
  /\ rw_lock_type' = [rw_lock_type EXCEPT ![t] = type]
  /\ IF type = "READ" THEN LockRead(t) ELSE LockWrite(t)
  /\ UNCHANGED <<waiting, asleep, waking, granting, role>>

RwLockDone(t) ==
  /\ Here(t, "rl_done")
  /\ Drop(RwLock)
  /\ Goto(t, "rw_in")
  /\ UNCHANGED <<waiting, asleep, frame, waking, rvars>>

-----------------------------------------------------------------------------
(***************************************************************************)
(* rwlock_unlock                                                           *)
(***************************************************************************)

\* The records before the first writer.
Readers(s) ==
  LET w == FindByType(s, "WRITE") IN IF w = 0 THEN s ELSE SubSeq(s, 1, w - 1)

\* Mutant: a reader that leaves lets the first writer in, whoever else reads.
ToGrantWriter(s, type) ==
  LET w == FindByType(s, "WRITE")
  IN  IF type = "READ" /\ w # 0 THEN <<s[w]>> ELSE Readers(s)

\* Whom the caller, whose record is gone from s, signals: the writer at the
\* head, or the readers up to the first writer.  The case of a reader falls
\* through to that of a writer, so it signals a writer twice.
ToGrant(s, type) ==
  IF s = <<>> THEN <<>>
  ELSE IF rw_lock_type[Head(s)] = "READ" THEN Readers(s)
  ELSE IF type = "READ" THEN <<Head(s), Head(s)>>
  ELSE <<Head(s)>>

RwUnlock(t) ==
  LET rest == RemoveFirst(rw_list, t)
  IN  /\ Here(t, "rw_in")
      /\ Take(t, RwLock)
      /\ rw_list' = rest
      /\ granting' = [granting EXCEPT ![t] = ToGrant(rest, rw_lock_type[t])]
      /\ Goto(t, "ru_signal")
      /\ UNCHANGED <<waiting, asleep, frame, waking, rw_lock_type, role>>

\* The next record is signalled, under the lock.
RwGrant(t) ==
  /\ at[t] \in {"ru_signal", "rd_signal"} /\ granting[t] # <<>>
  /\ CallSignal(t, "cs_take", Head(granting[t]), at[t])
  /\ granting' = [granting EXCEPT ![t] = Tail(@)]
  /\ UNCHANGED <<held, waiting, asleep, waking, rw_list, rw_lock_type, role>>

RwUnlockDone(t) ==
  /\ Here(t, "ru_signal") /\ granting[t] = <<>>
  /\ Drop(RwLock)
  /\ Goto(t, "rw_out")
  /\ UNCHANGED <<waiting, asleep, frame, waking, rvars>>

-----------------------------------------------------------------------------
(***************************************************************************)
(* rwlock_downgrade                                                        *)
(***************************************************************************)

\* The caller has the writer lock; every record from the first reader to the
\* end of the list is signalled, writers among them.
RwDowngrade(t) ==
  LET r == FindByType(rw_list, "READ")
  IN  /\ t \in role.downgraders
      /\ Here(t, "rw_in")
      /\ Head(rw_list) = t /\ rw_lock_type[t] = "WRITE"    \* else it returns
      /\ Take(t, RwLock)
      /\ granting' = [granting EXCEPT ![t] =
                         IF r = 0 THEN <<>>
                         ELSE SubSeq(rw_list, r, Len(rw_list))]
      /\ Goto(t, "rd_signal")
      /\ UNCHANGED <<waiting, asleep, frame, waking, rw_list,
                     rw_lock_type, role>>

\* The writers behind the head move to the end, if there is a reader.  The
\* loop keeps looking at the node it has freed; append_node gets that block
\* again, now the record's new node, so with a writer there it never ends.
RwDowngradeDone(t) ==
  /\ Here(t, "rd_signal") /\ granting[t] = <<>>
  /\ IF FindByType(rw_list, "READ") > 2
     THEN /\ Goto(t, "rd_stuck")
          /\ UNCHANGED <<held, rw_lock_type>>
     ELSE /\ rw_lock_type' = [rw_lock_type EXCEPT ![t] = "READ"]
          /\ Drop(RwLock)
          /\ Goto(t, "rw_in")
  /\ UNCHANGED <<waiting, asleep, frame, waking, rw_list, granting, role>>

RwStep(t) ==
  \/ \E type \in {"READ", "WRITE"} : RwLockCall(t, type)
  \/ RwLockDone(t)
  \/ RwUnlock(t) \/ RwGrant(t) \/ RwUnlockDone(t)
  \/ RwDowngrade(t) \/ RwDowngradeDone(t)

-----------------------------------------------------------------------------
\* A thread that has returned from rwlock_lock with the writer lock is alone:
\* no other thread is inside, reader or writer, until it unlocks or
\* downgrades.
WriterAlone ==
  \A t, u \in Threads :
    at[t] = "rw_in" /\ rw_lock_type[t] = "WRITE" /\ at[u] = "rw_in" => t = u

\* With the list unlocked, exactly the records that may have the lock have
\* been signalled: the writer at the head, or the readers before the first
\* writer.  Nobody waits for a lock that is free, and a reader that comes
\* after a waiting writer waits.
GrantedPrefix ==
  held[RwLock] = NoThread =>
    \A i \in DOMAIN rw_list :
      waiting[rw_list[i]] = <<>> <=>
        IF rw_lock_type[Head(rw_list)] = "WRITE" THEN i = 1
        ELSE i <= Len(Readers(rw_list))
===============================================================================
