----------------------------- MODULE ThreadLists -----------------------------
(***************************************************************************)
(* The kernel's thread lists and the operations on them:                   *)
(* alter_state (ctrl_blk.c), round_robin and find_next_thread              *)
(* (scheduler.c), switch_context (context_switcher.c) and                  *)
(* find_tcb_in_list (ctrl_blk.c).  Every one of them is called with        *)
(* interrupts disabled on a uniprocessor, so each is a function from one   *)
(* value of the bookkeeping to the next.                                   *)
(*                                                                         *)
(* A value T of the bookkeeping is a record:                               *)
(*   T.list[l]    thread_lists[l], front of the circular list first        *)
(*   T.state[t]   the index of the list t belongs to: tcb->state, or       *)
(*                blocking_detail.reason when tcb->state = WAITING_STATE;  *)
(*                "NEW" when there is no TCB                               *)
(*   T.detail[t]  tcb->blocking_detail without the reason, NoDetail while  *)
(*                t does not wait (what is left in the TCB is not read)    *)
(*   T.pcb[t]     tcb->pcb_ptr                                             *)
(***************************************************************************)
EXTENDS Integers, Sequences, SequencesExt

CONSTANT NoThread          \* the NULL tcb_t *

\* Blocking reasons: the lists that stand for WAITING_STATE.
Reasons == {"SLEEP", "READLINE", "DESCHEDULE", "VANISH_WAIT"}

\* The indices of thread_lists that are used (NEW and WAITING are not).
ListIdx == {"READY", "RUNNING", "TERMINATED"} \cup Reasons

\* blocking_detail_t with nothing but a reason in it.
NoDetail == [wakeup_time |-> 0, first_reader |-> FALSE]

-----------------------------------------------------------------------------
(***************************************************************************)
(* alter_state: where the node goes in the target list.                    *)
(***************************************************************************)

\* Mutant: sleepers in the order in which they went to sleep.
SleepSlotAtEnd(T, w) == Len(T.list["SLEEP"]) + 1

\* SLEEP is sorted by wake-up time: before the first thread that wakes no
\* earlier, at the end when there is none.
SleepSlot(T, w) ==
  LET s == T.list["SLEEP"]
      i == SelectInSeq(s, LAMBDA u : T.detail[u].wakeup_time >= w)
  IN  IF i = 0 THEN Len(s) + 1 ELSE i

\* Mutant: a runnable thread always goes to the end.
ReadySlotAtEnd(T, p) == Len(T.list["READY"]) + 1

\* READY keeps the threads of a process together: after the last one of the
\* same process, at the end when there is none.
ReadySlot(T, p) ==
  LET s == T.list["READY"]
      i == SelectLastInSeq(s, LAMBDA u : T.pcb[u] = p)
  IN  IF i = 0 THEN Len(s) + 1 ELSE i + 1

\* RUNNING and the first reader of READLINE go to the front, the rest to the
\* back.
Slot(T, t, to, d) ==
  CASE to = "SLEEP"    -> SleepSlot(T, d.wakeup_time)
    [] to = "READY"    -> ReadySlot(T, T.pcb[t])
    [] to = "RUNNING"  -> 1
    [] to = "READLINE" -> IF d.first_reader THEN 1
                          ELSE Len(T.list["READLINE"]) + 1
    [] OTHER           -> Len(T.list[to]) + 1

\* Mutant: the node is linked but not unlinked.
RelinkWithoutUnlink(T, t, to, d) ==
  [T.list EXCEPT ![to] = InsertAt(@, Slot(T, t, to, d), t)]

\* Unlink the node and link it into the target list.  The destination is
\* chosen before the unlinking: a thread that moves to the list it heads is
\* its own destination, and its node ends up in no list at all.
Relink(T, t, to, d) ==
  LET from == T.state[t]
      rest == RemoveFirst(T.list[from], t)
  IN  IF from # to
      THEN [T.list EXCEPT ![from] = rest,
                          ![to] = InsertAt(@, Slot(T, t, to, d), t)]
      ELSE [T.list EXCEPT ![to] = IF Head(@) = t THEN rest
                                                 ELSE Append(rest, t)]

\* alter_state(t, to, d); nothing happens (-1) when t is not in the list its
\* state names.
AlterState(T, t, to, d) ==
  IF \/ T.state[t] \notin ListIdx
     \/ t \notin Range(T.list[T.state[t]])
  THEN T
  ELSE [list   |-> Relink(T, t, to, d),
        state  |-> [T.state EXCEPT ![t] = to],
        detail |-> [T.detail EXCEPT ![t] = IF to \in Reasons THEN d
                                                             ELSE NoDetail],
        pcb    |-> T.pcb]

-----------------------------------------------------------------------------
(***************************************************************************)
(* The scheduler.                                                          *)
(***************************************************************************)

\* thread_lists[RUNNING_STATE]->data, the thread that holds the processor.
RunningThread(T) == Head(T.list["RUNNING"])

\* round_robin: the thread it returns ...
RoundRobin(T) ==
  IF T.list["READY"] = <<>> THEN NoThread ELSE Head(T.list["READY"])

\* Mutant: the front of the list never moves on.
RotateNever(T) == T

\* ... and the rotation it leaves behind: the front moves on to the first
\* thread of a process other than that of the old front, if there is one.
Rotate(T) ==
  LET s == T.list["READY"]
      i == SelectInSeq(s, LAMBDA u : T.pcb[u] # T.pcb[Head(s)])
  IN  IF s = <<>> \/ i = 0 THEN T
      ELSE [T EXCEPT !.list = [@ EXCEPT !["READY"] =
                        SubSeq(s, i, Len(s)) \o SubSeq(s, 1, i - 1)]]

\* Mutant: any sibling but the running one.
ReadySiblingAny(T, tcbs) ==
  SelectInSeq(tcbs, LAMBDA u : T.state[u] # "RUNNING")

\* find_next_thread: the first thread in the process's tcb_list (tcbs) that
\* is in READY_STATE, found by its state alone; 0 when there is none.
ReadySibling(T, tcbs) == SelectInSeq(tcbs, LAMBDA u : T.state[u] = "READY")

FindNextThread(T, tcbs) ==
  LET i == ReadySibling(T, tcbs)
  IN  IF i # 0 THEN tcbs[i] ELSE RoundRobin(T)

\* The list as find_next_thread leaves it: rotated if round_robin was called.
FindNextRotate(T, tcbs) == IF ReadySibling(T, tcbs) # 0 THEN T ELSE Rotate(T)

\* switch_context(target, to, d): both results of alter_state are ignored.
SwitchContext(T, target, to, d) ==
  IF target = NoThread THEN T
  ELSE AlterState(AlterState(T, RunningThread(T), to, d),
                  target, "RUNNING", NoDetail)

\* find_tcb_in_list(pcb, VANISH_WAIT): the first waiter of process p.
FindWaiter(T, p) ==
  LET s == T.list["VANISH_WAIT"]
      i == SelectInSeq(s, LAMBDA u : T.pcb[u] = p)
  IN  IF i = 0 THEN NoThread ELSE s[i]

\* The first waiter of p, if any, becomes runnable.
WakeWaiter(T, p) ==
  IF FindWaiter(T, p) = NoThread THEN T
  ELSE AlterState(T, FindWaiter(T, p), "READY", NoDetail)
=============================================================================
