--------------------------- MODULE SchedulerProofs ---------------------------
(***************************************************************************)
(* What Scheduler guarantees for any number of threads and processes, any  *)
(* width of tick_count and any set of calls: the thread lists agree with   *)
(* the threads' states, SLEEP is sorted and READY grouped by process, the  *)
(* holder of a PCB lock can run, a thread is always there to switch to,    *)
(* the dead stay dead and task_vanish kills every sibling.  First the      *)
(* operations on the thread lists: what alter_state, round_robin,          *)
(* find_next_thread and switch_context preserve, for every set of threads. *)
(***************************************************************************)
EXTENDS Scheduler, SequenceLemmas

-----------------------------------------------------------------------------
(***************************************************************************)
(* alter_state and switch_context.                                         *)
(***************************************************************************)

\* Values of the bookkeeping over threads Thr, details Det and PCBs Pr.
Bookkeeping(Thr, Det, Pr) ==
  [list : [ListIdx -> Seq(Thr)], state : [Thr -> ListIdx \cup {"NEW"}],
   detail : [Thr -> Det], pcb : [Thr -> Pr]]

\* A thread is once in the list its state names and in no other, except for
\* the threads of P and the terminated ones, which may be in none.
Agree(T, P, Thr) ==
  /\ \A l \in ListIdx : IsInjective(T.list[l])
  /\ \A l \in ListIdx, t \in Thr :
       t \in Range(T.list[l]) => T.state[t] = l /\ t \notin P
  /\ \A l \in ListIdx, t \in Thr :
       T.state[t] = l /\ l # "TERMINATED" /\ t \notin P
         => t \in Range(T.list[l])

\* The position alter_state chooses is a position of the target list.
LEMMA SlotInRange ==
  ASSUME NEW Thr, NEW Det, NEW Pr, NEW T \in Bookkeeping(Thr, Det, Pr),
         NEW t \in Thr, NEW to \in ListIdx, NEW d
  PROVE  Slot(T, t, to, d) \in 1..Len(T.list[to]) + 1
<1> USE DEF Bookkeeping
<1>1. \A l \in ListIdx : Len(T.list[l]) \in Nat
  <2> TAKE l \in ListIdx
  <2>1. T.list[l] \in Seq(Thr)
    OBVIOUS
  <2> QED BY <2>1, LenProperties
<1>2. {"SLEEP", "READY", "READLINE"} \subseteq ListIdx
  BY DEF ListIdx, Reasons
<1>3. ASSUME NEW p PROVE ReadySlot(T, p) \in 1..Len(T.list["READY"]) + 1
  <2> DEFINE s == T.list["READY"]
             I == {i \in 1..Len(s) : T.pcb[s[i]] = p}
             k == SelectLastInSeq(s, LAMBDA u : T.pcb[u] = p)
  <2>0. Len(s) \in Nat
    BY <1>1, <1>2
  <2>1. k = IF I # {} THEN Max(I) ELSE 0
    BY DEF SelectLastInSeq
  <2>a. I \subseteq 1..Len(s) /\ I \subseteq Nat
    OBVIOUS
  <2> HIDE DEF I, k
  <2>2. I # {} => Max(I) \in I
    BY <2>0, <2>a, MaxProperties
  <2>3. k \in 0..Len(s)
    <3>1. CASE I = {}
      BY <3>1, <2>0, <2>1
    <3>2. CASE I # {}
      <4>1. k \in I
        BY <3>2, <2>1, <2>2
      <4> QED BY <4>1, <2>0, <2>a
    <3> QED BY <3>1, <3>2
  <2>4. ReadySlot(T, p) = IF k = 0 THEN Len(s) + 1 ELSE k + 1
    BY DEF ReadySlot, k
  <2> HIDE DEF s
  <2>5. ReadySlot(T, p) \in 1..Len(s) + 1
    BY <2>0, <2>3, <2>4
  <2> QED BY <2>5 DEF s
<1>4. ASSUME NEW w PROVE SleepSlot(T, w) \in 1..Len(T.list["SLEEP"]) + 1
  <2> DEFINE s == T.list["SLEEP"]
             I == {i \in 1..Len(s) : T.detail[s[i]].wakeup_time >= w}
             k == SelectInSeq(s, LAMBDA u : T.detail[u].wakeup_time >= w)
  <2>0. Len(s) \in Nat
    BY <1>1, <1>2
  <2>1. k = IF I # {} THEN Min(I) ELSE 0
    BY DEF SelectInSeq
  <2>a. I \subseteq 1..Len(s) /\ I \subseteq Nat
    OBVIOUS
  <2> HIDE DEF I, k
  <2>2. I # {} => Min(I) \in I
    BY <2>0, <2>a, MinProperties
  <2>3. k \in 0..Len(s)
    <3>1. CASE I = {}
      BY <3>1, <2>0, <2>1
    <3>2. CASE I # {}
      <4>1. k \in I
        BY <3>2, <2>1, <2>2
      <4> QED BY <4>1, <2>0, <2>a
    <3> QED BY <3>1, <3>2
  <2>4. SleepSlot(T, w) = IF k = 0 THEN Len(s) + 1 ELSE k
    BY DEF SleepSlot, k
  <2> HIDE DEF s
  <2>5. SleepSlot(T, w) \in 1..Len(s) + 1
    BY <2>0, <2>3, <2>4
  <2> QED BY <2>5 DEF s
<1>5. CASE to = "SLEEP"
  BY <1>4, <1>5 DEF Slot
<1>6. CASE to = "READY"
  BY <1>3, <1>6 DEF Slot
<1>7. CASE to = "READLINE"
  BY <1>1, <1>2, <1>7 DEF Slot
<1>8. CASE to \notin {"SLEEP", "READY", "READLINE"}
  BY <1>1, <1>8 DEF Slot
<1> QED BY <1>5, <1>6, <1>7, <1>8

\* L is T.list with t moved from the list of its state to another one.
Relinked(Thr, T, t, to, L) ==
  /\ L \in [ListIdx -> Seq(Thr)]
  /\ \A l \in ListIdx : IsInjective(L[l])
  /\ \A l \in ListIdx \ {T.state[t], to} : L[l] = T.list[l]
  /\ Range(L[T.state[t]]) = Range(T.list[T.state[t]]) \ {t}
  /\ Len(L[T.state[t]]) = Len(T.list[T.state[t]]) - 1
  /\ Range(L[to]) = Range(T.list[to]) \cup {t}

\* Moving a listed thread to another list: the lists, and nothing else of the
\* agreement, change as alter_state says.
LEMMA RelinkProperties ==
  ASSUME NEW Thr, NEW Det, NEW Pr, NEW P,
         NEW T \in Bookkeeping(Thr, Det, Pr), Agree(T, P, Thr),
         NEW t \in Thr, NEW to \in ListIdx, NEW d,
         T.state[t] \in ListIdx, t \in Range(T.list[T.state[t]]),
         T.state[t] # to
  PROVE  /\ Relinked(Thr, T, t, to, Relink(T, t, to, d))
         /\ Relink(T, t, to, d)[to]
              = InsertAt(T.list[to], Slot(T, t, to, d), t)
<1> DEFINE from == T.state[t]
           L == Relink(T, t, to, d)
           k == Slot(T, t, to, d)
<1>1. T.list \in [ListIdx -> Seq(Thr)]
  BY DEF Bookkeeping
<1>2. /\ RemoveFirst(T.list[from], t) \in Seq(Thr)
      /\ IsInjective(RemoveFirst(T.list[from], t))
      /\ Range(RemoveFirst(T.list[from], t)) = Range(T.list[from]) \ {t}
      /\ Len(RemoveFirst(T.list[from], t)) = Len(T.list[from]) - 1
  <2>1. T.list[from] \in Seq(Thr) /\ IsInjective(T.list[from])
    BY <1>1 DEF Agree
  <2> QED BY <2>1, RemoveFirstProperties
<1>3. k \in 1..Len(T.list[to]) + 1
  BY SlotInRange
<1>4. t \notin Range(T.list[to])
  BY DEF Agree
<1>5. /\ InsertAt(T.list[to], k, t) \in Seq(Thr)
      /\ IsInjective(InsertAt(T.list[to], k, t))
      /\ Range(InsertAt(T.list[to], k, t)) = Range(T.list[to]) \cup {t}
  <2>1. T.list[to] \in Seq(Thr) /\ IsInjective(T.list[to])
    BY <1>1 DEF Agree
  <2> HIDE DEF k
  <2> QED BY <2>1, <1>3, <1>4, InsertAtProperties, InsertAtInjective
<1>6. L = [T.list EXCEPT ![from] = RemoveFirst(T.list[from], t),
                         ![to] = InsertAt(T.list[to], k, t)]
  BY <1>1 DEF Relink
<1> HIDE DEF L, k
<1>7. /\ L[from] = RemoveFirst(T.list[from], t)
      /\ L[to] = InsertAt(T.list[to], k, t)
      /\ \A l \in ListIdx \ {from, to} : L[l] = T.list[l]
      /\ DOMAIN L = ListIdx
  BY <1>1, <1>6
<1>8. L \in [ListIdx -> Seq(Thr)]
  BY <1>1, <1>2, <1>5, <1>6
<1>9. \A l \in ListIdx : IsInjective(L[l])
  BY <1>2, <1>5, <1>7 DEF Agree
<1> QED BY <1>2, <1>5, <1>7, <1>8, <1>9 DEF L, k, Relinked

\* alter_state keeps the lists and the states in agreement, whatever the
\* target list, and does nothing to a thread that is in no list.
LEMMA AlterStateAgree ==
  ASSUME NEW Thr, NEW Det, NEW Pr, NEW P,
         NEW T \in Bookkeeping(Thr, Det, Pr), Agree(T, P, Thr),
         NEW t \in Thr, NEW to \in ListIdx, NEW d \in Det, NoDetail \in Det,
         T.state[t] # to
  PROVE  /\ AlterState(T, t, to, d) \in Bookkeeping(Thr, Det, Pr)
         /\ Agree(AlterState(T, t, to, d), P, Thr)
         /\ AlterState(T, t, to, d).pcb = T.pcb
         /\ IF T.state[t] \in ListIdx /\ t \in Range(T.list[T.state[t]])
            THEN /\ AlterState(T, t, to, d).state = [T.state EXCEPT ![t] = to]
                 /\ Relinked(Thr, T, t, to, AlterState(T, t, to, d).list)
            ELSE AlterState(T, t, to, d) = T
<1> DEFINE R == AlterState(T, t, to, d)
           from == T.state[t]
<1>1. CASE from \notin ListIdx \/ t \notin Range(T.list[from])
  BY <1>1 DEF AlterState
<1>2. CASE from \in ListIdx /\ t \in Range(T.list[from])
  <2> DEFINE L == Relink(T, t, to, d)
             D == [T.detail EXCEPT ![t] = IF to \in Reasons THEN d ELSE NoDetail]
             St == [T.state EXCEPT ![t] = to]
  <2>1. R = [list |-> L, state |-> St, detail |-> D, pcb |-> T.pcb]
    BY <1>2 DEF AlterState
  <2>2. /\ L \in [ListIdx -> Seq(Thr)]
        /\ \A l \in ListIdx : IsInjective(L[l])
        /\ \A l \in ListIdx \ {from, to} : L[l] = T.list[l]
        /\ Range(L[from]) = Range(T.list[from]) \ {t}
        /\ Range(L[to]) = Range(T.list[to]) \cup {t}
    <3>1. Relinked(Thr, T, t, to, L)
      BY <1>2, RelinkProperties
    <3> QED BY <3>1 DEF Relinked
  <2> HIDE DEF L
  <2>3. /\ St \in [Thr -> ListIdx \cup {"NEW"}]
        /\ D \in [Thr -> Det]
        /\ T.pcb \in [Thr -> Pr]
        /\ T.state \in [Thr -> ListIdx \cup {"NEW"}]
    BY DEF Bookkeeping
  <2>4. St[t] = to /\ \A u \in Thr \ {t} : St[u] = T.state[u]
    BY <2>3
  <2> HIDE DEF St, D
  <2>5. /\ R.list = L /\ R.state = St /\ R.pcb = T.pcb
        /\ R \in Bookkeeping(Thr, Det, Pr)
    BY <2>1, <2>2, <2>3 DEF Bookkeeping
  <2> HIDE DEF R
  <2>6. t \notin P
    BY <1>2 DEF Agree
  <2>7. ASSUME NEW l \in ListIdx, NEW u \in Thr, u \in Range(L[l])
        PROVE  St[u] = l /\ u \notin P
    <3>1. CASE u = t
      <4>1. l = to
        BY <2>2, <2>7, <3>1 DEF Agree
      <4> QED BY <4>1, <2>4, <2>6, <3>1
    <3>2. CASE u # t
      <4>1. u \in Range(T.list[l])
        BY <2>2, <2>7, <3>2
      <4> QED BY <4>1, <2>4, <3>2 DEF Agree
    <3> QED BY <3>1, <3>2
  <2>8. ASSUME NEW l \in ListIdx, NEW u \in Thr,
               St[u] = l, l # "TERMINATED", u \notin P
        PROVE  u \in Range(L[l])
    <3>1. CASE u = t
      BY <2>2, <2>4, <2>8, <3>1
    <3>2. CASE u # t
      <4>1. u \in Range(T.list[l])
        BY <2>4, <2>8, <3>2 DEF Agree
      <4> QED BY <4>1, <2>2, <3>2
    <3> QED BY <3>1, <3>2
  <2>9. Agree(R, P, Thr)
    BY <2>2, <2>5, <2>7, <2>8 DEF Agree
  <2>10. Relinked(Thr, T, t, to, R.list)
    BY <1>2, <2>5, RelinkProperties DEF L
  <2> QED BY <1>2, <2>5, <2>9, <2>10 DEF R, St
<1> QED BY <1>1, <1>2

\* Inserting into an empty sequence.
LEMMA InsertIntoEmpty ==
  ASSUME NEW S, NEW s \in Seq(S), Len(s) = 0, NEW e \in S
  PROVE  InsertAt(s, 1, e) = <<e>>
<1>1. ASSUME NEW i \in 1..Len(s) + 1
      PROVE  /\ InsertAt(s, i, e) \in Seq(S)
             /\ Len(InsertAt(s, i, e)) = Len(s) + 1
             /\ InsertAt(s, i, e)[i] = e
  <2>1. /\ InsertAt(s, i, e) \in Seq(S)
        /\ Len(InsertAt(s, i, e)) = Len(s) + 1
        /\ \A j \in 1..Len(s) + 1 :
             InsertAt(s, i, e)[j] = IF j < i THEN s[j]
                                    ELSE IF j = i THEN e ELSE s[j - 1]
    BY ONLY InsertAtProperties, s \in Seq(S), i \in 1..Len(s) + 1, e \in S
  <2> QED BY <2>1
<1>2. 1 \in 1..Len(s) + 1
  OBVIOUS
<1>3. /\ InsertAt(s, 1, e) \in Seq(S)
      /\ Len(InsertAt(s, 1, e)) = 1 /\ InsertAt(s, 1, e)[1] = e
  BY <1>1, <1>2
<1>4. <<e>> \in Seq(S) /\ Len(<<e>>) = 1 /\ <<e>>[1] = e
  OBVIOUS
<1> QED BY <1>3, <1>4, SeqEqual

\* A sequence of one thread.
LEMMA SingletonFacts ==
  ASSUME NEW Thr, NEW r \in Thr
  PROVE  /\ Range(<<r>>) = {r}
         /\ Len(<<r>>) = 1 /\ Head(<<r>>) = r
         /\ \A s \in Seq(Thr) : Len(s) = 0 => s = <<>>
BY DEF Range

\* alter_state of a listed thread to the empty RUNNING list.
LEMMA RunAgree ==
  ASSUME NEW Thr, NEW Det, NEW Pr, NEW P,
         NEW A \in Bookkeeping(Thr, Det, Pr), Agree(A, P, Thr),
         NEW run \in ListIdx, run = "RUNNING", Len(A.list[run]) = 0,
         NEW target \in Thr, A.state[target] \in ListIdx,
         A.state[target] # run, target \in Range(A.list[A.state[target]]),
         NEW n \in Det, n = NoDetail
  PROVE  /\ AlterState(A, target, run, n) \in Bookkeeping(Thr, Det, Pr)
         /\ Agree(AlterState(A, target, run, n), P, Thr)
         /\ AlterState(A, target, run, n).pcb = A.pcb
         /\ AlterState(A, target, run, n).state
              = [A.state EXCEPT ![target] = run]
         /\ AlterState(A, target, run, n).list[run] = <<target>>
<1>1. /\ AlterState(A, target, run, n) \in Bookkeeping(Thr, Det, Pr)
      /\ Agree(AlterState(A, target, run, n), P, Thr)
      /\ AlterState(A, target, run, n).pcb = A.pcb
      /\ AlterState(A, target, run, n).state = [A.state EXCEPT ![target] = run]
  BY AlterStateAgree
<1>2. Relink(A, target, run, n)[run]
        = InsertAt(A.list[run], Slot(A, target, run, n), target)
  BY RelinkProperties
<1>3. AlterState(A, target, run, n).list = Relink(A, target, run, n)
  BY DEF AlterState
<1>4. Slot(A, target, run, n) = 1
  BY DEF Slot
<1>5. A.list[run] \in Seq(Thr)
  BY DEF Bookkeeping
<1>6. InsertAt(A.list[run], Slot(A, target, run, n), target) = <<target>>
  BY <1>4, <1>5, InsertIntoEmpty
<1> QED BY <1>1, <1>2, <1>3, <1>6

\* switch_context to a listed thread: exactly one thread runs afterwards, the
\* target, and the lists still agree with the states.
LEMMA SwitchContextAgree ==
  ASSUME NEW Thr, NEW Det, NEW Pr, NEW P, NoThread \notin Thr,
         NEW T \in Bookkeeping(Thr, Det, Pr), Agree(T, P, Thr),
         NEW r \in Thr, T.list["RUNNING"] = <<r>>,
         NEW target \in Thr, T.state[target] \in ListIdx \ {"RUNNING"},
         target \in Range(T.list[T.state[target]]),
         NEW to \in ListIdx \ {"RUNNING"},
         NEW d \in Det, NoDetail \in Det
  PROVE  /\ SwitchContext(T, target, to, d) \in Bookkeeping(Thr, Det, Pr)
         /\ Agree(SwitchContext(T, target, to, d), P, Thr)
         /\ SwitchContext(T, target, to, d).pcb = T.pcb
         /\ SwitchContext(T, target, to, d).list["RUNNING"] = <<target>>
         /\ SwitchContext(T, target, to, d).state
              = [T.state EXCEPT ![r] = to, ![target] = "RUNNING"]
<1> DEFINE A == AlterState(T, r, to, d)
           B == AlterState(A, target, "RUNNING", NoDetail)
<1>0. "RUNNING" \in ListIdx
  BY DEF ListIdx
<1>1. T.list \in [ListIdx -> Seq(Thr)] /\ T.state \in [Thr -> ListIdx \cup {"NEW"}]
  BY DEF Bookkeeping
<1>2. RunningThread(T) = r
  BY SingletonFacts DEF RunningThread
<1>3. r \in Range(T.list["RUNNING"]) /\ T.state[r] = "RUNNING" /\ r # target
  BY <1>0, SingletonFacts DEF Agree
<1>4. /\ A \in Bookkeeping(Thr, Det, Pr) /\ Agree(A, P, Thr) /\ A.pcb = T.pcb
      /\ A.state = [T.state EXCEPT ![r] = to]
      /\ Relinked(Thr, T, r, to, A.list)
  BY <1>0, <1>3, AlterStateAgree
<1> HIDE DEF A
<1>5. A.list["RUNNING"] = <<>>
  <2>1. Len(A.list["RUNNING"]) = 0 /\ A.list["RUNNING"] \in Seq(Thr)
    BY <1>0, <1>3, <1>4, SingletonFacts DEF Relinked
  <2> QED BY <2>1, SingletonFacts
<1>6. A.state[target] = T.state[target]
  BY <1>1, <1>3, <1>4
<1>7. target \in Range(A.list[A.state[target]])
  <2>1. CASE T.state[target] = to
    BY <2>1, <1>3, <1>4, <1>6 DEF Relinked
  <2>2. CASE T.state[target] # to
    BY <2>2, <1>3, <1>4, <1>6 DEF Relinked
  <2> QED BY <2>1, <2>2
<1>8. A.state[target] \in ListIdx /\ A.state[target] # "RUNNING"
  BY <1>6
<1>9. /\ B \in Bookkeeping(Thr, Det, Pr) /\ Agree(B, P, Thr) /\ B.pcb = A.pcb
      /\ B.state = [A.state EXCEPT ![target] = "RUNNING"]
      /\ B.list["RUNNING"] = <<target>>
  <2>1. PICK run \in ListIdx, n \in Det, X \in Bookkeeping(Thr, Det, Pr) :
            run = "RUNNING" /\ n = NoDetail /\ X = A
    BY <1>0, <1>4
  <2>2. /\ Agree(X, P, Thr) /\ Len(X.list[run]) = 0
        /\ X.state[target] \in ListIdx /\ X.state[target] # run
        /\ target \in Range(X.list[X.state[target]])
    BY <2>1, <1>4, <1>5, <1>7, <1>8
  <2>3. /\ AlterState(X, target, run, n) \in Bookkeeping(Thr, Det, Pr)
        /\ Agree(AlterState(X, target, run, n), P, Thr)
        /\ AlterState(X, target, run, n).pcb = X.pcb
        /\ AlterState(X, target, run, n).state
             = [X.state EXCEPT ![target] = run]
        /\ AlterState(X, target, run, n).list[run] = <<target>>
    BY ONLY run \in ListIdx, n \in Det, X \in Bookkeeping(Thr, Det, Pr),
            target \in Thr, <2>1, <2>2, RunAgree
  <2> QED BY <2>1, <2>3
<1>10. SwitchContext(T, target, to, d) = B
  BY <1>2 DEF SwitchContext, A
<1> HIDE DEF B
<1>11. [A.state EXCEPT ![target] = "RUNNING"]
         = [T.state EXCEPT ![r] = to, ![target] = "RUNNING"]
  BY <1>1, <1>4
<1> QED BY <1>4, <1>9, <1>10, <1>11

-----------------------------------------------------------------------------
(***************************************************************************)
(* The choices of the scheduler.                                           *)
(***************************************************************************)

\* R is T with the READY list in another order.
Reordered(T, R) ==
  /\ R.state = T.state /\ R.pcb = T.pcb
  /\ \A l \in ListIdx : Range(R.list[l]) = Range(T.list[l])
  /\ \A l \in ListIdx : l # "READY" => R.list[l] = T.list[l]

\* round_robin rotates the READY list and changes nothing else.
LEMMA RotateAgree ==
  ASSUME NEW Thr, NEW Det, NEW Pr, NEW P,
         NEW T \in Bookkeeping(Thr, Det, Pr), Agree(T, P, Thr)
  PROVE  /\ Rotate(T) \in Bookkeeping(Thr, Det, Pr)
         /\ Agree(Rotate(T), P, Thr)
         /\ Reordered(T, Rotate(T))
<1> DEFINE s == T.list["READY"]
           I == {i \in 1..Len(s) : T.pcb[s[i]] # T.pcb[Head(s)]}
           k == SelectInSeq(s, LAMBDA u : T.pcb[u] # T.pcb[Head(s)])
           r == SubSeq(s, k, Len(s)) \o SubSeq(s, 1, k - 1)
           L == [T.list EXCEPT !["READY"] = r]
<1>0. "READY" \in ListIdx
  BY DEF ListIdx
<1>1. s \in Seq(Thr) /\ IsInjective(s) /\ Len(s) \in Nat
      /\ T.list \in [ListIdx -> Seq(Thr)]
  BY <1>0, LenProperties DEF Bookkeeping, Agree
<1>2. k = IF I # {} THEN Min(I) ELSE 0
  BY DEF SelectInSeq
<1>3. I \subseteq 1..Len(s)
  OBVIOUS
<1>4. Rotate(T) = IF s = <<>> \/ k = 0 THEN T ELSE [T EXCEPT !.list = L]
  BY <1>1 DEF Rotate
<1> HIDE DEF I, k
<1>5. k \in 0..Len(s)
  BY <1>1, <1>2, <1>3, FirstMatch
<1>6. CASE s = <<>> \/ k = 0
  BY <1>4, <1>6 DEF Reordered
<1>7. CASE ~(s = <<>> \/ k = 0)
  <2>1. k \in 1..Len(s)
    BY <1>1, <1>5, <1>7
  <2>2. r \in Seq(Thr) /\ IsInjective(r) /\ Range(r) = Range(s)
    <3> HIDE DEF s
    <3> QED BY <1>1, <2>1, RotationProperties
  <2> HIDE DEF r
  <2>3. /\ L \in [ListIdx -> Seq(Thr)] /\ L["READY"] = r
        /\ \A l \in ListIdx : l # "READY" => L[l] = T.list[l]
    BY <1>0, <1>1, <2>2
  <2>4. \A l \in ListIdx : Range(L[l]) = Range(T.list[l]) /\ IsInjective(L[l])
    BY <1>0, <2>2, <2>3 DEF Agree
  <2> HIDE DEF L
  <2>5. /\ Rotate(T).list = L /\ Rotate(T).state = T.state
        /\ Rotate(T).pcb = T.pcb
        /\ Rotate(T) \in Bookkeeping(Thr, Det, Pr)
    <3>1. Rotate(T) = [T EXCEPT !.list = L]
      BY <1>4, <1>7
    <3> QED BY <3>1, <2>3 DEF Bookkeeping
  <2> QED BY <2>3, <2>4, <2>5 DEF Agree, Reordered
<1> QED BY <1>6, <1>7

\* find_next_thread returns a thread of the READY list, if no TCB of the
\* process is still being built.
LEMMA FindNextThreadListed ==
  ASSUME NEW Thr, NEW Det, NEW Pr, NEW P, NoThread \notin Thr,
         NEW T \in Bookkeeping(Thr, Det, Pr), Agree(T, P, Thr),
         NEW s \in Seq(Thr), Range(s) \cap P = {},
         FindNextThread(T, s) # NoThread
  PROVE  FindNextThread(T, s) \in Range(T.list["READY"])
<1> DEFINE I == {i \in 1..Len(s) : T.state[s[i]] = "READY"}
           k == ReadySibling(T, s)
<1>0. "READY" \in ListIdx /\ T.list["READY"] \in Seq(Thr)
  BY DEF ListIdx, Bookkeeping
<1>1. Len(s) \in Nat /\ DOMAIN s = 1..Len(s)
  BY LenProperties
<1>2. k = IF I # {} THEN Min(I) ELSE 0
  BY DEF ReadySibling, SelectInSeq
<1>3. I \subseteq 1..Len(s)
  OBVIOUS
<1>4. FindNextThread(T, s) = IF k # 0 THEN s[k] ELSE RoundRobin(T)
  BY DEF FindNextThread
<1> HIDE DEF k
<1>5. k \in 0..Len(s) /\ (k # 0 => k \in I)
  <2> HIDE DEF I
  <2> QED BY <1>1, <1>2, <1>3, FirstMatch
<1>6. CASE k = 0
  <2>1. T.list["READY"] # <<>> /\ RoundRobin(T) = Head(T.list["READY"])
    BY <1>4, <1>6 DEF RoundRobin
  <2> QED BY <2>1, <1>0, <1>4, <1>6, HeadInRange
<1>7. CASE k # 0
  <2>1. k \in 1..Len(s) /\ T.state[s[k]] = "READY"
    BY <1>5, <1>7, <1>1
  <2>2. s[k] \in Thr /\ s[k] \in Range(s)
    BY <1>1, <2>1, ElementOfSeq DEF Range
  <2>3. s[k] \in Range(T.list["READY"])
    BY <2>1, <2>2, <1>0 DEF Agree
  <2> QED BY <2>3, <1>4, <1>7
<1> QED BY <1>6, <1>7

\* find_tcb_in_list returns a thread of the list.
LEMMA FindWaiterListed ==
  ASSUME NEW Thr, NEW Det, NEW Pr, NEW T \in Bookkeeping(Thr, Det, Pr),
         NEW p, FindWaiter(T, p) # NoThread
  PROVE  FindWaiter(T, p) \in Range(T.list["VANISH_WAIT"])
         /\ FindWaiter(T, p) \in Thr
<1> DEFINE s == T.list["VANISH_WAIT"]
           I == {i \in 1..Len(s) : T.pcb[s[i]] = p}
           k == SelectInSeq(s, LAMBDA u : T.pcb[u] = p)
<1>1. s \in Seq(Thr) /\ Len(s) \in Nat /\ DOMAIN s = 1..Len(s)
  <2>1. "VANISH_WAIT" \in ListIdx
    BY DEF ListIdx, Reasons
  <2> QED BY <2>1, LenProperties DEF Bookkeeping
<1>2. k = IF I # {} THEN Min(I) ELSE 0
  BY DEF SelectInSeq
<1>3. I \subseteq 1..Len(s)
  OBVIOUS
<1>4. FindWaiter(T, p) = IF k = 0 THEN NoThread ELSE s[k]
  BY DEF FindWaiter
<1> HIDE DEF I, k
<1>5. k \in 0..Len(s)
  BY <1>1, <1>2, <1>3, FirstMatch
<1> HIDE DEF s
<1>6. k \in 1..Len(s) /\ FindWaiter(T, p) = s[k]
  BY <1>1, <1>4, <1>5
<1>7. s[k] \in Thr /\ s[k] \in Range(s)
  BY <1>1, <1>6, ElementOfSeq DEF Range
<1> QED BY <1>6, <1>7 DEF s


-----------------------------------------------------------------------------
(***************************************************************************)
(* The order of the SLEEP and READY lists.                                 *)
(***************************************************************************)

\* The threads of s wake in the order of s, by their details D.
Sorted(s, D) ==
  \A i, j \in 1..Len(s) : i < j => D[s[i]].wakeup_time <= D[s[j]].wakeup_time

\* The threads of a process, by the PCBs Q, are next to one another in s.
Grouped(s, Q) ==
  \A i, j, k \in 1..Len(s) : i < j /\ j < k /\ Q[s[i]] = Q[s[k]] => Q[s[j]] = Q[s[i]]

Ordered(T) == Sorted(T.list["SLEEP"], T.detail) /\ Grouped(T.list["READY"], T.pcb)

\* The order depends only on the details of the threads in the list.
LEMMA SortedSame ==
  ASSUME NEW S, NEW s \in Seq(S), NEW D, NEW E, Sorted(s, D), \A u \in Range(s) : E[u] = D[u]
  PROVE  Sorted(s, E)
<1>1. \A i \in 1..Len(s) : E[s[i]] = D[s[i]]
  BY LenProperties DEF Range
<1> QED BY <1>1 DEF Sorted

\* One thread leaves the list.
LEMMA RemoveOrdered ==
  ASSUME NEW S, NEW s \in Seq(S), IsInjective(s), NEW t \in Range(s), NEW D, NEW Q
  PROVE  /\ Sorted(s, D) => Sorted(RemoveFirst(s, t), D)
         /\ Grouped(s, Q) => Grouped(RemoveFirst(s, t), Q)
<1>0. Len(s) \in Nat /\ DOMAIN s = 1..Len(s)
  BY LenProperties
<1>1. PICK k \in 1..Len(s) : t = s[k]
  BY <1>0 DEF Range
<1>2. PICK r : r = RemoveFirst(s, t)
  OBVIOUS
<1>3. Len(r) = Len(s) - 1
  BY <1>2, RemoveFirstProperties
<1>4. \A j \in 1..Len(s) - 1 : r[j] = IF j < k THEN s[j] ELSE s[j + 1]
  BY <1>1, <1>2, RemoveFirstIndex
<1>5. \A j \in 1..Len(r) : \E i \in 1..Len(s) :
        r[j] = s[i] /\ i = IF j < k THEN j ELSE j + 1
  BY <1>0, <1>1, <1>3, <1>4
<1>6. ASSUME Sorted(s, D) PROVE Sorted(r, D)
  <2> SUFFICES ASSUME NEW i \in 1..Len(r), NEW j \in 1..Len(r), i < j
               PROVE  D[r[i]].wakeup_time <= D[r[j]].wakeup_time
    BY DEF Sorted
  <2>1. PICK a \in 1..Len(s) : r[i] = s[a] /\ a = IF i < k THEN i ELSE i + 1
    BY <1>5
  <2>2. PICK b \in 1..Len(s) : r[j] = s[b] /\ b = IF j < k THEN j ELSE j + 1
    BY <1>5
  <2>3. a < b
    BY <1>0, <1>1, <1>3, <2>1, <2>2
  <2>4. D[s[a]].wakeup_time <= D[s[b]].wakeup_time
    BY <1>6, <2>3 DEF Sorted
  <2> QED BY <2>1, <2>2, <2>4
<1>7. ASSUME Grouped(s, Q) PROVE Grouped(r, Q)
  <2> SUFFICES ASSUME NEW i \in 1..Len(r), NEW j \in 1..Len(r), NEW h \in 1..Len(r),
                      i < j, j < h, Q[r[i]] = Q[r[h]]
               PROVE  Q[r[j]] = Q[r[i]]
    BY DEF Grouped
  <2>1. PICK a \in 1..Len(s) : r[i] = s[a] /\ a = IF i < k THEN i ELSE i + 1
    BY <1>5
  <2>2. PICK b \in 1..Len(s) : r[j] = s[b] /\ b = IF j < k THEN j ELSE j + 1
    BY <1>5
  <2>3. PICK c \in 1..Len(s) : r[h] = s[c] /\ c = IF h < k THEN h ELSE h + 1
    BY <1>5
  <2>4. a < b /\ b < c
    BY <1>0, <1>1, <1>3, <2>1, <2>2, <2>3
  <2>5. Q[s[b]] = Q[s[a]]
    BY <1>7, <2>1, <2>3, <2>4 DEF Grouped
  <2> QED BY <2>1, <2>2, <2>5
<1> QED BY <1>2, <1>6, <1>7

\* A thread is linked between those that wake before it and those that do not.
LEMMA InsertSorted ==
  ASSUME NEW S, NEW s \in Seq(S), NEW t \in S, NEW k \in 1..Len(s) + 1, NEW D, Sorted(s, D),
         \A i \in 1..Len(s) : i < k => D[s[i]].wakeup_time <= D[t].wakeup_time,
         \A i \in 1..Len(s) : i >= k => D[t].wakeup_time <= D[s[i]].wakeup_time
  PROVE  Sorted(InsertAt(s, k, t), D)
<1>0. Len(s) \in Nat
  BY LenProperties
<1>1. PICK r : r = InsertAt(s, k, t)
  OBVIOUS
<1>2. /\ Len(r) = Len(s) + 1
      /\ \A j \in 1..Len(s) + 1 : r[j] = IF j < k THEN s[j] ELSE IF j = k THEN t ELSE s[j - 1]
  <2>1. /\ Len(InsertAt(s, k, t)) = Len(s) + 1
        /\ \A j \in 1..Len(s) + 1 :
             InsertAt(s, k, t)[j] = IF j < k THEN s[j] ELSE IF j = k THEN t ELSE s[j - 1]
    BY ONLY InsertAtProperties, s \in Seq(S), k \in 1..Len(s) + 1, t \in S
  <2> QED BY <1>1, <2>1
<1> SUFFICES ASSUME NEW i \in 1..Len(r), NEW j \in 1..Len(r), i < j
             PROVE  D[r[i]].wakeup_time <= D[r[j]].wakeup_time
  BY <1>1 DEF Sorted
<1>3. CASE i < k /\ j < k
  <2>1. r[i] = s[i] /\ r[j] = s[j] /\ i \in 1..Len(s) /\ j \in 1..Len(s)
    BY <1>0, <1>2, <1>3
  <2> QED BY <2>1 DEF Sorted
<1>4. CASE i < k /\ j = k
  <2>1. r[i] = s[i] /\ r[j] = t /\ i \in 1..Len(s)
    BY <1>0, <1>2, <1>4
  <2> QED BY <1>4, <2>1
<1>5. CASE i < k /\ j > k
  <2>1. r[i] = s[i] /\ r[j] = s[j - 1] /\ i \in 1..Len(s) /\ j - 1 \in 1..Len(s) /\ i < j - 1
    BY <1>0, <1>2, <1>5
  <2> QED BY <2>1 DEF Sorted
<1>6. CASE i = k
  <2>1. r[i] = t /\ r[j] = s[j - 1] /\ j - 1 \in 1..Len(s) /\ j - 1 >= k
    BY <1>0, <1>2, <1>6
  <2> QED BY <2>1
<1>7. CASE i > k
  <2>1. /\ r[i] = s[i - 1] /\ r[j] = s[j - 1] /\ i - 1 \in 1..Len(s) /\ j - 1 \in 1..Len(s)
        /\ i - 1 < j - 1
    BY <1>0, <1>2, <1>7
  <2> QED BY <2>1 DEF Sorted
<1> QED BY <1>0, <1>2, <1>3, <1>4, <1>5, <1>6, <1>7

\* Position k of s is after the last thread of process p, or the end of s when
\* there is none.
AfterLast(s, Q, p, k) ==
  /\ k \in 1..Len(s) + 1
  /\ \A i \in 1..Len(s) : i >= k => Q[s[i]] # p
  /\ \/ k > 1 /\ Q[s[k - 1]] = p
     \/ k = Len(s) + 1 /\ \A i \in 1..Len(s) : Q[s[i]] # p

\* A thread is linked there.
LEMMA InsertGrouped ==
  ASSUME NEW S, NEW s \in Seq(S), NEW t \in S, NEW Q, Grouped(s, Q), NEW k,
         AfterLast(s, Q, Q[t], k)
  PROVE  Grouped(InsertAt(s, k, t), Q)
<1>0. Len(s) \in Nat
  BY LenProperties
<1>a. /\ k \in 1..Len(s) + 1
      /\ \A i \in 1..Len(s) : i >= k => Q[s[i]] # Q[t]
      /\ \/ k > 1 /\ Q[s[k - 1]] = Q[t]
         \/ k = Len(s) + 1 /\ \A i \in 1..Len(s) : Q[s[i]] # Q[t]
  BY DEF AfterLast
<1> USE <1>a
<1>1. PICK r : r = InsertAt(s, k, t)
  OBVIOUS
<1>2. /\ Len(r) = Len(s) + 1
      /\ \A j \in 1..Len(s) + 1 : r[j] = IF j < k THEN s[j] ELSE IF j = k THEN t ELSE s[j - 1]
  <2>1. /\ Len(InsertAt(s, k, t)) = Len(s) + 1
        /\ \A j \in 1..Len(s) + 1 :
             InsertAt(s, k, t)[j] = IF j < k THEN s[j] ELSE IF j = k THEN t ELSE s[j - 1]
    BY ONLY InsertAtProperties, <1>a, s \in Seq(S), t \in S
  <2> QED BY <1>1, <2>1
<1> SUFFICES ASSUME NEW i \in 1..Len(r), NEW j \in 1..Len(r), NEW h \in 1..Len(r),
                    i < j, j < h, Q[r[i]] = Q[r[h]]
             PROVE  Q[r[j]] = Q[r[i]]
  BY <1>1 DEF Grouped
<1>3. CASE h = k
  <2>1. r[h] = t /\ r[i] = s[i] /\ r[j] = s[j] /\ i \in 1..Len(s) /\ j \in 1..Len(s)
        /\ i < k - 1 /\ j <= k - 1 /\ k - 1 \in 1..Len(s)
    BY <1>0, <1>2, <1>3
  <2>2. Q[s[k - 1]] = Q[t] /\ Q[s[i]] = Q[t]
    BY <2>1
  <2>3. CASE j = k - 1
    BY <2>1, <2>2, <2>3
  <2>4. CASE j < k - 1
    BY <2>1, <2>2, <2>4 DEF Grouped
  <2> QED BY <1>0, <2>1, <2>3, <2>4
<1>4. CASE j = k
  <2>1. r[j] = t /\ r[i] = s[i] /\ r[h] = s[h - 1] /\ i \in 1..Len(s) /\ h - 1 \in 1..Len(s)
        /\ i <= k - 1 /\ h - 1 >= k /\ k - 1 \in 1..Len(s) /\ k <= Len(s)
    BY <1>0, <1>2, <1>4
  <2>2. Q[s[k - 1]] = Q[t]
    BY <1>0, <2>1
  <2>3. CASE i = k - 1
    BY <2>1, <2>2, <2>3
  <2>4. CASE i < k - 1
    <3>1. i < k - 1 /\ k - 1 < h - 1 /\ Q[s[i]] = Q[s[h - 1]]
      BY <1>0, <2>1, <2>4
    <3>2. Q[s[k - 1]] = Q[s[i]]
      BY <2>1, <3>1 DEF Grouped
    <3> QED BY <2>1, <2>2, <3>2
  <2> QED BY <1>0, <2>1, <2>3, <2>4
<1>5. CASE i = k
  <2>1. r[i] = t /\ r[h] = s[h - 1] /\ h - 1 \in 1..Len(s) /\ h - 1 >= k
    BY <1>0, <1>2, <1>5
  <2> QED BY <2>1
<1>6. CASE i # k /\ j # k /\ h # k
  <2>1. PICK a \in 1..Len(s) : r[i] = s[a] /\ a = IF i < k THEN i ELSE i - 1
    BY <1>0, <1>2, <1>6
  <2>2. PICK b \in 1..Len(s) : r[j] = s[b] /\ b = IF j < k THEN j ELSE j - 1
    BY <1>0, <1>2, <1>6
  <2>3. PICK c \in 1..Len(s) : r[h] = s[c] /\ c = IF h < k THEN h ELSE h - 1
    BY <1>0, <1>2, <1>6
  <2>4. a < b /\ b < c
    BY <1>0, <1>2, <1>6, <2>1, <2>2, <2>3
  <2>5. Q[s[a]] = Q[s[c]]
    BY <2>1, <2>3
  <2>6. Q[s[b]] = Q[s[a]]
    BY ONLY <2>4, <2>5, Grouped(s, Q) DEF Grouped
  <2> QED BY <2>1, <2>2, <2>6
<1> QED BY <1>3, <1>4, <1>5, <1>6

\* round_robin moves a whole process from the front to the end.
LEMMA RotateGrouped ==
  ASSUME NEW S, NEW s \in Seq(S), IsInjective(s), NEW k \in 1..Len(s), NEW Q, Grouped(s, Q),
         Q[s[k]] # Q[s[1]], \A i \in 1..Len(s) : i < k => Q[s[i]] = Q[s[1]]
  PROVE  Grouped(SubSeq(s, k, Len(s)) \o SubSeq(s, 1, k - 1), Q)
<1>0. Len(s) \in Nat /\ k > 1 /\ 1 \in 1..Len(s)
  BY LenProperties
<1>1. PICK r : r = SubSeq(s, k, Len(s)) \o SubSeq(s, 1, k - 1)
  OBVIOUS
<1>2. PICK m \in 1..Len(s) : m = Len(s) - k + 1
  BY <1>0
<1>3. /\ Len(r) = Len(s)
      /\ \A j \in 1..Len(s) : r[j] = s[IF j <= m THEN k + j - 1 ELSE j - m]
  BY <1>1, <1>2, RotationProperties
<1>4. ASSUME NEW j \in 1..Len(s), j <= m PROVE Q[r[j]] # Q[s[1]]
  <2>1. r[j] = s[k + j - 1] /\ k + j - 1 \in 1..Len(s) /\ k + j - 1 >= k
    BY <1>0, <1>2, <1>3, <1>4
  <2>2. CASE k + j - 1 = k
    BY <2>1, <2>2
  <2>3. CASE k + j - 1 > k
    <3>1. PICK c \in 1..Len(s) : c = k + j - 1
      BY <2>1
    <3>2. 1 < k /\ k < c /\ (Q[s[1]] = Q[s[c]] => Q[s[k]] = Q[s[1]])
      BY ONLY <1>0, <2>3, <3>1, Grouped(s, Q), k \in 1..Len(s) DEF Grouped
    <3> QED BY <2>1, <3>1, <3>2
  <2> QED BY <1>0, <2>1, <2>2, <2>3
<1>5. ASSUME NEW j \in 1..Len(s), j > m PROVE Q[r[j]] = Q[s[1]]
  <2>1. r[j] = s[j - m] /\ j - m \in 1..Len(s) /\ j - m < k
    BY <1>0, <1>2, <1>3, <1>5
  <2> QED BY <2>1
<1> SUFFICES ASSUME NEW i \in 1..Len(r), NEW j \in 1..Len(r), NEW h \in 1..Len(r),
                    i < j, j < h, Q[r[i]] = Q[r[h]]
             PROVE  Q[r[j]] = Q[r[i]]
  BY <1>1 DEF Grouped
<1>a. ASSUME NEW x \in 1..Len(s), x <= m
      PROVE  \E y \in 1..Len(s) : y = k + x - 1 /\ r[x] = s[y]
  <2>1. k + x - 1 \in 1..Len(s) /\ r[x] = s[k + x - 1]
    BY <1>0, <1>2, <1>3, <1>a
  <2> QED BY <2>1
<1>6. CASE h <= m
  <2>0. /\ i \in 1..Len(s) /\ j \in 1..Len(s) /\ h \in 1..Len(s)
        /\ i <= m /\ j <= m
    BY <1>0, <1>2, <1>3, <1>6
  <2>1. PICK a \in 1..Len(s) : a = k + i - 1 /\ r[i] = s[a]
    BY <1>a, <2>0
  <2>2. PICK b \in 1..Len(s) : b = k + j - 1 /\ r[j] = s[b]
    BY <1>a, <2>0
  <2>3. PICK c \in 1..Len(s) : c = k + h - 1 /\ r[h] = s[c]
    BY <1>6, <1>a, <2>0
  <2>4. a < b /\ b < c /\ Q[s[a]] = Q[s[c]]
    BY <1>0, <1>3, <2>1, <2>2, <2>3
  <2>5. Q[s[b]] = Q[s[a]]
    BY ONLY <2>4, Grouped(s, Q) DEF Grouped
  <2> QED BY <2>1, <2>2, <2>5
<1>7. CASE h > m
  <2>1. Q[r[i]] = Q[s[1]]
    BY <1>3, <1>5, <1>7
  <2>2. i > m
    BY <1>0, <1>2, <1>3, <1>4, <2>1
  <2>3. j > m
    BY <1>0, <1>2, <1>3, <2>2
  <2> QED BY <1>3, <1>5, <2>1, <2>3
<1> QED BY <1>0, <1>2, <1>3, <1>6, <1>7

\* Where alter_state links a thread that goes to sleep ...
LEMMA SleepSlotPlace ==
  ASSUME NEW Thr, NEW T, NEW s \in Seq(Thr), s = T.list["SLEEP"], NEW w \in Int,
         \A u \in Range(s) : T.detail[u].wakeup_time \in Int
  PROVE  /\ SleepSlot(T, w) \in 1..Len(s) + 1
         /\ \A i \in 1..Len(s) : i < SleepSlot(T, w) => T.detail[s[i]].wakeup_time <= w
         /\ Sorted(s, T.detail) =>
              \A i \in 1..Len(s) : i >= SleepSlot(T, w) => w <= T.detail[s[i]].wakeup_time
<1> DEFINE I == {i \in 1..Len(s) : T.detail[s[i]].wakeup_time >= w}
           k == SelectInSeq(s, LAMBDA u : T.detail[u].wakeup_time >= w)
<1>0. Len(s) \in Nat /\ \A i \in 1..Len(s) : T.detail[s[i]].wakeup_time \in Int
  BY LenProperties DEF Range
<1>1. k = IF I # {} THEN Min(I) ELSE 0
  BY DEF SelectInSeq
<1>2. I \subseteq 1..Len(s)
  OBVIOUS
<1>3. SleepSlot(T, w) = IF k = 0 THEN Len(s) + 1 ELSE k
  BY DEF SleepSlot
<1> HIDE DEF k
<1>4. (k = 0 <=> I = {}) /\ (k # 0 => k \in I /\ \A i \in I : k <= i)
  <2> HIDE DEF I
  <2> QED BY <1>0, <1>1, <1>2, FirstPlace
<1>5. CASE k = 0
  <2>1. \A i \in 1..Len(s) : ~(T.detail[s[i]].wakeup_time >= w)
    BY <1>4, <1>5
  <2>2. \A i \in 1..Len(s) : T.detail[s[i]].wakeup_time <= w
    BY <1>0, <2>1
  <2> QED BY <1>0, <1>3, <1>5, <2>2
<1>6. CASE k # 0
  <2>1. k \in 1..Len(s) /\ T.detail[s[k]].wakeup_time >= w
    BY <1>4, <1>6
  <2>2. \A i \in 1..Len(s) : i < k => ~(T.detail[s[i]].wakeup_time >= w)
    BY <1>0, <1>4, <1>6, <2>1
  <2>3. \A i \in 1..Len(s) : i < k => T.detail[s[i]].wakeup_time <= w
    BY <1>0, <2>2
  <2>4. ASSUME Sorted(s, T.detail), NEW i \in 1..Len(s), i >= k
        PROVE  w <= T.detail[s[i]].wakeup_time
    <3>1. CASE i = k
      BY <1>0, <2>1, <3>1
    <3>2. CASE i > k
      <4>1. T.detail[s[k]].wakeup_time <= T.detail[s[i]].wakeup_time
        BY <2>1, <2>4, <3>2 DEF Sorted
      <4> QED BY <1>0, <2>1, <4>1
    <3> QED BY <1>0, <2>1, <2>4, <3>1, <3>2
  <2> QED BY <1>0, <1>3, <1>6, <2>1, <2>3, <2>4
<1> QED BY <1>5, <1>6

\* ... and one that becomes runnable.
LEMMA ReadySlotPlace ==
  ASSUME NEW Thr, NEW T, NEW s \in Seq(Thr), s = T.list["READY"], NEW p
  PROVE  AfterLast(s, T.pcb, p, ReadySlot(T, p))
<1>m. PICK m : m = ReadySlot(T, p)
  OBVIOUS
<1> DEFINE I == {i \in 1..Len(s) : T.pcb[s[i]] = p}
           k == SelectLastInSeq(s, LAMBDA u : T.pcb[u] = p)
<1>0. Len(s) \in Nat
  BY LenProperties
<1>1. k = IF I # {} THEN Max(I) ELSE 0
  BY DEF SelectLastInSeq
<1>2. I \subseteq 1..Len(s)
  OBVIOUS
<1>3. m = IF k = 0 THEN Len(s) + 1 ELSE k + 1
  BY <1>m DEF ReadySlot
<1> HIDE DEF k
<1>4. I # {} => k \in I /\ \A i \in I : k >= i
  <2> HIDE DEF I
  <2> QED BY <1>0, <1>1, <1>2, MaxProperties
<1>5. CASE I = {}
  <2>1. \A i \in 1..Len(s) : T.pcb[s[i]] # p
    BY <1>5
  <2>2. m = Len(s) + 1
    BY <1>1, <1>3, <1>5
  <2> QED BY <1>0, <1>m, <2>1, <2>2 DEF AfterLast
<1>6. CASE I # {}
  <2>1. k \in 1..Len(s) /\ T.pcb[s[k]] = p
    BY <1>4, <1>6
  <2>2. \A i \in 1..Len(s) : i >= k + 1 => T.pcb[s[i]] # p
    BY <1>0, <1>4, <1>6, <2>1
  <2>3. m = k + 1
    BY <1>0, <1>3, <2>1
  <2>4. k + 1 \in 1..Len(s) + 1 /\ k + 1 > 1 /\ (k + 1) - 1 = k
    BY <1>0, <2>1
  <2> QED BY <1>m, <2>1, <2>2, <2>3, <2>4 DEF AfterLast
<1> QED BY <1>5, <1>6

\* alter_state keeps the order of the SLEEP and READY lists.
LEMMA AlterOrdered ==
  ASSUME NEW Thr, NEW Det, NEW Pr, NEW P,
         NEW T \in Bookkeeping(Thr, Det, Pr), Agree(T, P, Thr), Ordered(T),
         NEW t \in Thr, NEW to \in ListIdx, NEW d \in Det, NoDetail \in Det,
         T.state[t] # to, \A x \in Det : x.wakeup_time \in Int
  PROVE  Ordered(AlterState(T, t, to, d))
<1>1. CASE T.state[t] \notin ListIdx \/ t \notin Range(T.list[T.state[t]])
  BY <1>1 DEF AlterState
<1>2. CASE T.state[t] \in ListIdx /\ t \in Range(T.list[T.state[t]])
  <2>1. PICK R, L, D, from :
          /\ R = AlterState(T, t, to, d) /\ L = R.list /\ D = R.detail /\ from = T.state[t]
    OBVIOUS
  <2>2. /\ R.pcb = T.pcb /\ L = Relink(T, t, to, d)
        /\ D = [T.detail EXCEPT ![t] = IF to \in Reasons THEN d ELSE NoDetail]
    BY <1>2, <2>1 DEF AlterState
  <2>3. /\ T.list \in [ListIdx -> Seq(Thr)] /\ T.detail \in [Thr -> Det]
        /\ T.state \in [Thr -> ListIdx \cup {"NEW"}]
        /\ "SLEEP" \in ListIdx /\ "READY" \in ListIdx /\ "SLEEP" \in Reasons
    BY DEF Bookkeeping, ListIdx, Reasons
  <2>4. /\ D[t] = IF to \in Reasons THEN d ELSE NoDetail
        /\ \A u \in Thr : u # t => D[u] = T.detail[u]
    BY <2>2, <2>3
  <2>5. L = [T.list EXCEPT ![from] = RemoveFirst(T.list[from], t),
                           ![to] = InsertAt(T.list[to], Slot(T, t, to, d), t)]
    BY <2>1, <2>2, <2>3 DEF Relink
  <2>6. /\ L[from] = RemoveFirst(T.list[from], t)
        /\ L[to] = InsertAt(T.list[to], Slot(T, t, to, d), t)
        /\ \A l \in ListIdx : l # from /\ l # to => L[l] = T.list[l]
    BY <1>2, <2>1, <2>3, <2>5
  <2>7. \A l \in ListIdx : t \in Range(T.list[l]) => l = from
    BY <2>1 DEF Agree
  <2>8. Sorted(L["SLEEP"], D)
    <3>1. PICK s \in Seq(Thr) : s = T.list["SLEEP"]
      BY <2>3
    <3>2. Sorted(s, T.detail) /\ IsInjective(s)
      BY <2>3, <3>1 DEF Ordered, Agree
    <3>3. Range(s) \subseteq Thr
      BY RangeSubset
    <3>4. CASE from = "SLEEP"
      <4>1. PICK r : r = RemoveFirst(s, t)
        OBVIOUS
      <4>2. t \in Range(s)
        BY <1>2, <2>1, <3>1, <3>4
      <4>3. r \in Seq(Thr) /\ Range(r) = Range(s) \ {t} /\ Sorted(r, T.detail)
        BY <3>2, <4>1, <4>2, RemoveFirstProperties, RemoveOrdered
      <4>4. \A u \in Range(r) : D[u] = T.detail[u]
        BY <2>4, <3>3, <4>3
      <4>5. Sorted(r, D)
        BY <4>3, <4>4, SortedSame
      <4> QED BY <2>6, <3>1, <3>4, <4>1, <4>5
    <3>5. CASE from # "SLEEP"
      <4>1. t \notin Range(s)
        BY <2>3, <2>7, <3>1, <3>5
      <4>2. \A u \in Range(s) : D[u] = T.detail[u]
        BY <2>4, <3>3, <4>1
      <4>3. Sorted(s, D)
        BY <3>2, <4>2, SortedSame
      <4>4. CASE to # "SLEEP"
        BY <2>3, <2>6, <3>1, <3>5, <4>3, <4>4
      <4>5. CASE to = "SLEEP"
        <5>1. D[t] = d /\ d.wakeup_time \in Int
          BY <2>3, <2>4, <4>5
        <5>2. \A u \in Range(s) : T.detail[u].wakeup_time \in Int
          BY <2>3, <3>3
        <5>3. PICK k : k = SleepSlot(T, d.wakeup_time)
          OBVIOUS
        <5>4. /\ k \in 1..Len(s) + 1
              /\ \A i \in 1..Len(s) : i < k => T.detail[s[i]].wakeup_time <= d.wakeup_time
              /\ \A i \in 1..Len(s) : i >= k => d.wakeup_time <= T.detail[s[i]].wakeup_time
          BY <3>1, <3>2, <5>1, <5>2, <5>3, SleepSlotPlace
        <5>5. \A i \in 1..Len(s) : D[s[i]] = T.detail[s[i]]
          BY <4>2, LenProperties DEF Range
        <5>6. Sorted(InsertAt(s, k, t), D)
          BY <4>3, <5>1, <5>4, <5>5, InsertSorted
        <5>7. Slot(T, t, to, d) = k
          BY <4>5, <5>3 DEF Slot
        <5> QED BY <2>6, <3>1, <4>5, <5>6, <5>7
      <4> QED BY <4>4, <4>5
    <3> QED BY <3>4, <3>5
  <2>9. Grouped(L["READY"], R.pcb)
    <3>1. PICK s \in Seq(Thr) : s = T.list["READY"]
      BY <2>3
    <3>2. Grouped(s, T.pcb) /\ IsInjective(s)
      BY <2>3, <3>1 DEF Ordered, Agree
    <3>3. CASE from = "READY"
      <4>1. t \in Range(s)
        BY <1>2, <2>1, <3>1, <3>3
      <4>2. Grouped(RemoveFirst(s, t), T.pcb)
        BY <3>2, <4>1, RemoveOrdered
      <4> QED BY <2>2, <2>6, <3>1, <3>3, <4>2
    <3>4. CASE from # "READY" /\ to # "READY"
      BY <2>2, <2>3, <2>6, <3>1, <3>2, <3>4
    <3>5. CASE to = "READY"
      <4>1. PICK k : k = ReadySlot(T, T.pcb[t])
        OBVIOUS
      <4>2. AfterLast(s, T.pcb, T.pcb[t], k)
        BY <3>1, <4>1, ReadySlotPlace
      <4>3. Grouped(InsertAt(s, k, t), T.pcb)
        BY <3>2, <4>2, InsertGrouped
      <4>4. Slot(T, t, to, d) = k
        BY <3>5, <4>1 DEF Slot
      <4> QED BY <2>2, <2>6, <3>1, <3>5, <4>3, <4>4
    <3> QED BY <3>3, <3>4, <3>5
  <2> QED BY <2>1, <2>8, <2>9 DEF Ordered
<1> QED BY <1>1, <1>2

\* round_robin keeps it, too.
LEMMA RotateOrdered ==
  ASSUME NEW Thr, NEW Det, NEW Pr, NEW P,
         NEW T \in Bookkeeping(Thr, Det, Pr), Agree(T, P, Thr), Ordered(T)
  PROVE  Ordered(Rotate(T))
<1>0. /\ T.list \in [ListIdx -> Seq(Thr)] /\ "READY" \in ListIdx
      /\ "SLEEP" \in ListIdx
  BY DEF Bookkeeping, ListIdx, Reasons
<1>1. PICK s \in Seq(Thr) : s = T.list["READY"]
  BY <1>0
<1> DEFINE I == {i \in 1..Len(s) : T.pcb[s[i]] # T.pcb[Head(s)]}
           k == SelectInSeq(s, LAMBDA u : T.pcb[u] # T.pcb[Head(s)])
<1>2. IsInjective(s) /\ Len(s) \in Nat /\ Grouped(s, T.pcb)
  BY <1>0, <1>1, LenProperties DEF Agree, Ordered
<1>3. k = IF I # {} THEN Min(I) ELSE 0
  BY DEF SelectInSeq
<1>4. I \subseteq 1..Len(s)
  OBVIOUS
<1>5. Rotate(T) = IF s = <<>> \/ k = 0 THEN T
                  ELSE [T EXCEPT !.list = [T.list EXCEPT !["READY"] =
                           SubSeq(s, k, Len(s)) \o SubSeq(s, 1, k - 1)]]
  BY <1>0, <1>1 DEF Rotate
<1> HIDE DEF k
<1>6. k # 0 => k \in I /\ \A i \in I : k <= i
  <2> HIDE DEF I
  <2> QED BY <1>2, <1>3, <1>4, FirstPlace
<1>7. CASE s = <<>> \/ k = 0
  BY <1>5, <1>7
<1>8. CASE s # <<>> /\ k # 0
  <2>1. k \in 1..Len(s) /\ T.pcb[s[k]] # T.pcb[Head(s)]
    BY <1>6, <1>8
  <2>2. Head(s) = s[1]
    BY <1>8
  <2>3. \A i \in 1..Len(s) : i < k => T.pcb[s[i]] = T.pcb[s[1]]
    BY <1>2, <1>6, <1>8, <2>1, <2>2
  <2>4. PICK r : r = SubSeq(s, k, Len(s)) \o SubSeq(s, 1, k - 1)
    OBVIOUS
  <2>5. Grouped(r, T.pcb)
    BY <1>2, <2>1, <2>2, <2>3, <2>4, RotateGrouped
  <2>6. /\ Rotate(T).list["READY"] = r /\ Rotate(T).list["SLEEP"] = T.list["SLEEP"]
        /\ Rotate(T).pcb = T.pcb /\ Rotate(T).detail = T.detail
    BY <1>0, <1>5, <1>8, <2>4 DEF Bookkeeping
  <2> QED BY <2>5, <2>6 DEF Ordered
<1> QED BY <1>7, <1>8

-----------------------------------------------------------------------------
(***************************************************************************)
(* The invariant of the scheduler.                                         *)
(***************************************************************************)

Inserting == {"fork_insert", "thread_fork_insert"}

\* The type of thr.
ThrType == Bookkeeping(Threads, Details, Procs \cup {NoProc})

\* The lists of T agree with its states, up to the pending threads P, and
\* exactly one thread runs.
Good(T, P) ==
  /\ T \in ThrType
  /\ Agree(T, P, Threads)
  /\ \E r \in Threads : T.list["RUNNING"] = <<r>>

\* tcb_list of a process holds the TCBs that point to it, each once.
TcbInv ==
  /\ \A p \in Procs : IsInjective(tcbs[p])
  /\ \A t \in Threads : thr.state[t] # "NEW" => thr.pcb[t] \in Procs
  /\ \A t \in Threads, p \in Procs :
       t \in Range(tcbs[p]) <=> thr.state[t] # "NEW" /\ thr.pcb[t] = p

\* The holder of a PCB lock is a thread of the process that is between
\* mutex_lock and mutex_unlock, and can run.
LockInv ==
  \A p \in Procs : lock[p] # NoThread =>
    /\ thr.pcb[lock[p]] = p
    /\ thr.state[lock[p]] \in {"READY", "RUNNING"}
    /\ op[lock[p]] \in LockingCalls \cup
                         {"thread_fork_insert", "task_vanish_loop"}

\* What thread_fork and task_vanish rely on while they hold the lock.
HoldInv ==
  \A t \in Threads :
    /\ op[t] \in {"thread_fork_insert", "task_vanish_loop"} =>
         /\ lock[thr.pcb[t]] = t
         /\ node[t] \in Range(tcbs[thr.pcb[t]])
    /\ op[t] = "thread_fork_insert" => node[t] = Last(tcbs[thr.pcb[t]])

\* A TCB that fork or thread_fork is building belongs to one caller only, is
\* in READY_STATE, and has not run; a child process has no other thread yet.
PendInv ==
  /\ \A t \in Threads : op[t] \in Inserting =>
       /\ node[t] \in Threads
       /\ thr.state[node[t]] = "READY"
  /\ \A s, t \in Threads :
       op[s] \in Inserting /\ op[t] \in Inserting /\ node[s] = node[t] => s = t
  /\ \A t \in Threads : op[t] = "fork_insert" =>
       Range(tcbs[thr.pcb[node[t]]]) = {node[t]}
  /\ \A t \in Threads : thr.state[t] = "NEW" \/ t \in Pending => op[t] = "user"

\* x is a thread of the caller's process, whose lock the caller holds.
Own(x) == thr.pcb[x] = Mine /\ lock[Mine] = Me

\* What every step keeps: the order of the lists; the dead stay dead; only a
\* TCB under construction, and a thread of the caller's own locked process,
\* stops being runnable.
Kept ==
  /\ Ordered(thr) => Ordered(thr')
  /\ \A t \in Threads :
       thr.state[t] = "TERMINATED" => thr'.state[t] = "TERMINATED"
  /\ \A t \in Threads : thr.state[t] \in {"READY", "RUNNING"} =>
       \/ thr'.state[t] \in {"READY", "RUNNING"}
       \/ t \in Pending
       \/ Own(t)

\* What does not depend on which calls there are and who holds the locks.
Core ==
  /\ tcbs \in [Procs -> Seq(Threads)]
  /\ lock \in [Procs -> Threads \cup {NoThread}]
  /\ op = [t \in Threads |-> op[t]]
  /\ node \in [Threads -> Threads \cup {NoThread}]
  /\ Good(thr, Pending)
  /\ TcbInv
  /\ HoldInv
  /\ PendInv

\* The inductive invariant.
IInv ==
  /\ TypeOK
  /\ Good(thr, Pending)
  /\ TcbInv
  /\ LockInv
  /\ HoldInv
  /\ PendInv

-----------------------------------------------------------------------------
(***************************************************************************)
(* Steps on the bookkeeping.                                               *)
(***************************************************************************)

\* T2 is T after some threads changed lists; only x may stop being runnable.
Moved(T, T2, P, x) ==
  /\ Good(T2, P)
  /\ T2.pcb = T.pcb
  /\ \A t \in Threads : T2.state[t] # T.state[t] =>
       /\ t \notin P
       /\ T.state[t] \in ListIdx \ {"TERMINATED"} /\ T2.state[t] \in ListIdx
       /\ t = x \/ T2.state[t] \in {"READY", "RUNNING"}
  /\ Ordered(T) => Ordered(T2)

LEMMA NoDetailType ==
  NoDetail \in Details /\ \A x \in Details : x.wakeup_time \in Int
<1>1. NoDetail \in Details
  BY TickAssumption DEF NoDetail, Details
<1>2. 0..TickMod - 1 \subseteq Int
  BY TickAssumption
<1> QED BY <1>1, <1>2 DEF Details

LEMMA ListIdxFacts ==
  {"READY", "RUNNING", "TERMINATED", "SLEEP", "DESCHEDULE", "VANISH_WAIT"}
    \subseteq ListIdx
BY DEF ListIdx, Reasons

\* The one running thread.
LEMMA RunningFacts ==
  ASSUME NEW P, NEW T, Good(T, P)
  PROVE  /\ RunningThread(T) \in Threads
         /\ T.list["RUNNING"] = <<RunningThread(T)>>
         /\ T.state[RunningThread(T)] = "RUNNING"
         /\ RunningThread(T) \notin P
<1>1. PICK r \in Threads : T.list["RUNNING"] = <<r>>
  BY DEF Good
<1>2. RunningThread(T) = r /\ r \in Range(T.list["RUNNING"])
  BY <1>1, SingletonFacts DEF RunningThread
<1> QED BY <1>1, <1>2, ListIdxFacts DEF Good, Agree

\* switch_context to a thread of some list: the bookkeeping it leaves.
LEMMA SwitchFacts ==
  ASSUME NEW P, NEW T, Good(T, P), NEW l \in ListIdx \ {"RUNNING"},
         NEW target \in Range(T.list[l]), NEW to \in ListIdx \ {"RUNNING"},
         NEW d \in Details
  PROVE  /\ SwitchContext(T, target, to, d)
              \in Bookkeeping(Threads, Details, Procs \cup {NoProc})
         /\ Agree(SwitchContext(T, target, to, d), P, Threads)
         /\ SwitchContext(T, target, to, d).pcb = T.pcb
         /\ SwitchContext(T, target, to, d).list["RUNNING"] = <<target>>
         /\ SwitchContext(T, target, to, d).state[target] = "RUNNING"
         /\ \A t \in Threads : t # target =>
              SwitchContext(T, target, to, d).state[t]
                = IF t = RunningThread(T) THEN to ELSE T.state[t]
<1> DEFINE r == RunningThread(T)
           R == SwitchContext(T, target, to, d)
<1>1. /\ r \in Threads /\ T.list["RUNNING"] = <<r>> /\ T.state[r] = "RUNNING"
      /\ r \notin P
  BY RunningFacts
<1> HIDE DEF r
<1>2. /\ T \in Bookkeeping(Threads, Details, Procs \cup {NoProc})
      /\ Agree(T, P, Threads) /\ NoThread \notin Threads
      /\ NoDetail \in Details
  BY ThreadAssumption, NoDetailType DEF Good, ThrType
<1>3. target \in Threads
  <2>1. T.list[l] \in Seq(Threads)
    BY <1>2 DEF Bookkeeping
  <2> QED BY <2>1, RangeOfSeq
<1>4. T.state[target] = l /\ target \notin P
  BY <1>2, <1>3 DEF Agree
<1>5. /\ R \in Bookkeeping(Threads, Details, Procs \cup {NoProc})
      /\ Agree(R, P, Threads)
      /\ R.pcb = T.pcb
      /\ R.list["RUNNING"] = <<target>>
      /\ R.state = [T.state EXCEPT ![r] = to, ![target] = "RUNNING"]
  BY <1>1, <1>2, <1>3, <1>4, SwitchContextAgree
<1>6. T.state \in [Threads -> ListIdx \cup {"NEW"}]
  BY <1>2 DEF Bookkeeping
<1> HIDE DEF R
<1>7. /\ R.state[target] = "RUNNING"
      /\ \A t \in Threads : t # target =>
           R.state[t] = IF t = r THEN to ELSE T.state[t]
  BY <1>1, <1>3, <1>5, <1>6
<1> QED BY <1>5, <1>7 DEF R, r

\* switch_context to a thread of some list.
LEMMA SwitchGood ==
  ASSUME NEW P, NEW T, Good(T, P),
         NEW l \in ListIdx \ {"RUNNING"}, l # "TERMINATED",
         NEW target \in Range(T.list[l]), NEW to \in ListIdx \ {"RUNNING"},
         NEW d \in Details
  PROVE  Moved(T, SwitchContext(T, target, to, d), P,
               IF to = "READY" THEN NoThread ELSE RunningThread(T))
<1> DEFINE r == RunningThread(T)
           R == SwitchContext(T, target, to, d)
<1>1. /\ r \in Threads /\ T.list["RUNNING"] = <<r>> /\ T.state[r] = "RUNNING"
      /\ r \notin P
  BY RunningFacts
<1> HIDE DEF r
<1>2. /\ T \in Bookkeeping(Threads, Details, Procs \cup {NoProc})
      /\ Agree(T, P, Threads) /\ NoThread \notin Threads
      /\ NoDetail \in Details
  BY ThreadAssumption, NoDetailType DEF Good, ThrType
<1>3. target \in Threads
  <2>1. T.list[l] \in Seq(Threads)
    BY <1>2 DEF Bookkeeping
  <2> QED BY <2>1, RangeOfSeq
<1>4. T.state[target] = l /\ target \notin P
      /\ T.state[target] \in ListIdx \ {"RUNNING"}
      /\ target \in Range(T.list[T.state[target]])
  BY <1>2, <1>3 DEF Agree
<1>5. /\ R \in Bookkeeping(Threads, Details, Procs \cup {NoProc})
      /\ Agree(R, P, Threads)
      /\ R.pcb = T.pcb
      /\ R.list["RUNNING"] = <<target>>
      /\ R.state[target] = "RUNNING"
      /\ \A t \in Threads : t # target =>
           R.state[t] = IF t = r THEN to ELSE T.state[t]
  <2>1. /\ SwitchContext(T, target, to, d)
             \in Bookkeeping(Threads, Details, Procs \cup {NoProc})
        /\ Agree(SwitchContext(T, target, to, d), P, Threads)
    BY SwitchFacts
  <2>2. /\ SwitchContext(T, target, to, d).pcb = T.pcb
        /\ SwitchContext(T, target, to, d).list["RUNNING"] = <<target>>
    BY SwitchFacts
  <2>3. /\ SwitchContext(T, target, to, d).state[target] = "RUNNING"
    BY SwitchFacts
  <2>4. \A t \in Threads : t # target =>
              SwitchContext(T, target, to, d).state[t]
                = IF t = RunningThread(T) THEN to ELSE T.state[t]
    BY SwitchFacts
  <2> QED BY <2>1, <2>2, <2>3, <2>4 DEF R, r
<1> HIDE DEF R
<1>6. Good(R, P)
  BY <1>3, <1>5 DEF Good, ThrType
<1>7. T.state \in [Threads -> ListIdx \cup {"NEW"}]
  BY <1>2 DEF Bookkeeping
<1>8. ASSUME NEW t \in Threads, R.state[t] # T.state[t]
      PROVE  /\ t \notin P
             /\ T.state[t] \in ListIdx \ {"TERMINATED"}
             /\ R.state[t] \in ListIdx
             /\ \/ t = IF to = "READY" THEN NoThread ELSE r
                \/ R.state[t] \in {"READY", "RUNNING"}
  <2>1. CASE t = target
    BY <2>1, <1>1, <1>4, <1>5, <1>7, ListIdxFacts
  <2>2. CASE t # target
    <3>1. t = r /\ R.state[t] = to
      BY <2>2, <1>8, <1>1, <1>5, <1>7
    <3> QED BY <3>1, <1>1, ListIdxFacts
  <2> QED BY <2>1, <2>2
<1>9. ASSUME Ordered(T) PROVE Ordered(R)
  <2>1. PICK A : A = AlterState(T, r, to, d)
    OBVIOUS
  <2>2. /\ A \in Bookkeeping(Threads, Details, Procs \cup {NoProc})
        /\ Agree(A, P, Threads) /\ Ordered(A)
        /\ A.state[target] # "RUNNING"
    <3>1. /\ A \in Bookkeeping(Threads, Details, Procs \cup {NoProc})
          /\ Agree(A, P, Threads)
          /\ IF T.state[r] \in ListIdx /\ r \in Range(T.list[T.state[r]])
             THEN A.state = [T.state EXCEPT ![r] = to]
             ELSE A = T
      BY <1>1, <1>2, <2>1, AlterStateAgree
    <3>2. Ordered(A)
      BY <1>1, <1>2, <1>9, <2>1, NoDetailType, AlterOrdered
    <3>3. A.state[target] # "RUNNING"
      BY <1>1, <1>3, <1>4, <1>7, <3>1
    <3> QED BY <3>1, <3>2, <3>3
  <2>3. PICK run \in ListIdx, n \in Details : run = "RUNNING" /\ n = NoDetail
    BY ListIdxFacts, NoDetailType
  <2>4. Ordered(AlterState(A, target, run, n))
    BY <1>2, <1>3, <2>2, <2>3, NoDetailType, AlterOrdered
  <2>5. target # NoThread
    BY <1>2, <1>3
  <2> QED BY <2>1, <2>3, <2>4, <2>5 DEF R, r, SwitchContext
<1> QED BY <1>5, <1>6, <1>8, <1>9 DEF Moved, R, r

\* The thread that ran gets the state it asked for.
LEMMA SwitchLeaves ==
  ASSUME NEW P, NEW T, Good(T, P),
         NEW l \in ListIdx \ {"RUNNING"},
         NEW target \in Range(T.list[l]), NEW to \in ListIdx \ {"RUNNING"},
         NEW d \in Details
  PROVE  SwitchContext(T, target, to, d).state[RunningThread(T)] = to
<1>1. RunningThread(T) \in Threads /\ T.state[RunningThread(T)] = "RUNNING"
  BY RunningFacts
<1>2. target \in Threads
  <2>1. T.list[l] \in Seq(Threads)
    BY DEF Good, ThrType, Bookkeeping
  <2> QED BY <2>1, RangeOfSeq
<1>3. T.state[target] = l
  BY <1>2 DEF Good, Agree
<1>4. RunningThread(T) # target
  BY <1>1, <1>3
<1>5. \A t \in Threads : t # target =>
        SwitchContext(T, target, to, d).state[t]
          = IF t = RunningThread(T) THEN to ELSE T.state[t]
  BY ONLY SwitchFacts, Good(T, P), l \in ListIdx \ {"RUNNING"},
     target \in Range(T.list[l]), to \in ListIdx \ {"RUNNING"}, d \in Details
<1> QED BY <1>1, <1>4, <1>5

\* Moves compose.
LEMMA MovedTrans ==
  ASSUME NEW P, NEW x, NEW T, NEW A, NEW B,
         Moved(T, A, P, NoThread), Moved(A, B, P, x)
  PROVE  Moved(T, B, P, x)
<1>1. ASSUME NEW t \in Threads, B.state[t] # T.state[t]
      PROVE  /\ t \notin P
             /\ T.state[t] \in ListIdx \ {"TERMINATED"}
             /\ B.state[t] \in ListIdx
             /\ t = x \/ B.state[t] \in {"READY", "RUNNING"}
  BY <1>1, ThreadAssumption DEF Moved
<1> QED BY <1>1 DEF Moved

LEMMA MovedSelf ==
  ASSUME NEW P, NEW x, NEW T, Good(T, P)
  PROVE  Moved(T, T, P, x)
BY DEF Moved

LEMMA MovedWeaken ==
  ASSUME NEW P, NEW x, NEW T, NEW A, Moved(T, A, P, NoThread)
  PROVE  Moved(T, A, P, x)
BY ThreadAssumption DEF Moved

\* round_robin alone moves nobody.
LEMMA RotateGood ==
  ASSUME NEW P, NEW T, Good(T, P)
  PROVE  /\ Moved(T, Rotate(T), P, NoThread)
         /\ Reordered(T, Rotate(T))
         /\ RunningThread(Rotate(T)) = RunningThread(T)
<1>1. /\ T \in Bookkeeping(Threads, Details, Procs \cup {NoProc})
      /\ Agree(T, P, Threads)
  BY DEF Good, ThrType
<1>2. /\ Rotate(T) \in Bookkeeping(Threads, Details, Procs \cup {NoProc})
      /\ Agree(Rotate(T), P, Threads)
      /\ Reordered(T, Rotate(T))
  BY <1>1, RotateAgree
<1>3. Rotate(T).list["RUNNING"] = T.list["RUNNING"]
  BY <1>2, ListIdxFacts DEF Reordered
<1>4. Good(Rotate(T), P)
  BY <1>2, <1>3 DEF Good, ThrType
<1>5. Ordered(T) => Ordered(Rotate(T))
  BY <1>1, RotateOrdered
<1> QED BY <1>2, <1>3, <1>4, <1>5 DEF Moved, RunningThread, Reordered

\* A turn of round_robin for a caller that goes to list to.
LEMMA TurnMoved ==
  ASSUME NEW P, NEW T, Good(T, P), RoundRobin(T) # NoThread,
         NEW to \in ListIdx \ {"RUNNING"}, NEW d \in Details
  PROVE  /\ Moved(T, SwitchContext(Rotate(T), RoundRobin(T), to, d), P,
                  IF to = "READY" THEN NoThread ELSE RunningThread(T))
         /\ SwitchContext(Rotate(T), RoundRobin(T), to, d)
              .state[RunningThread(T)] = to
<1>1. T.list["READY"] # <<>> /\ RoundRobin(T) = Head(T.list["READY"])
  BY DEF RoundRobin
<1>2. T.list["READY"] \in Seq(Threads)
  BY ListIdxFacts DEF Good, ThrType, Bookkeeping
<1>3. RoundRobin(T) \in Range(T.list["READY"])
  BY <1>1, <1>2, HeadInRange
<1>4. /\ Moved(T, Rotate(T), P, NoThread) /\ Good(Rotate(T), P)
      /\ Range(Rotate(T).list["READY"]) = Range(T.list["READY"])
      /\ RunningThread(Rotate(T)) = RunningThread(T)
  <2>1. /\ Moved(T, Rotate(T), P, NoThread)
        /\ Reordered(T, Rotate(T))
        /\ RunningThread(Rotate(T)) = RunningThread(T)
    BY RotateGood
  <2> QED BY <2>1, ListIdxFacts DEF Moved, Reordered
<1>5. PICK l \in ListIdx \ {"RUNNING", "TERMINATED"} : l = "READY"
  BY ListIdxFacts
<1>6. Moved(Rotate(T), SwitchContext(Rotate(T), RoundRobin(T), to, d), P,
            IF to = "READY" THEN NoThread ELSE RunningThread(Rotate(T)))
  BY <1>3, <1>4, <1>5, SwitchGood
<1>7. SwitchContext(Rotate(T), RoundRobin(T), to, d)
        .state[RunningThread(Rotate(T))] = to
  <2>1. PICK R, x : R = Rotate(T) /\ x = RoundRobin(T)
    OBVIOUS
  <2>2. Good(R, P) /\ x \in Range(R.list[l]) /\ l \in ListIdx \ {"RUNNING"}
    BY <1>3, <1>4, <1>5, <2>1
  <2>3. SwitchContext(R, x, to, d).state[RunningThread(R)] = to
    BY <2>2, SwitchLeaves
  <2> QED BY <2>1, <2>3
<1> QED BY <1>4, <1>6, <1>7, MovedTrans

LEMMA TakeTurnMoved ==
  ASSUME NEW P, NEW T, Good(T, P)
  PROVE  Moved(T, TakeTurn(T), P, NoThread)
<1>0. PICK to \in ListIdx \ {"RUNNING"}, d \in Details :
         to = "READY" /\ d = NoDetail
  BY ListIdxFacts, NoDetailType
<1>1. CASE RoundRobin(T) = NoThread
  <2>1. TakeTurn(T) = Rotate(T)
    BY <1>1 DEF TakeTurn, SwitchContext
  <2> QED BY <2>1, RotateGood
<1>2. CASE RoundRobin(T) # NoThread
  <2>1. Moved(T, SwitchContext(Rotate(T), RoundRobin(T), to, d), P,
              IF to = "READY" THEN NoThread ELSE RunningThread(T))
    BY <1>2, TurnMoved
  <2> QED BY <2>1, <1>0 DEF TakeTurn
<1> QED BY <1>1, <1>2

\* yield to a thread, runnable or not.
LEMMA YieldToMoved ==
  ASSUME NEW P, NEW T, Good(T, P), NEW t
  PROVE  Moved(T, YieldTo(T, t), P, NoThread)
<1>0. PICK l \in ListIdx \ {"RUNNING", "TERMINATED"}, d \in Details :
         l = "READY" /\ d = NoDetail
  BY ListIdxFacts, NoDetailType
<1>1. CASE t \in Range(T.list["READY"])
  <2>1. Moved(T, SwitchContext(T, t, l, d), P,
              IF l = "READY" THEN NoThread ELSE RunningThread(T))
    BY <1>0, <1>1, SwitchGood
  <2> QED BY <2>1, <1>0, <1>1 DEF YieldTo
<1>2. CASE t \notin Range(T.list["READY"])
  BY <1>2, MovedSelf DEF YieldTo
<1> QED BY <1>1, <1>2

\* alter_state of a listed thread that does not run.
LEMMA AlterMoved ==
  ASSUME NEW P, NEW T, Good(T, P), NEW t \in Threads,
         T.state[t] \notin {"RUNNING", "TERMINATED"},
         NEW to \in ListIdx \ {"RUNNING"},
         T.state[t] # to, NEW d \in Details
  PROVE  /\ Moved(T, AlterState(T, t, to, d), P,
                  IF to = "READY" THEN NoThread ELSE t)
         /\ RunningThread(AlterState(T, t, to, d)) = RunningThread(T)
<1> DEFINE R == AlterState(T, t, to, d)
<1>1. /\ T \in Bookkeeping(Threads, Details, Procs \cup {NoProc})
      /\ Agree(T, P, Threads) /\ NoDetail \in Details
  BY NoDetailType DEF Good, ThrType
<1>2. /\ R \in Bookkeeping(Threads, Details, Procs \cup {NoProc})
      /\ Agree(R, P, Threads)
      /\ R.pcb = T.pcb
      /\ IF T.state[t] \in ListIdx /\ t \in Range(T.list[T.state[t]])
         THEN /\ R.state = [T.state EXCEPT ![t] = to]
              /\ Relinked(Threads, T, t, to, R.list)
         ELSE R = T
  BY <1>1, AlterStateAgree
<1> HIDE DEF R
<1>3. CASE ~(T.state[t] \in ListIdx /\ t \in Range(T.list[T.state[t]]))
  BY <1>2, <1>3, MovedSelf DEF R
<1>4. CASE T.state[t] \in ListIdx /\ t \in Range(T.list[T.state[t]])
  <2>1. R.list["RUNNING"] = T.list["RUNNING"]
    BY <1>2, <1>4, ListIdxFacts DEF Relinked
  <2>2. Good(R, P)
    BY <1>2, <2>1 DEF Good, ThrType
  <2>3. t \notin P
    BY <1>1, <1>4 DEF Agree
  <2>4. T.state \in [Threads -> ListIdx \cup {"NEW"}]
    BY <1>1 DEF Bookkeeping
  <2>5. \A u \in Threads : R.state[u] # T.state[u] => u = t /\ R.state[u] = to
    BY <1>2, <1>4, <2>4
  <2>6. Ordered(T) => Ordered(R)
    BY <1>1, NoDetailType, AlterOrdered DEF R
  <2> QED BY <1>2, <1>4, <2>1, <2>2, <2>3, <2>5, <2>6
          DEF Moved, R, RunningThread
<1> QED BY <1>3, <1>4

\* The first waiter of a process wakes.
LEMMA WakeWaiterMoved ==
  ASSUME NEW P, NEW T, Good(T, P), NEW p
  PROVE  /\ Moved(T, WakeWaiter(T, p), P, NoThread)
         /\ RunningThread(WakeWaiter(T, p)) = RunningThread(T)
<1> DEFINE w == FindWaiter(T, p)
<1>0. PICK to \in ListIdx \ {"RUNNING"}, d \in Details :
         to = "READY" /\ d = NoDetail
  BY ListIdxFacts, NoDetailType
<1>1. CASE w = NoThread
  BY <1>1, MovedSelf DEF WakeWaiter
<1>2. CASE w # NoThread
  <2>1. T \in Bookkeeping(Threads, Details, Procs \cup {NoProc})
    BY DEF Good, ThrType
  <2>2. w \in Range(T.list["VANISH_WAIT"]) /\ w \in Threads
    BY <1>2, <2>1, FindWaiterListed
  <2> HIDE DEF w
  <2>3. T.state[w] = "VANISH_WAIT"
    BY <2>2, ListIdxFacts DEF Good, Agree
  <2>4. /\ Moved(T, AlterState(T, w, to, d), P,
                 IF to = "READY" THEN NoThread ELSE w)
        /\ RunningThread(AlterState(T, w, to, d)) = RunningThread(T)
    BY <1>0, <2>2, <2>3, AlterMoved
  <2>5. WakeWaiter(T, p) = AlterState(T, w, to, d)
    BY <1>0, <1>2 DEF WakeWaiter, w
  <2> QED BY <1>0, <2>4, <2>5
<1> QED BY <1>1, <1>2

-----------------------------------------------------------------------------
(***************************************************************************)
(* Steps of the system that move threads between lists and leave the       *)
(* tcb_lists and the TCBs under construction alone.                        *)
(***************************************************************************)

\* The caller, its process and its place in the lists.
LEMMA CoreMe ==
  ASSUME Core
  PROVE  /\ Me \in Threads /\ Mine \in Procs
         /\ thr.list["RUNNING"] = <<Me>> /\ thr.state[Me] = "RUNNING"
         /\ Me \notin Pending /\ Me \in Range(tcbs[Mine])
<1>1. /\ Me \in Threads /\ thr.list["RUNNING"] = <<Me>>
      /\ thr.state[Me] = "RUNNING" /\ Me \notin Pending
  BY RunningFacts DEF Core, Me
<1>2. Mine \in Procs
  BY <1>1 DEF Core, TcbInv, Mine
<1>3. Me \in Range(tcbs[Mine])
  BY <1>1, <1>2 DEF Core, TcbInv, Mine
<1> QED BY <1>1, <1>2, <1>3

\* The types of the parts of Core.
LEMMA CoreTypes ==
  ASSUME Core
  PROVE  /\ thr.state \in [Threads -> ListIdx \cup {"NEW"}]
         /\ thr.list \in [ListIdx -> Seq(Threads)]
         /\ thr.pcb \in [Threads -> Procs \cup {NoProc}]
         /\ tcbs \in [Procs -> Seq(Threads)]
         /\ lock \in [Procs -> Threads \cup {NoThread}]
         /\ op = [t \in Threads |-> op[t]]
         /\ node \in [Threads -> Threads \cup {NoThread}]
BY DEF Core, Good, ThrType, Bookkeeping

LEMMA IInvCore ==
  ASSUME IInv
  PROVE  Core
<1>1. op \in [Threads -> Ops]
  BY DEF IInv, TypeOK
<1>2. op = [t \in Threads |-> op[t]]
  BY <1>1
<1> QED BY <1>2 DEF IInv, TypeOK, Core

LEMMA MeFacts ==
  ASSUME IInv
  PROVE  /\ Me \in Threads /\ Mine \in Procs
         /\ thr.list["RUNNING"] = <<Me>> /\ thr.state[Me] = "RUNNING"
         /\ Me \notin Pending /\ Me \in Range(tcbs[Mine])
BY IInvCore, CoreMe

\* The types of the variables, as facts the steps below need.
LEMMA Types ==
  ASSUME IInv
  PROVE  /\ thr.state \in [Threads -> ListIdx \cup {"NEW"}]
         /\ thr.list \in [ListIdx -> Seq(Threads)]
         /\ thr.pcb \in [Threads -> Procs \cup {NoProc}]
         /\ tick \in 0..TickMod - 1
         /\ tcbs \in [Procs -> Seq(Threads)]
         /\ parent \in [Procs -> Procs \cup {NoProc}]
         /\ lock \in [Procs -> Threads \cup {NoThread}]
         /\ op \in [Threads -> Ops]
         /\ node \in [Threads -> Threads \cup {NoThread}]
BY DEF IInv, TypeOK

\* The threads that wait for their node to be linked are the same before and
\* after.
LEMMA PendingSame ==
  ASSUME Core, NEW o, NEW n,
         op' = [op EXCEPT ![Me] = o], node' = [node EXCEPT ![Me] = n],
         \/ o = op[Me] /\ n = node[Me]
         \/ op[Me] \notin Inserting /\ o \notin Inserting
  PROVE  Pending' = Pending
<1>1. Me \in Threads
  BY CoreMe
<1>2. \A t \in Threads : op'[t] \in Inserting <=> op[t] \in Inserting
  BY <1>1, CoreTypes
<1>3. \A t \in Threads : op[t] \in Inserting => node'[t] = node[t]
  BY <1>1, CoreTypes
<1>4. Pending = {node[t] : t \in {s \in Threads : op[s] \in Inserting}}
  BY DEF Pending, Inserting
<1>5. Pending' = {node'[t] : t \in {s \in Threads : op'[s] \in Inserting}}
  BY DEF Pending, Inserting
<1> QED BY <1>2, <1>3, <1>4, <1>5

\* Such a step keeps the core of the invariant, if the caller touches no lock
\* that another thread holds.
LEMMA CoreMoved ==
  ASSUME Core, NEW x, NEW o, NEW n \in Threads \cup {NoThread},
         Moved(thr, thr', Pending, x), tcbs' = tcbs,
         op' = [op EXCEPT ![Me] = o], node' = [node EXCEPT ![Me] = n],
         lock' \in [Procs -> Threads \cup {NoThread}],
         \A p \in Procs : lock'[p] # lock[p] => lock[p] \in {Me, NoThread},
         \/ o = op[Me] /\ n = node[Me]
         \/ op[Me] \notin Inserting /\ o \notin Inserting,
         o \in {"thread_fork_insert", "task_vanish_loop"} =>
           lock'[Mine] = Me /\ n \in Range(tcbs[Mine])
  PROVE  Core' /\ Pending' = Pending
<1> USE CoreTypes, CoreMe
<1>p. Pending' = Pending
  BY PendingSame
<1>g. /\ Good(thr', Pending') /\ thr'.pcb = thr.pcb
      /\ thr' \in ThrType
      /\ thr'.state \in [Threads -> ListIdx \cup {"NEW"}]
  BY <1>p DEF Moved, Good, ThrType, Bookkeeping
<1>s. \A t \in Threads : thr'.state[t] # thr.state[t] =>
        /\ t \notin Pending
        /\ thr.state[t] \in ListIdx \ {"TERMINATED"}
        /\ thr'.state[t] \in ListIdx
        /\ t = x \/ thr'.state[t] \in {"READY", "RUNNING"}
  BY DEF Moved
<1>n. "NEW" \notin ListIdx
  BY DEF ListIdx, Reasons
<1>m. Mine = thr.pcb[Me]
  BY DEF Mine
<1> HIDE DEF Mine, Me
<1>l. /\ op' = [t \in Threads |-> op'[t]]
      /\ op'[Me] = o /\ node'[Me] = n
      /\ \A t \in Threads : t # Me => op'[t] = op[t] /\ node'[t] = node[t]
      /\ node' \in [Threads -> Threads \cup {NoThread}]
  OBVIOUS
<1>2. TcbInv'
  <2>1. \A t \in Threads : thr'.state[t] = "NEW" <=> thr.state[t] = "NEW"
    BY <1>s, <1>n
  <2> QED BY <2>1, <1>g DEF Core, TcbInv
<1>4. HoldInv'
  <2> SUFFICES ASSUME NEW t \in Threads,
                 op'[t] \in {"thread_fork_insert", "task_vanish_loop"}
               PROVE  /\ lock'[thr'.pcb[t]] = t
                      /\ node'[t] \in Range(tcbs'[thr'.pcb[t]])
                      /\ op'[t] = "thread_fork_insert" =>
                           node'[t] = Last(tcbs'[thr'.pcb[t]])
    BY DEF HoldInv
  <2>1. CASE t = Me
    <3>1. op'[t] = o /\ node'[t] = n /\ thr'.pcb[t] = Mine
      BY <2>1, <1>g, <1>m, <1>l
    <3>2. lock'[Mine] = Me /\ n \in Range(tcbs[Mine])
      BY <3>1
    <3>3. op'[t] = "thread_fork_insert" => n = Last(tcbs[Mine])
      <4> SUFFICES ASSUME o = "thread_fork_insert" PROVE n = Last(tcbs[Mine])
        BY <3>1
      <4>1. op[Me] = "thread_fork_insert" /\ n = node[Me]
        BY DEF Inserting
      <4> QED BY <4>1, <1>m DEF Core, HoldInv
    <3> QED BY <2>1, <3>1, <3>2, <3>3
  <2>2. CASE t # Me
    <3>1. op'[t] = op[t] /\ node'[t] = node[t]
      BY <2>2, <1>l
    <3>2. /\ lock[thr.pcb[t]] = t /\ node[t] \in Range(tcbs[thr.pcb[t]])
          /\ op[t] = "thread_fork_insert" => node[t] = Last(tcbs[thr.pcb[t]])
      BY <3>1 DEF Core, HoldInv
    <3>3. thr.pcb[t] \in Procs
      <4>1. op[t] # "user"
        BY <3>1
      <4> QED BY <4>1 DEF Core, PendInv, TcbInv
    <3>4. lock'[thr.pcb[t]] = t
      BY <2>2, <3>2, <3>3, ThreadAssumption
    <3> QED BY <3>1, <3>2, <3>4, <1>g
  <2> QED BY <2>1, <2>2
<1>5. PendInv'
  <2>1. ASSUME NEW t \in Threads, op'[t] \in Inserting
        PROVE  /\ op[t] = op'[t] /\ node'[t] = node[t]
               /\ node[t] \in Threads /\ node[t] \in Pending
               /\ thr'.state[node[t]] = thr.state[node[t]]
    <3>1. op[t] = op'[t] /\ node'[t] = node[t]
      BY <2>1, <1>l
    <3>2. node[t] \in Threads
      BY <2>1, <3>1 DEF Core, PendInv
    <3>3. node[t] \in Pending
      BY <2>1, <3>1 DEF Pending, Inserting
    <3> QED BY <3>1, <3>2, <3>3, <1>s
  <2>2. \A t \in Threads : op'[t] \in Inserting =>
          node'[t] \in Threads /\ thr'.state[node'[t]] = "READY"
    BY <2>1 DEF Core, PendInv
  <2>3. \A u, t \in Threads :
          op'[u] \in Inserting /\ op'[t] \in Inserting /\ node'[u] = node'[t]
            => u = t
    BY <2>1 DEF Core, PendInv
  <2>4. \A t \in Threads : op'[t] = "fork_insert" =>
          Range(tcbs'[thr'.pcb[node'[t]]]) = {node'[t]}
    <3> SUFFICES ASSUME NEW t \in Threads, op'[t] = "fork_insert"
                 PROVE  Range(tcbs'[thr'.pcb[node'[t]]]) = {node'[t]}
      OBVIOUS
    <3>1. op[t] = "fork_insert" /\ node'[t] = node[t]
      BY <2>1 DEF Inserting
    <3>2. Range(tcbs[thr.pcb[node[t]]]) = {node[t]}
      BY <3>1 DEF Core, PendInv
    <3> QED BY <3>1, <3>2, <1>g
  <2>5. \A t \in Threads :
          thr'.state[t] = "NEW" \/ t \in Pending' => op'[t] = "user"
    <3> TAKE t \in Threads
    <3>1. thr'.state[t] = "NEW" => thr.state[t] = "NEW"
      BY <1>s, <1>n
    <3>2. thr.state[t] = "NEW" \/ t \in Pending => t # Me /\ op[t] = "user"
      BY DEF Core, PendInv
    <3> QED BY <3>1, <3>2, <1>p, <1>l
  <2> QED BY <2>2, <2>3, <2>4, <2>5 DEF PendInv
<1> QED BY <1>2, <1>4, <1>5, <1>g, <1>p, <1>l DEF Core

\* Such a step keeps the invariant if a thread that stops being runnable
\* holds no PCB lock, and locks are used as the code uses them.
LEMMA MovedPreserves ==
  ASSUME IInv, NEW x, NEW o \in Ops, NEW n \in Threads \cup {NoThread},
         NEW h \in {lock[Mine], Me, NoThread},
         Moved(thr, thr', Pending, x),
         tick' \in 0..TickMod - 1, parent' = parent, tcbs' = tcbs,
         op' = [op EXCEPT ![Me] = o], node' = [node EXCEPT ![Me] = n],
         lock' = [lock EXCEPT ![Mine] = h],
         h # lock[Mine] => lock[Mine] \in {Me, NoThread},
         \/ o = op[Me] /\ n = node[Me]
         \/ op[Me] \notin Inserting /\ o \notin Inserting,
         h = Me => o \in LockingCalls \cup
                          {"thread_fork_insert", "task_vanish_loop"},
         o \in {"thread_fork_insert", "task_vanish_loop"} =>
           h = Me /\ n \in Range(tcbs[Mine]),
         x \in Threads => Own(x) /\ h # x
  PROVE  IInv' /\ Kept
<1> USE Types, MeFacts
<1>c. Core' /\ Pending' = Pending
  <2>1. lock' \in [Procs -> Threads \cup {NoThread}]
    BY DEF Mine
  <2>2. \A p \in Procs : lock'[p] # lock[p] => lock[p] \in {Me, NoThread}
    OBVIOUS
  <2>3. o \in {"thread_fork_insert", "task_vanish_loop"} =>
          lock'[Mine] = Me /\ n \in Range(tcbs[Mine])
    OBVIOUS
  <2> QED BY <2>1, <2>2, <2>3, IInvCore, CoreMoved
<1>p. Pending' = Pending
  BY <1>c
<1>g. /\ Good(thr', Pending') /\ thr'.pcb = thr.pcb
      /\ thr' \in ThrType
      /\ thr'.state \in [Threads -> ListIdx \cup {"NEW"}]
  BY <1>p DEF Moved, Good, ThrType, Bookkeeping
<1>s. \A t \in Threads : thr'.state[t] # thr.state[t] =>
        /\ t \notin Pending
        /\ thr.state[t] \in ListIdx \ {"TERMINATED"}
        /\ thr'.state[t] \in ListIdx
        /\ t = x \/ thr'.state[t] \in {"READY", "RUNNING"}
  BY DEF Moved
<1>m. Mine = thr.pcb[Me]
  BY DEF Mine
<1> HIDE DEF Mine, Me
<1>l. /\ lock' \in [Procs -> Threads \cup {NoThread}]
      /\ op' \in [Threads -> Ops]
      /\ node' \in [Threads -> Threads \cup {NoThread}]
  OBVIOUS
<1>1. TypeOK'
  BY <1>g, <1>l DEF TypeOK, ThrType, Bookkeeping
<1>3. LockInv'
  <2> SUFFICES ASSUME NEW p \in Procs, lock'[p] # NoThread
               PROVE  /\ thr'.pcb[lock'[p]] = p
                      /\ thr'.state[lock'[p]] \in {"READY", "RUNNING"}
                      /\ op'[lock'[p]] \in LockingCalls \cup
                           {"thread_fork_insert", "task_vanish_loop"}
    BY DEF LockInv
  <2> DEFINE k == lock'[p]
  <2>0. k \in Threads
    BY <1>l
  <2>1. CASE p = Mine /\ h = Me
    <3>1. k = Me
      BY <2>1
    <3>2. thr'.state[Me] \in {"READY", "RUNNING"}
      BY <1>s, <2>1
    <3> QED BY <3>1, <3>2, <2>1, <1>g, <1>m
  <2>2. CASE ~(p = Mine /\ h = Me)
    <3>1. k = lock[p] /\ k # Me
      <4>1. k = lock[p]
        BY <2>2
      <4>2. ASSUME k = Me PROVE FALSE
        <5>1. thr.pcb[Me] = p
          BY <4>1, <4>2, <2>0, ThreadAssumption DEF IInv, LockInv
        <5> QED BY <5>1, <4>1, <4>2, <2>2, <1>m
      <4> QED BY <4>1, <4>2
    <3>2. /\ thr.pcb[k] = p /\ thr.state[k] \in {"READY", "RUNNING"}
          /\ op[k] \in LockingCalls \cup
               {"thread_fork_insert", "task_vanish_loop"}
      BY <3>1 DEF IInv, LockInv
    <3>3. k # x
      <4> SUFFICES ASSUME k = x PROVE FALSE
        OBVIOUS
      <4>1. p = Mine /\ h # k
        BY <2>0, <3>2 DEF Own
      <4> QED BY <4>1
    <3>4. op'[k] = op[k]
      BY <3>1, <2>0
    <3>5. thr'.state[k] \in {"READY", "RUNNING"}
      BY <3>2, <3>3, <2>0, <1>s
    <3> QED BY <3>2, <3>4, <3>5, <1>g
  <2> QED BY <2>1, <2>2
<1>6. Kept
  <2>1. Ordered(thr) => Ordered(thr')
    BY DEF Moved
  <2>2. ASSUME NEW t \in Threads, thr.state[t] = "TERMINATED"
        PROVE  thr'.state[t] = "TERMINATED"
    BY <2>2, <1>s
  <2>3. ASSUME NEW t \in Threads, thr.state[t] \in {"READY", "RUNNING"},
               thr'.state[t] \notin {"READY", "RUNNING"}
        PROVE  Own(t)
    <3>1. t = x
      BY <2>3, <1>s
    <3> QED BY <3>1
  <2> QED BY <2>1, <2>2, <2>3 DEF Kept
<1> QED BY <1>1, <1>3, <1>6, <1>c DEF IInv, Core

-----------------------------------------------------------------------------
(***************************************************************************)
(* The actions.                                                            *)
(***************************************************************************)

LEMMA NextTickType ==
  ASSUME IInv
  PROVE  NextTick \in 0..TickMod - 1
BY Types, TickAssumption DEF NextTick

\* Only the thread lists and the clock change.
LEMMA LocalStep ==
  ASSUME IInv, Moved(thr, thr', Pending, NoThread),
         tick' \in 0..TickMod - 1, UNCHANGED <<tcbs, parent, lock, op, node>>
  PROVE  IInv' /\ Kept
<1>1. PICK o \in Ops, n \in Threads \cup {NoThread},
           h \in {lock[Mine], Me, NoThread} :
         o = op[Me] /\ n = node[Me] /\ h = lock[Mine]
  BY Types, MeFacts
<1>2. /\ op' = [op EXCEPT ![Me] = o] /\ node' = [node EXCEPT ![Me] = n]
      /\ lock' = [lock EXCEPT ![Mine] = h]
  BY <1>1, Types, MeFacts
<1>3. h = Me => o \in LockingCalls \cup
                        {"thread_fork_insert", "task_vanish_loop"}
  <2>1. LockInv /\ Mine \in Procs /\ Me # NoThread
    BY MeFacts, ThreadAssumption DEF IInv
  <2>2. lock[Mine] = Me => op[Me] \in LockingCalls \cup
                              {"thread_fork_insert", "task_vanish_loop"}
    BY ONLY <2>1 DEF LockInv
  <2> QED BY <1>1, <2>2
<1>4. o \in {"thread_fork_insert", "task_vanish_loop"} =>
        h = Me /\ n \in Range(tcbs[Mine])
  BY <1>1, MeFacts DEF IInv, HoldInv, Mine
<1>5. PICK x : x = NoThread
  OBVIOUS
<1>6. x \in Threads => Own(x) /\ h # x
  BY <1>5, ThreadAssumption
<1> QED BY <1>1, <1>2, <1>3, <1>4, <1>5, <1>6, MovedPreserves

\* handle_timer stops nobody.
LEMMA TimerMoved ==
  ASSUME Core, Timer
  PROVE  Moved(thr, thr', Pending, NoThread)
<1>1. Good(thr, Pending)
  BY DEF Core
<1>2. CASE SleeperDue(NextTick)
  <2>1. PICK l \in ListIdx \ {"RUNNING", "TERMINATED"},
             to \in ListIdx \ {"RUNNING"},
             d \in Details : l = "SLEEP" /\ to = "READY" /\ d = NoDetail
    BY ListIdxFacts, NoDetailType
  <2>2. Head(thr.list[l]) \in Range(thr.list[l])
    <3>1. thr.list[l] \in Seq(Threads) /\ thr.list[l] # <<>>
      BY <1>2, <2>1, CoreTypes DEF SleeperDue
    <3> QED BY <3>1, HeadInRange
  <2>3. Moved(thr, SwitchContext(thr, Head(thr.list[l]), to, d), Pending,
              IF to = "READY" THEN NoThread ELSE RunningThread(thr))
    BY <1>1, <2>2, SwitchGood
  <2> QED BY <1>2, <2>1, <2>3 DEF Timer
<1>3. CASE ~SleeperDue(NextTick)
  BY <1>1, <1>3, TakeTurnMoved DEF Timer
<1> QED BY <1>2, <1>3

LEMMA TimerPreserves ==
  ASSUME IInv, Timer
  PROVE  IInv' /\ Kept
BY TimerMoved, IInvCore, LocalStep, NextTickType DEF Timer

LEMMA YieldPreserves ==
  ASSUME IInv, NEW t, Yield(t)
  PROVE  IInv' /\ Kept
<1>1. Moved(thr, thr', Pending, NoThread)
  BY TakeTurnMoved, YieldToMoved DEF Yield, IInv
<1>2. tick' \in 0..TickMod - 1
  BY Types DEF Yield
<1> QED BY <1>1, <1>2, LocalStep DEF Yield

LEMMA MakeRunnablePreserves ==
  ASSUME IInv, NEW t \in Threads, MakeRunnable(t)
  PROVE  IInv' /\ Kept
<1>1. PICK to \in ListIdx \ {"RUNNING"}, d \in Details :
         to = "READY" /\ d = NoDetail
  BY ListIdxFacts, NoDetailType
<1>2. thr.state[t] = "DESCHEDULE"
  BY ListIdxFacts DEF MakeRunnable, IInv, Good, Agree
<1>3. Moved(thr, AlterState(thr, t, to, d), Pending,
            IF to = "READY" THEN NoThread ELSE t)
  BY <1>1, <1>2, AlterMoved DEF IInv
<1>4. Moved(thr, thr', Pending, NoThread)
  BY <1>1, <1>3 DEF MakeRunnable
<1>5. tick' \in 0..TickMod - 1
  BY Types DEF MakeRunnable
<1> QED BY <1>4, <1>5, LocalStep DEF MakeRunnable

\* The lists do not change; the caller moves on in its call.
LEMMA CallStep ==
  ASSUME IInv, NEW o \in Ops \ (Inserting \cup {"task_vanish_loop"}),
         op[Me] \notin Inserting, op' = [op EXCEPT ![Me] = o],
         NEW h \in {lock[Mine], NoThread}, lock' = [lock EXCEPT ![Mine] = h],
         h # lock[Mine] => lock[Mine] \in {Me, NoThread},
         h = Me => o \in LockingCalls,
         NEW n \in Threads \cup {NoThread}, node' = [node EXCEPT ![Me] = n],
         NEW x, Moved(thr, thr', Pending, x),
         x \in Threads => Own(x) /\ h # x,
         UNCHANGED <<tick, tcbs, parent>>
  PROVE  IInv' /\ Kept
<1>1. o \notin {"thread_fork_insert", "task_vanish_loop"} /\ o \in Ops
      /\ o \notin Inserting
  BY DEF Inserting
<1>2. tick' \in 0..TickMod - 1
  BY Types
<1> QED BY <1>1, <1>2, MovedPreserves

LEMMA CallPreserves ==
  ASSUME IInv, NEW q \in Calls, Call(q)
  PROVE  IInv' /\ Kept
<1>1. PICK o \in Ops \ (Inserting \cup {"task_vanish_loop"}),
           h \in {lock[Mine], NoThread}, n \in Threads \cup {NoThread},
           x \in Threads \cup {NoThread} :
         o = q /\ h = lock[Mine] /\ n = node[Me] /\ x = NoThread
  BY CallAssumption, Types, MeFacts DEF LockingCalls, Ops, Inserting
<1>2. op[Me] \notin Inserting /\ op' = [op EXCEPT ![Me] = o]
  BY <1>1 DEF Call, Goto, Inserting
<1>3. lock' = [lock EXCEPT ![Mine] = h] /\ node' = [node EXCEPT ![Me] = n]
  BY <1>1, Types, MeFacts DEF Call
<1>4. h # Me
  BY <1>1, MeFacts, ThreadAssumption DEF Call, IInv, LockInv, LockingCalls
<1>5. Moved(thr, thr', Pending, x)
  BY MovedSelf DEF IInv, Call
<1>6. x \in Threads => Own(x) /\ h # x
  BY <1>1, ThreadAssumption
<1>7. UNCHANGED <<tick, tcbs, parent>>
  BY DEF Call
<1> QED BY <1>1, <1>2, <1>3, <1>4, <1>5, <1>6, <1>7, CallStep

\* mutex_lock: the free lock is taken by a thread of the process.
LEMMA MutexLockPreserves ==
  ASSUME IInv, MutexLock
  PROVE  IInv' /\ Kept
<1>0. /\ op[Me] \in LockingCalls /\ UNCHANGED <<tick, tcbs, parent, op, node>>
      /\ tick' \in 0..TickMod - 1
  BY Types DEF MutexLock
<1>1. CASE lock[Mine] = NoThread /\ lock' = [lock EXCEPT ![Mine] = Me]
           /\ UNCHANGED thr
  <2>1. PICK o \in Ops, n \in Threads \cup {NoThread},
             h \in {lock[Mine], Me, NoThread}, x \in Threads \cup {NoThread} :
           o = op[Me] /\ n = node[Me] /\ h = Me /\ x = NoThread
    BY Types, MeFacts
  <2>2. /\ op' = [op EXCEPT ![Me] = o] /\ node' = [node EXCEPT ![Me] = n]
        /\ lock' = [lock EXCEPT ![Mine] = h]
    BY <1>0, <1>1, <2>1, Types, MeFacts
  <2>3. o \in LockingCalls
        /\ o \notin {"thread_fork_insert", "task_vanish_loop"}
    BY <1>0, <2>1 DEF LockingCalls
  <2>4. Moved(thr, thr', Pending, x)
    BY <1>1, MovedSelf DEF IInv
  <2>5. x \in Threads => Own(x) /\ h # x
    BY <2>1, ThreadAssumption
  <2> QED BY <1>0, <1>1, <2>1, <2>2, <2>3, <2>4, <2>5, MovedPreserves
<1>2. CASE /\ thr' = YieldTo(thr, lock[Mine]) \/ thr' = TakeTurn(thr)
           /\ UNCHANGED lock
  <2>1. Moved(thr, thr', Pending, NoThread)
    BY <1>2, YieldToMoved, TakeTurnMoved DEF IInv
  <2> QED BY <1>0, <1>2, <2>1, LocalStep
<1> QED BY <1>1, <1>2 DEF MutexLock, SpinLock

\* A caller that holds its PCB lock in a blocking call or in vanish finds no
\* TCB under construction in its process.
LEMMA NoPendingSibling ==
  ASSUME Core, lock[Mine] = Me, op[Me] # "thread_fork_insert"
  PROVE  Range(tcbs[Mine]) \cap Pending = {}
<1> SUFFICES ASSUME NEW t \in Threads, op[t] \in Inserting,
                    node[t] \in Range(tcbs[Mine])
             PROVE  FALSE
  BY DEF Pending, Inserting
<1>1. node[t] \in Threads /\ node[t] \in Pending
  BY DEF Core, PendInv, Pending, Inserting
<1>2. thr.pcb[node[t]] = Mine
  BY <1>1, CoreMe DEF Core, TcbInv
<1>3. CASE op[t] = "thread_fork_insert"
  <2>1. /\ lock[thr.pcb[t]] = t /\ node[t] \in Range(tcbs[thr.pcb[t]])
    BY <1>3 DEF Core, HoldInv
  <2>2. thr.pcb[t] \in Procs
    BY <1>3 DEF Core, PendInv, TcbInv
  <2>3. thr.pcb[t] = Mine
    BY <1>1, <1>2, <2>1, <2>2 DEF Core, TcbInv
  <2> QED BY <1>3, <2>1, <2>3
<1>4. CASE op[t] = "fork_insert"
  <2>1. Range(tcbs[Mine]) = {node[t]}
    BY <1>2, <1>4 DEF Core, PendInv
  <2> QED BY <2>1, <1>1, CoreMe
<1> QED BY <1>3, <1>4 DEF Inserting

\* A blocking call with the PCB lock held.
LEMMA BlockMoved ==
  ASSUME Core, lock[Mine] = Me, op[Me] # "thread_fork_insert",
         NEW to \in ListIdx \ {"RUNNING", "READY"}, NEW d \in Details,
         FindNextThread(thr, tcbs[Mine]) # NoThread
  PROVE  /\ Moved(thr, SwitchContext(FindNextRotate(thr, tcbs[Mine]),
                                     FindNextThread(thr, tcbs[Mine]), to, d),
                  Pending, Me)
         /\ SwitchContext(FindNextRotate(thr, tcbs[Mine]),
                          FindNextThread(thr, tcbs[Mine]), to, d).state[Me] = to
<1> DEFINE F == FindNextRotate(thr, tcbs[Mine])
           nx == FindNextThread(thr, tcbs[Mine])
<1>1. /\ thr \in Bookkeeping(Threads, Details, Procs \cup {NoProc})
      /\ Agree(thr, Pending, Threads) /\ NoThread \notin Threads
      /\ tcbs[Mine] \in Seq(Threads) /\ Good(thr, Pending)
      /\ Range(tcbs[Mine]) \cap Pending = {}
  BY NoPendingSibling, ThreadAssumption, CoreTypes, CoreMe
     DEF Core, Good, ThrType
<1>2. nx \in Range(thr.list["READY"])
  <2>1. PICK s \in Seq(Threads) : s = tcbs[Mine]
    BY <1>1
  <2>2. Range(s) \cap Pending = {} /\ FindNextThread(thr, s) # NoThread
    BY <1>1, <2>1
  <2>3. FindNextThread(thr, s) \in Range(thr.list["READY"])
    BY <1>1, <2>2, FindNextThreadListed
  <2> QED BY <2>1, <2>3
<1>3. /\ Moved(thr, F, Pending, NoThread)
      /\ Reordered(thr, F)
      /\ RunningThread(F) = RunningThread(thr)
  <2>1. CASE F = thr
    <3>1. Reordered(thr, thr)
      BY DEF Reordered
    <3> QED BY <1>1, <2>1, <3>1, MovedSelf
  <2>2. CASE F = Rotate(thr)
    BY <1>1, <2>2, RotateGood
  <2> QED BY <2>1, <2>2 DEF FindNextRotate
<1>4. nx \in Range(F.list["READY"]) /\ Good(F, Pending)
  BY <1>2, <1>3, ListIdxFacts DEF Reordered, Moved
<1>5. PICK l \in ListIdx \ {"RUNNING", "TERMINATED"} : l = "READY"
  BY ListIdxFacts
<1>6. to \in ListIdx \ {"RUNNING"} /\ to # "READY"
  OBVIOUS
<1> HIDE DEF F, nx
<1>7. Moved(F, SwitchContext(F, nx, to, d), Pending,
            IF to = "READY" THEN NoThread ELSE RunningThread(F))
  BY <1>4, <1>5, <1>6, SwitchGood
<1>8. Moved(F, SwitchContext(F, nx, to, d), Pending, RunningThread(F))
  BY <1>6, <1>7
<1>9. Moved(thr, SwitchContext(F, nx, to, d), Pending, RunningThread(F))
  BY <1>3, <1>8, MovedTrans
<1>10. SwitchContext(F, nx, to, d).state[RunningThread(F)] = to
  BY <1>4, <1>5, <1>6, SwitchLeaves
<1> QED BY <1>3, <1>9, <1>10 DEF F, nx, Me

\* The caller gives up the lock and the processor.
LEMMA LeaveStep ==
  ASSUME IInv, lock[Mine] = Me, op[Me] \notin Inserting,
         Moved(thr, thr', Pending, Me), Unlock, Goto("user"),
         UNCHANGED <<tick, tcbs, parent, node>>
  PROVE  IInv' /\ Kept
<1>1. PICK o \in Ops \ (Inserting \cup {"task_vanish_loop"}),
           h \in {lock[Mine], NoThread}, n \in Threads \cup {NoThread},
           x \in Threads \cup {NoThread} :
         o = "user" /\ h = NoThread /\ n = node[Me] /\ x = Me
  BY Types, MeFacts DEF Ops, Inserting
<1>2. /\ op' = [op EXCEPT ![Me] = o] /\ lock' = [lock EXCEPT ![Mine] = h]
      /\ node' = [node EXCEPT ![Me] = n]
  BY <1>1, Types, MeFacts DEF Unlock, Goto
<1>3. h # Me /\ (x \in Threads => Own(x) /\ h # x)
  BY <1>1, MeFacts, ThreadAssumption DEF Mine, Own
<1>4. Moved(thr, thr', Pending, x)
  BY <1>1
<1> QED BY <1>1, <1>2, <1>3, <1>4, CallStep

LEMMA BlockPreserves ==
  ASSUME IInv, lock[Mine] = Me, op[Me] \in LockingCalls,
         NEW to \in ListIdx \ {"RUNNING", "READY"}, NEW d \in Details,
         Block(to, d)
  PROVE  IInv' /\ Kept
<1>1. op[Me] \notin Inserting /\ op[Me] # "thread_fork_insert"
  BY DEF LockingCalls, Inserting
<1>2. Moved(thr, thr', Pending, Me)
  BY <1>1, IInvCore, BlockMoved DEF Block
<1> QED BY <1>1, <1>2, LeaveStep DEF Block

LEMMA SleepPreserves ==
  ASSUME IInv, NEW n \in SleepArgs, Sleep(n)
  PROVE  IInv' /\ Kept
<1>1. (tick + n) % TickMod \in 0..TickMod - 1
  BY TickAssumption, Types
<1>2. PICK to \in ListIdx \ {"RUNNING", "READY"}, d \in Details :
         to = "SLEEP"
         /\ d = [wakeup_time |-> (tick + n) % TickMod, first_reader |-> FALSE]
  BY <1>1, ListIdxFacts DEF Details
<1>3. lock[Mine] = Me /\ op[Me] \in LockingCalls /\ Block(to, d)
  BY <1>2 DEF Sleep, Holding, LockingCalls
<1> QED BY <1>3, BlockPreserves

\* The caller only releases the lock and returns, or moves on.
LEMMA UnlockStep ==
  ASSUME IInv, lock[Mine] = Me, op[Me] \notin Inserting, Unlock,
         NEW o \in Ops \ (Inserting \cup {"task_vanish_loop"}), Goto(o),
         UNCHANGED <<thr, tick, tcbs, parent, node>>
  PROVE  IInv' /\ Kept
<1>1. PICK h \in {lock[Mine], NoThread}, n \in Threads \cup {NoThread},
           x \in Threads \cup {NoThread} :
         h = NoThread /\ n = node[Me] /\ x = NoThread
  BY Types, MeFacts
<1>2. /\ op' = [op EXCEPT ![Me] = o] /\ lock' = [lock EXCEPT ![Mine] = h]
      /\ node' = [node EXCEPT ![Me] = n]
  BY <1>1, Types, MeFacts DEF Unlock, Goto
<1>3. h # Me /\ (x \in Threads => Own(x) /\ h # x)
  BY <1>1, MeFacts, ThreadAssumption
<1>4. Moved(thr, thr', Pending, x)
  BY MovedSelf DEF IInv
<1> QED BY <1>1, <1>2, <1>3, <1>4, CallStep

LEMMA DeschedulePreserves ==
  ASSUME IInv, NEW reject, Deschedule(reject)
  PROVE  IInv' /\ Kept
<1>1. lock[Mine] = Me /\ op[Me] \in LockingCalls /\ op[Me] \notin Inserting
  BY DEF Deschedule, Holding, LockingCalls, Inserting
<1>2. PICK to \in ListIdx \ {"RUNNING", "READY"}, d \in Details,
           o \in Ops \ (Inserting \cup {"task_vanish_loop"}) :
         to = "DESCHEDULE" /\ d = NoDetail /\ o = "user"
  BY ListIdxFacts, NoDetailType DEF Ops, Inserting
<1>3. CASE Unlock /\ Goto("user") /\ UNCHANGED <<thr, tick, tcbs, parent, node>>
  BY <1>1, <1>2, <1>3, UnlockStep
<1>4. CASE Block("DESCHEDULE", NoDetail)
  BY <1>1, <1>2, <1>4, BlockPreserves
<1> QED BY <1>3, <1>4 DEF Deschedule

LEMMA VanishThreadPreserves ==
  ASSUME IInv, VanishThread
  PROVE  IInv' /\ Kept
<1>1. PICK to \in ListIdx \ {"RUNNING", "READY"}, d \in Details :
         to = "TERMINATED" /\ d = NoDetail
  BY ListIdxFacts, NoDetailType
<1>2. lock[Mine] = Me /\ op[Me] \in LockingCalls /\ Block(to, d)
  BY <1>1 DEF VanishThread, Holding, LockingCalls
<1> QED BY <1>2, BlockPreserves

\* handle_vanish of the last thread: the waiter that wakes first is runnable
\* when the caller hands the processor over.
LEMMA VanishLastMoved ==
  ASSUME Core, VanishLast
  PROVE  \E W : /\ W = WakeWaiter(thr, parent[Mine])
                /\ Moved(thr, W, Pending, NoThread)
                /\ Moved(W, thr', Pending, Me)
                /\ Moved(thr, thr', Pending, Me)
                /\ thr'.state[Me] = "TERMINATED"
<1>1. PICK to \in ListIdx \ {"RUNNING"}, d \in Details :
         to = "TERMINATED" /\ d = NoDetail
  BY ListIdxFacts, NoDetailType
<1>2. PICK W : W = WakeWaiter(thr, parent[Mine])
  OBVIOUS
<1>3. /\ Moved(thr, W, Pending, NoThread) /\ Good(W, Pending)
      /\ RunningThread(W) = Me
  BY <1>2, WakeWaiterMoved DEF Core, Moved, Me
<1>4. RoundRobin(W) # NoThread
      /\ thr' = SwitchContext(Rotate(W), RoundRobin(W), to, d)
  BY <1>1, <1>2 DEF VanishLast
<1>5. Moved(W, SwitchContext(Rotate(W), RoundRobin(W), to, d), Pending,
            IF to = "READY" THEN NoThread ELSE RunningThread(W))
  BY <1>3, <1>4, TurnMoved
<1>6. Moved(W, thr', Pending, Me)
  BY <1>1, <1>3, <1>4, <1>5
<1>7. Moved(thr, thr', Pending, Me)
  BY <1>3, <1>6, MovedTrans
<1>8. thr'.state[Me] = "TERMINATED"
  BY <1>1, <1>3, <1>4, TurnMoved
<1> QED BY <1>2, <1>3, <1>6, <1>7, <1>8

LEMMA VanishLastPreserves ==
  ASSUME IInv, VanishLast
  PROVE  IInv' /\ Kept
<1>1. Moved(thr, thr', Pending, Me)
  BY VanishLastMoved, IInvCore
<1>2. lock[Mine] = Me /\ op[Me] \notin Inserting
  BY DEF VanishLast, Holding, Inserting
<1> QED BY <1>1, <1>2, LeaveStep DEF VanishLast

LEMMA ForkCheckPreserves ==
  ASSUME IInv, ForkCheck
  PROVE  IInv' /\ Kept
<1>1. lock[Mine] = Me /\ op[Me] \notin Inserting
  BY DEF ForkCheck, Holding, Inserting
<1>2. PICK o \in Ops \ (Inserting \cup {"task_vanish_loop"}) :
         o = IF AliveCount(Mine) = 1 THEN "fork_build" ELSE "user"
  BY DEF Ops, Places, Inserting
<1>3. Goto(o) /\ Unlock /\ UNCHANGED <<thr, tick, tcbs, parent, node>>
  BY <1>2 DEF ForkCheck
<1> QED BY <1>1, <1>3, UnlockStep

LEMMA HeadTcb ==
  ASSUME Core
  PROVE  Head(tcbs[Mine]) \in Range(tcbs[Mine]) /\ Head(tcbs[Mine]) \in Threads
<1>1. tcbs[Mine] \in Seq(Threads) /\ Me \in Range(tcbs[Mine])
  BY CoreTypes, CoreMe
<1>2. tcbs[Mine] # <<>>
  BY <1>1 DEF Range
<1> QED BY <1>1, <1>2, HeadInRange

LEMMA TaskVanishBeginPreserves ==
  ASSUME IInv, TaskVanishBegin
  PROVE  IInv' /\ Kept
<1>1. lock[Mine] = Me /\ op[Me] \notin Inserting
  BY DEF TaskVanishBegin, Holding, Inserting
<1>2. Head(tcbs[Mine]) \in Range(tcbs[Mine]) /\ Head(tcbs[Mine]) \in Threads
  BY HeadTcb, IInvCore
<1>3. PICK o \in Ops, n \in Threads \cup {NoThread},
           h \in {lock[Mine], Me, NoThread}, x \in Threads \cup {NoThread} :
         /\ o = "task_vanish_loop" /\ n = Head(tcbs[Mine])
         /\ h = lock[Mine] /\ x = NoThread
  BY <1>2 DEF Ops, Places
<1>4. /\ op' = [op EXCEPT ![Me] = o] /\ node' = [node EXCEPT ![Me] = n]
      /\ lock' = [lock EXCEPT ![Mine] = h]
  BY <1>3, Types, MeFacts DEF TaskVanishBegin, Goto
<1>5. /\ Moved(thr, thr', Pending, x) /\ tick' \in 0..TickMod - 1
      /\ tcbs' = tcbs /\ parent' = parent
  BY Types, MovedSelf DEF TaskVanishBegin, IInv
<1>6. x \in Threads => Own(x) /\ h # x
  BY <1>3, ThreadAssumption
<1>7. o \notin Inserting /\ o \in {"thread_fork_insert", "task_vanish_loop"}
  BY <1>3 DEF Inserting
<1>8. h = Me /\ n \in Range(tcbs[Mine])
  BY <1>1, <1>2, <1>3
<1> QED BY <1>1, <1>3, <1>4, <1>5, <1>6, <1>7, <1>8, MovedPreserves

\* alter_state of a terminated thread to TERMINATED.
LEMMA ReterminateMoved ==
  ASSUME NEW P, NEW T, Good(T, P), NEW t \in Threads,
         NEW to, to = "TERMINATED", T.state[t] = to, NEW d
  PROVE  Moved(T, AlterState(T, t, to, d), P, NoThread)
<1> DEFINE R == AlterState(T, t, to, d)
           s == T.list[to]
           rest == RemoveFirst(s, t)
           r == IF Head(s) = t THEN rest ELSE Append(rest, t)
           L == [T.list EXCEPT ![to] = r]
           D == [T.detail EXCEPT ![t] = NoDetail]
<1>0. to \in ListIdx /\ to # "RUNNING" /\ to \notin Reasons
  BY DEF ListIdx, Reasons
<1>1. /\ T.list \in [ListIdx -> Seq(Threads)]
      /\ T.state \in [Threads -> ListIdx \cup {"NEW"}]
      /\ T.detail \in [Threads -> Details]
      /\ T.pcb \in [Threads -> Procs \cup {NoProc}]
      /\ s \in Seq(Threads) /\ IsInjective(s) /\ Agree(T, P, Threads)
  BY <1>0 DEF Good, ThrType, Bookkeeping, Agree
<1>2. CASE t \notin Range(s)
  BY <1>2, MovedSelf DEF AlterState
<1>3. CASE t \in Range(s)
  <2>1. /\ rest \in Seq(Threads) /\ IsInjective(rest)
        /\ Range(rest) = Range(s) \ {t}
    <3> HIDE DEF s
    <3> QED BY <1>1, <1>3, RemoveFirstProperties
  <2> HIDE DEF rest
  <2>2. /\ Append(rest, t) \in Seq(Threads) /\ IsInjective(Append(rest, t))
        /\ Range(Append(rest, t)) = Range(rest) \cup {t}
    <3>1. t \notin Range(rest)
      BY <2>1
    <3> QED BY <2>1, <3>1, AppendNew
  <2>3. r \in Seq(Threads) /\ IsInjective(r) /\ Range(r) \subseteq Range(s)
    BY <1>3, <2>1, <2>2
  <2>4. Relink(T, t, to, d) = L
    BY <1>1 DEF Relink, rest
  <2>5. [T.state EXCEPT ![t] = to] = T.state
    BY <1>1
  <2>6. R = [list |-> L, state |-> T.state, detail |-> D, pcb |-> T.pcb]
    BY <1>0, <1>3, <2>4, <2>5 DEF AlterState
  <2> HIDE DEF r
  <2>7. /\ L \in [ListIdx -> Seq(Threads)] /\ L[to] = r
        /\ \A l \in ListIdx : l # to => L[l] = T.list[l]
        /\ D \in [Threads -> Details]
    BY <1>0, <1>1, <2>3, NoDetailType
  <2> HIDE DEF L, D
  <2>8. /\ R.list = L /\ R.state = T.state /\ R.pcb = T.pcb /\ R \in ThrType
    BY <1>1, <2>6, <2>7 DEF ThrType, Bookkeeping
  <2> HIDE DEF R
  <2>9. Agree(R, P, Threads)
    <3>1. \A l \in ListIdx : IsInjective(L[l])
      BY <1>1, <2>3, <2>7 DEF Agree
    <3>2. \A l \in ListIdx : Range(L[l]) \subseteq Range(T.list[l])
      BY <2>3, <2>7
    <3>3. \A l \in ListIdx : l # "TERMINATED" => L[l] = T.list[l]
      BY <2>7
    <3> QED BY <1>1, <2>8, <3>1, <3>2, <3>3, ZenonT(30) DEF Agree
  <2>10. R.list["RUNNING"] = T.list["RUNNING"]
    BY <1>0, <2>7, <2>8, ListIdxFacts
  <2>11. Good(R, P)
    BY <2>8, <2>9, <2>10 DEF Good
  <2>12. Ordered(T) => Ordered(R)
    <3>1. /\ R.list["SLEEP"] = T.list["SLEEP"]
          /\ R.list["READY"] = T.list["READY"]
      BY <1>0, <2>7, <2>8, ListIdxFacts
    <3>2. t \notin Range(T.list["SLEEP"])
      BY <1>1, ListIdxFacts DEF Agree
    <3>3. \A v \in Range(T.list["SLEEP"]) : D[v] = T.detail[v]
      <4>1. T.list["SLEEP"] \in Seq(Threads)
        BY <1>1, ListIdxFacts
      <4>2. \A v \in Threads \ {t} : D[v] = T.detail[v]
        BY <1>1 DEF D
      <4> QED BY <3>2, <4>1, <4>2, RangeOfSeq
    <3>4. R.detail = D
      BY <2>6 DEF R
    <3>5. PICK s0 \in Seq(Threads) : s0 = T.list["SLEEP"]
      BY <1>1, ListIdxFacts
    <3>6. Sorted(s0, T.detail) => Sorted(s0, D)
      BY <3>3, <3>5, SortedSame
    <3> QED BY <2>8, <3>1, <3>4, <3>5, <3>6 DEF Ordered
  <2> QED BY <2>8, <2>11, <2>12 DEF Moved, R
<1> QED BY <1>2, <1>3

\* One iteration of task_vanish terminates at most the sibling it looks at.
LEMMA TaskVanishMoved ==
  ASSUME Core, TaskVanishStep
  PROVE  /\ lock[Mine] = Me /\ node[Me] \in Range(tcbs[Mine])
         /\ node[Me] \in Threads /\ thr.pcb[node[Me]] = Mine
         /\ \E x \in {node[Me], NoThread} :
              x # Me /\ Moved(thr, thr', Pending, x)
<1> DEFINE u == node[Me]
<1>1. op[Me] = "task_vanish_loop"
  BY DEF TaskVanishStep
<1>2. lock[Mine] = Me /\ u \in Range(tcbs[Mine])
  BY <1>1, CoreMe DEF Core, HoldInv, Mine
<1>3. u \in Threads /\ thr.pcb[u] = Mine
  <2>1. tcbs[Mine] \in Seq(Threads)
    BY CoreTypes, CoreMe
  <2>2. u \in Threads
    BY <1>2, <2>1, RangeOfSeq
  <2> QED BY <1>2, <2>2, CoreMe DEF Core, TcbInv
<1>4. \E x \in {u, NoThread} : x # Me /\ Moved(thr, thr', Pending, x)
  <2>1. CASE u = Me
    <3>1. thr' = thr
      BY <2>1 DEF TaskVanishStep
    <3>2. Moved(thr, thr', Pending, NoThread)
      BY <3>1, MovedSelf DEF Core
    <3> QED BY <3>2, CoreMe, ThreadAssumption
  <2>2. CASE u # Me
    <3>0. PICK to \in ListIdx \ {"RUNNING"}, d \in Details :
             to = "TERMINATED" /\ d = NoDetail
      BY ListIdxFacts, NoDetailType
    <3>1. thr' = AlterState(thr, u, to, d)
      BY <2>2, <3>0 DEF TaskVanishStep
    <3>2. thr.state[u] # "RUNNING"
      <4> SUFFICES ASSUME thr.state[u] = "RUNNING" PROVE FALSE
        OBVIOUS
      <4>1. u \notin Pending
        BY <1>2, <1>1, NoPendingSibling
      <4>2. u \in Range(thr.list["RUNNING"])
        BY <1>3, <4>1, ListIdxFacts DEF Core, Good, Agree
      <4>3. thr.list["RUNNING"] = <<Me>> /\ Range(<<Me>>) = {Me}
        BY CoreMe DEF Range
      <4> HIDE DEF u
      <4> QED BY <2>2, <4>2, <4>3
    <3>3. CASE thr.state[u] = to
      <4>1. Moved(thr, AlterState(thr, u, to, d), Pending, NoThread)
        BY <1>3, <3>0, <3>3, ReterminateMoved DEF Core
      <4> QED BY <3>1, <4>1, CoreMe, ThreadAssumption
    <3>4. CASE thr.state[u] # to
      <4>1. Moved(thr, AlterState(thr, u, to, d), Pending,
                  IF to = "READY" THEN NoThread ELSE u)
        BY <1>3, <3>0, <3>2, <3>4, AlterMoved DEF Core
      <4> QED BY <2>2, <3>0, <3>1, <4>1
    <3> QED BY <3>3, <3>4
  <2> QED BY <2>1, <2>2
<1> QED BY <1>2, <1>3, <1>4

\* One iteration of task_vanish: the sibling killed holds no lock, because
\* the caller holds that of their process.
\* The walk goes on to the next TCB of the list, or ends.
LEMMA WalkShape ==
  ASSUME Core, TaskVanishStep
  PROVE  \E o \in {"task_vanish_loop", "vanish"}, n \in Threads \cup {NoThread} :
           /\ op' = [op EXCEPT ![Me] = o] /\ node' = [node EXCEPT ![Me] = n]
           /\ \/ /\ o = "task_vanish_loop" /\ lock' = lock
                 /\ n \in Range(tcbs[Mine])
              \/ /\ o = "vanish" /\ n = NoThread
                 /\ lock' = [lock EXCEPT ![Mine] = NoThread]
<1> DEFINE u == node[Me]
           i == SelectInSeq(tcbs[Mine], LAMBDA v : v = u)
<1>0. op[Me] = "task_vanish_loop" /\ op = [t \in Threads |-> op[t]]
      /\ Me \in Threads
  BY CoreTypes, CoreMe DEF TaskVanishStep
<1>1. CASE /\ i < Len(tcbs[Mine])
           /\ node' = [node EXCEPT ![Me] = tcbs[Mine][i + 1]]
           /\ UNCHANGED <<lock, op>>
  <2>1. i \in 0..Len(tcbs[Mine])
    <3> DEFINE I == {j \in 1..Len(tcbs[Mine]) : tcbs[Mine][j] = u}
    <3>1. Len(tcbs[Mine]) \in Nat
      BY CoreTypes, CoreMe, LenProperties
    <3>2. i = IF I # {} THEN Min(I) ELSE 0
      BY DEF SelectInSeq
    <3>3. I \subseteq 1..Len(tcbs[Mine])
      OBVIOUS
    <3> HIDE DEF I, i
    <3> QED BY <3>1, <3>2, <3>3, FirstMatch
  <2> HIDE DEF i
  <2>2. /\ tcbs[Mine][i + 1] \in Range(tcbs[Mine])
        /\ tcbs[Mine][i + 1] \in Threads
    <3>1. /\ tcbs[Mine] \in Seq(Threads) /\ Len(tcbs[Mine]) \in Nat
          /\ DOMAIN tcbs[Mine] = 1..Len(tcbs[Mine])
      BY CoreTypes, CoreMe, LenProperties
    <3>2. i + 1 \in 1..Len(tcbs[Mine])
      BY <1>1, <2>1, <3>1
    <3> QED BY <3>1, <3>2, ElementOfSeq DEF Range
  <2>3. op' = [op EXCEPT ![Me] = "task_vanish_loop"]
    BY <1>0, <1>1
  <2> QED BY <1>1, <2>2, <2>3
<1>2. CASE /\ node' = [node EXCEPT ![Me] = NoThread]
           /\ Unlock /\ Goto("vanish")
  BY <1>2 DEF Unlock, Goto
<1> QED BY <1>1, <1>2 DEF TaskVanishStep

LEMMA TaskVanishStepPreserves ==
  ASSUME IInv, TaskVanishStep
  PROVE  IInv' /\ Kept
<1> DEFINE u == node[Me]
<1>1. op[Me] = "task_vanish_loop" /\ UNCHANGED <<tick, tcbs, parent>>
      /\ tick' \in 0..TickMod - 1
  BY Types DEF TaskVanishStep
<1>2. lock[Mine] = Me /\ u \in Range(tcbs[Mine])
  BY IInvCore, TaskVanishMoved
<1>3. u \in Threads /\ thr.pcb[u] = Mine
  BY IInvCore, TaskVanishMoved
<1>5. PICK x \in {u, NoThread} : x # Me /\ Moved(thr, thr', Pending, x)
  BY IInvCore, TaskVanishMoved
<1>4. PICK to \in {"task_vanish_loop", "vanish"}, n \in Threads \cup {NoThread} :
         /\ op' = [op EXCEPT ![Me] = to] /\ node' = [node EXCEPT ![Me] = n]
         /\ \/ /\ to = "task_vanish_loop" /\ lock' = lock
               /\ n \in Range(tcbs[Mine])
            \/ /\ to = "vanish" /\ n = NoThread
               /\ lock' = [lock EXCEPT ![Mine] = NoThread]
  BY IInvCore, WalkShape
<1>6. CASE /\ to = "task_vanish_loop" /\ lock' = lock
           /\ n \in Range(tcbs[Mine])
  <2>3. PICK o \in Ops, h \in {lock[Mine], Me, NoThread} : o = to /\ h = Me
    BY <1>6 DEF Ops, Places
  <2>4. /\ op' = [op EXCEPT ![Me] = o] /\ node' = [node EXCEPT ![Me] = n]
        /\ lock' = [lock EXCEPT ![Mine] = h]
    BY <1>2, <1>4, <1>6, <2>3, Types
  <2>5. x \in Threads => Own(x) /\ h # x
    BY <1>2, <1>3, <1>5, <2>3, ThreadAssumption DEF Own
  <2>6. op[Me] \notin Inserting /\ o \notin Inserting
    BY <1>1, <1>6, <2>3 DEF Inserting
  <2>7. h = Me /\ o \in {"thread_fork_insert", "task_vanish_loop"}
        /\ n \in Range(tcbs[Mine])
    BY <1>6, <2>3
  <2> HIDE DEF u
  <2> QED BY <1>1, <1>2, <1>5, <2>4, <2>5, <2>6, <2>7, MovedPreserves
<1>7. CASE /\ to = "vanish" /\ n = NoThread
           /\ lock' = [lock EXCEPT ![Mine] = NoThread]
  <2>1. PICK o \in Ops \ (Inserting \cup {"task_vanish_loop"}),
             h \in {lock[Mine], NoThread} : o = "vanish" /\ h = NoThread
    BY DEF Ops, Inserting, LockingCalls
  <2>2. /\ op' = [op EXCEPT ![Me] = o] /\ lock' = [lock EXCEPT ![Mine] = h]
        /\ node' = [node EXCEPT ![Me] = n]
    BY <1>4, <1>7, <2>1
  <2>3. h # Me /\ (x \in Threads => Own(x) /\ h # x)
    BY <1>2, <1>3, <1>5, <2>1, MeFacts, ThreadAssumption DEF Own
  <2>4. op[Me] \notin Inserting
    BY <1>1 DEF Inserting
  <2> HIDE DEF u
  <2> QED BY <1>1, <1>2, <1>5, <2>2, <2>3, <2>4, CallStep
<1> QED BY <1>4, <1>6, <1>7

-----------------------------------------------------------------------------
(***************************************************************************)
(* fork and thread_fork: a TCB is created, linked or freed.                *)
(***************************************************************************)

\* A record of the type of thr with some fields replaced.
LEMMA ThrFields ==
  ASSUME NEW T \in ThrType
  PROVE  /\ T.list \in [ListIdx -> Seq(Threads)]
         /\ T.state \in [Threads -> ListIdx \cup {"NEW"}]
         /\ T.detail \in [Threads -> Details]
         /\ T.pcb \in [Threads -> Procs \cup {NoProc}]
BY DEF ThrType, Bookkeeping

LEMMA NewTcbGood ==
  ASSUME Core, NEW u \in Threads, thr.state[u] = "NEW", NEW p \in Procs
  PROVE  /\ Good(NewTcb(u, p), Pending \cup {u})
         /\ NewTcb(u, p).state = [thr.state EXCEPT ![u] = "READY"]
         /\ NewTcb(u, p).pcb = [thr.pcb EXCEPT ![u] = p]
         /\ NewTcb(u, p).list = thr.list
<1> DEFINE R == NewTcb(u, p)
           St == [thr.state EXCEPT ![u] = "READY"]
           Pc == [thr.pcb EXCEPT ![u] = p]
<1>1. thr \in ThrType /\ Agree(thr, Pending, Threads)
  BY DEF Core, Good
<1>2. /\ thr.list \in [ListIdx -> Seq(Threads)]
      /\ thr.state \in [Threads -> ListIdx \cup {"NEW"}]
      /\ thr.detail \in [Threads -> Details]
      /\ thr.pcb \in [Threads -> Procs \cup {NoProc}]
  BY <1>1, ThrFields
<1>3. R = [list |-> thr.list, state |-> St, detail |-> thr.detail, pcb |-> Pc]
  BY <1>2 DEF NewTcb
<1>4. /\ St \in [Threads -> ListIdx \cup {"NEW"}]
      /\ Pc \in [Threads -> Procs \cup {NoProc}]
      /\ \A t \in Threads : t # u => St[t] = thr.state[t]
      /\ St[u] = "READY"
  BY <1>2, ListIdxFacts
<1> HIDE DEF St, Pc
<1>5. R.list = thr.list /\ R.state = St /\ R.pcb = Pc /\ R \in ThrType
  BY <1>2, <1>3, <1>4 DEF ThrType, Bookkeeping
<1> HIDE DEF R
<1>6. "NEW" \notin ListIdx
  BY DEF ListIdx, Reasons
<1>7. Agree(R, Pending \cup {u}, Threads)
  BY <1>1, <1>4, <1>5, <1>6 DEF Agree
<1>8. Good(R, Pending \cup {u})
  BY <1>5, <1>7, CoreMe DEF Good
<1> QED BY <1>5, <1>8 DEF R, St, Pc

LEMMA FreeTcbGood ==
  ASSUME Core, NEW u \in Threads, u \in Pending
  PROVE  /\ Good(FreeTcb(u), Pending \ {u})
         /\ FreeTcb(u).state = [thr.state EXCEPT ![u] = "NEW"]
         /\ FreeTcb(u).pcb = [thr.pcb EXCEPT ![u] = NoProc]
         /\ FreeTcb(u).list = thr.list
<1> DEFINE R == FreeTcb(u)
           St == [thr.state EXCEPT ![u] = "NEW"]
           Pc == [thr.pcb EXCEPT ![u] = NoProc]
<1>1. thr \in ThrType /\ Agree(thr, Pending, Threads)
  BY DEF Core, Good
<1>2. /\ thr.list \in [ListIdx -> Seq(Threads)]
      /\ thr.state \in [Threads -> ListIdx \cup {"NEW"}]
      /\ thr.detail \in [Threads -> Details]
      /\ thr.pcb \in [Threads -> Procs \cup {NoProc}]
  BY <1>1, ThrFields
<1>3. R = [list |-> thr.list, state |-> St, detail |-> thr.detail, pcb |-> Pc]
  BY <1>2 DEF FreeTcb
<1>4. /\ St \in [Threads -> ListIdx \cup {"NEW"}]
      /\ Pc \in [Threads -> Procs \cup {NoProc}]
      /\ \A t \in Threads : t # u => St[t] = thr.state[t]
      /\ St[u] = "NEW"
  BY <1>2
<1> HIDE DEF St, Pc
<1>5. R.list = thr.list /\ R.state = St /\ R.pcb = Pc /\ R \in ThrType
  BY <1>2, <1>3, <1>4 DEF ThrType, Bookkeeping
<1> HIDE DEF R
<1>6. "NEW" \notin ListIdx
  BY DEF ListIdx, Reasons
<1>7. Agree(R, Pending \ {u}, Threads)
  BY <1>1, <1>4, <1>5, <1>6 DEF Agree
<1>8. Good(R, Pending \ {u})
  BY <1>5, <1>7, CoreMe DEF Good
<1> QED BY <1>5, <1>8 DEF R, St, Pc

LEMMA LinkReadyGood ==
  ASSUME Core, NEW u \in Threads, u \in Pending, thr.state[u] = "READY",
         NEW i \in 1..Len(thr.list["READY"]) + 1
  PROVE  /\ Good(LinkReady(u, i), Pending \ {u})
         /\ LinkReady(u, i).state = thr.state
         /\ LinkReady(u, i).pcb = thr.pcb
<1> DEFINE R == LinkReady(u, i)
           s == thr.list["READY"]
           r == InsertAt(s, i, u)
           L == [thr.list EXCEPT !["READY"] = r]
<1>1. thr \in ThrType /\ Agree(thr, Pending, Threads)
  BY DEF Core, Good
<1>2. /\ thr.list \in [ListIdx -> Seq(Threads)]
      /\ thr.state \in [Threads -> ListIdx \cup {"NEW"}]
      /\ thr.detail \in [Threads -> Details]
      /\ thr.pcb \in [Threads -> Procs \cup {NoProc}]
  BY <1>1, ThrFields
<1>3. R = [list |-> L, state |-> thr.state, detail |-> thr.detail,
           pcb |-> thr.pcb]
  BY <1>2 DEF LinkReady
<1>4. s \in Seq(Threads) /\ IsInjective(s) /\ u \notin Range(s)
  BY <1>1, <1>2, ListIdxFacts DEF Agree
<1>5. r \in Seq(Threads) /\ IsInjective(r) /\ Range(r) = Range(s) \cup {u}
  <2>1. PICK q \in Seq(Threads) : q = s
    BY <1>4
  <2>2. i \in 1..Len(q) + 1 /\ IsInjective(q) /\ u \notin Range(q)
    BY <1>4, <2>1
  <2>3. /\ InsertAt(q, i, u) \in Seq(Threads) /\ IsInjective(InsertAt(q, i, u))
        /\ Range(InsertAt(q, i, u)) = Range(q) \cup {u}
    BY ONLY <2>2, q \in Seq(Threads), u \in Threads,
            InsertAtProperties, InsertAtInjective
  <2> QED BY <2>1, <2>3
<1> HIDE DEF r
<1>6. /\ L \in [ListIdx -> Seq(Threads)] /\ L["READY"] = r
      /\ \A l \in ListIdx : l # "READY" => L[l] = thr.list[l]
  BY <1>2, <1>5, ListIdxFacts
<1> HIDE DEF L
<1>7. R.list = L /\ R.state = thr.state /\ R.pcb = thr.pcb /\ R \in ThrType
  BY <1>2, <1>3, <1>6 DEF ThrType, Bookkeeping
<1> HIDE DEF R
<1>8. Agree(R, Pending \ {u}, Threads)
  <2>1. \A l \in ListIdx : IsInjective(L[l])
    BY <1>1, <1>5, <1>6 DEF Agree
  <2>2. ASSUME NEW l \in ListIdx, NEW t \in Threads, t \in Range(L[l])
        PROVE  thr.state[t] = l /\ t \notin Pending \ {u}
    <3>1. CASE t = u
      <4>1. l = "READY"
        BY <1>1, <1>6, <2>2, <3>1 DEF Agree
      <4> QED BY <4>1, <3>1
    <3>2. CASE t # u
      <4>1. t \in Range(thr.list[l])
        BY <1>5, <1>6, <2>2, <3>2
      <4> QED BY <4>1, <1>1 DEF Agree
    <3> QED BY <3>1, <3>2
  <2>3. ASSUME NEW l \in ListIdx, NEW t \in Threads, thr.state[t] = l,
               l # "TERMINATED", t \notin Pending \ {u}
        PROVE  t \in Range(L[l])
    <3>1. CASE t = u
      BY <1>5, <1>6, <2>3, <3>1
    <3>2. CASE t # u
      <4>1. t \in Range(thr.list[l])
        BY <1>1, <2>3, <3>2 DEF Agree
      <4> QED BY <4>1, <1>5, <1>6
    <3> QED BY <3>1, <3>2
  <2> QED BY <1>7, <2>1, <2>2, <2>3 DEF Agree
<1>9. R.list["RUNNING"] = thr.list["RUNNING"]
  BY <1>6, <1>7, ListIdxFacts
<1>10. Good(R, Pending \ {u})
  BY <1>7, <1>8, <1>9, CoreMe DEF Good
<1> QED BY <1>7, <1>10 DEF R

\* The order of the lists does not depend on TCBs in no list.
LEMMA SameLists ==
  ASSUME NEW T, NEW R, T.list \in [ListIdx -> Seq(Threads)],
         R.list = T.list, R.detail = T.detail, Ordered(T),
         \A v \in Range(T.list["READY"]) : R.pcb[v] = T.pcb[v]
  PROVE  Ordered(R)
<1>1. PICK s \in Seq(Threads) : s = T.list["READY"]
  BY ListIdxFacts
<1>2. \A i \in 1..Len(s) : R.pcb[s[i]] = T.pcb[s[i]]
  BY <1>1, LenProperties DEF Range
<1>3. Grouped(s, R.pcb)
  BY <1>1, <1>2 DEF Ordered, Grouped
<1> QED BY <1>1, <1>3 DEF Ordered

LEMMA NewTcbOrdered ==
  ASSUME IInv, NEW u \in Threads, thr.state[u] = "NEW", NEW p, Ordered(thr)
  PROVE  Ordered(NewTcb(u, p))
<1>1. PICK R : R = NewTcb(u, p)
  OBVIOUS
<1>2. /\ R.list = thr.list /\ R.detail = thr.detail
      /\ R.pcb = [thr.pcb EXCEPT ![u] = p]
  BY <1>1 DEF NewTcb
<1>3. u \notin Range(thr.list["READY"])
  BY ListIdxFacts DEF IInv, Good, Agree
<1>4. ASSUME NEW v \in Range(thr.list["READY"])
      PROVE  R.pcb[v] = thr.pcb[v]
  <2>1. v \in Threads
    <3>1. thr.list["READY"] \in Seq(Threads)
      BY Types, ListIdxFacts
    <3> QED BY <3>1, RangeOfSeq
  <2> QED BY <2>1, <1>2, <1>3, Types
<1>5. thr.list \in [ListIdx -> Seq(Threads)]
  BY Types
<1>6. Ordered(R)
  BY <1>2, <1>4, <1>5, SameLists
<1> QED BY <1>1, <1>6

LEMMA FreeTcbOrdered ==
  ASSUME IInv, NEW u \in Threads, u \in Pending, Ordered(thr)
  PROVE  Ordered(FreeTcb(u))
<1>1. PICK R : R = FreeTcb(u)
  OBVIOUS
<1>2. /\ R.list = thr.list /\ R.detail = thr.detail
      /\ R.pcb = [thr.pcb EXCEPT ![u] = NoProc]
  BY <1>1 DEF FreeTcb
<1>3. u \notin Range(thr.list["READY"])
  BY ListIdxFacts DEF IInv, Good, Agree
<1>4. ASSUME NEW v \in Range(thr.list["READY"])
      PROVE  R.pcb[v] = thr.pcb[v]
  <2>1. v \in Threads
    <3>1. thr.list["READY"] \in Seq(Threads)
      BY Types, ListIdxFacts
    <3> QED BY <3>1, RangeOfSeq
  <2> QED BY <2>1, <1>2, <1>3, Types
<1>5. thr.list \in [ListIdx -> Seq(Threads)]
  BY Types
<1>6. Ordered(R)
  BY <1>2, <1>4, <1>5, SameLists
<1> QED BY <1>1, <1>6

\* A node linked after the last thread of its process keeps the processes
\* together.
LEMMA LinkReadyOrdered ==
  ASSUME IInv, NEW u \in Threads, NEW i, Ordered(thr),
         AfterLast(thr.list["READY"], thr.pcb, thr.pcb[u], i)
  PROVE  Ordered(LinkReady(u, i))
<1>1. PICK R : R = LinkReady(u, i)
  OBVIOUS
<1>2. PICK s \in Seq(Threads) : s = thr.list["READY"]
  BY Types, ListIdxFacts
<1>3. Grouped(InsertAt(s, i, u), thr.pcb)
  BY <1>2, InsertGrouped DEF Ordered
<1>4. /\ R.list["READY"] = InsertAt(s, i, u)
      /\ R.list["SLEEP"] = thr.list["SLEEP"]
      /\ R.detail = thr.detail /\ R.pcb = thr.pcb
  BY <1>1, <1>2, Types, ListIdxFacts DEF LinkReady
<1>5. Ordered(R)
  BY <1>3, <1>4 DEF Ordered
<1> QED BY <1>1, <1>5

LEMMA PendingAdd ==
  ASSUME Core, op[Me] \notin Inserting, NEW o \in Inserting, NEW u,
         op' = [op EXCEPT ![Me] = o], node' = [node EXCEPT ![Me] = u]
  PROVE  Pending' = Pending \cup {u}
<1>1. Me \in Threads
  BY CoreMe
<1>2. /\ op'[Me] = o /\ node'[Me] = u
      /\ \A t \in Threads \ {Me} : op'[t] = op[t] /\ node'[t] = node[t]
  BY <1>1, CoreTypes
<1>3. Pending = {node[t] : t \in {s \in Threads : op[s] \in Inserting}}
  BY DEF Pending, Inserting
<1>4. Pending' = {node'[t] : t \in {s \in Threads : op'[s] \in Inserting}}
  BY DEF Pending, Inserting
<1> QED BY <1>1, <1>2, <1>3, <1>4

LEMMA PendingRemove ==
  ASSUME Core, op[Me] \in Inserting, NEW o, o \notin Inserting, NEW n,
         op' = [op EXCEPT ![Me] = o], node' = [node EXCEPT ![Me] = n]
  PROVE  /\ Pending' = Pending \ {node[Me]}
         /\ node[Me] \in Pending /\ node[Me] \in Threads
         /\ thr.state[node[Me]] = "READY" /\ node[Me] # Me
<1>1. Me \in Threads /\ Me \notin Pending
  BY CoreMe
<1>2. /\ op'[Me] = o /\ node'[Me] = n
      /\ \A t \in Threads \ {Me} : op'[t] = op[t] /\ node'[t] = node[t]
  BY <1>1, CoreTypes
<1>3. Pending = {node[t] : t \in {s \in Threads : op[s] \in Inserting}}
  BY DEF Pending, Inserting
<1>4. Pending' = {node'[t] : t \in {s \in Threads : op'[s] \in Inserting}}
  BY DEF Pending, Inserting
<1>5. \A t \in Threads \ {Me} : op[t] \in Inserting => node[t] # node[Me]
  BY <1>1 DEF Core, PendInv
<1>6. Pending' = Pending \ {node[Me]}
  BY <1>1, <1>2, <1>3, <1>4, <1>5
<1>7. node[Me] \in Threads /\ thr.state[node[Me]] = "READY"
  BY <1>1 DEF Core, PendInv
<1> QED BY <1>1, <1>3, <1>6, <1>7

\* A TCB is created in process p: the caller's own, locked (thread_fork), or
\* an unused one (fork).
LEMMA CoreCreate ==
  ASSUME Core, NEW u \in Threads, thr.state[u] = "NEW", NEW p \in Procs,
         NEW o \in Inserting, op[Me] \notin Inserting,
         op' = [op EXCEPT ![Me] = o], node' = [node EXCEPT ![Me] = u],
         thr' = NewTcb(u, p), tcbs' = [tcbs EXCEPT ![p] = Append(@, u)],
         lock' = lock,
         \/ o = "thread_fork_insert" /\ p = Mine /\ lock[Mine] = Me
         \/ o = "fork_insert" /\ tcbs[p] = <<>>
  PROVE  /\ Core' /\ tcbs' \in [Procs -> Seq(Threads)]
         /\ u # Me /\ op[u] = "user" /\ u \notin Pending
         /\ thr'.state = [thr.state EXCEPT ![u] = "READY"]
         /\ thr'.pcb = [thr.pcb EXCEPT ![u] = p]
<1> USE CoreTypes, CoreMe
<1>p. Pending' = Pending \cup {u}
  BY PendingAdd
<1>g. /\ Good(thr', Pending')
      /\ thr'.state = [thr.state EXCEPT ![u] = "READY"]
      /\ thr'.pcb = [thr.pcb EXCEPT ![u] = p]
  BY <1>p, NewTcbGood
<1>t. thr' \in ThrType
  BY <1>g DEF Good
<1>m. Mine = thr.pcb[Me] /\ u # Me /\ op[u] = "user" /\ u \notin Pending
  <2>1. \A t \in Threads : op[t] \in Inserting => thr.state[node[t]] = "READY"
    BY DEF Core, PendInv
  <2>2. u \notin Pending
    BY <2>1 DEF Pending, Inserting
  <2> QED BY <2>2 DEF Core, PendInv, Mine
<1> HIDE DEF Me, Mine
<1>s. /\ \A t \in Threads : t # u => /\ thr'.state[t] = thr.state[t]
                                    /\ thr'.pcb[t] = thr.pcb[t]
      /\ thr'.state[u] = "READY" /\ thr'.pcb[u] = p
  BY <1>g
<1>o. /\ \A t \in Threads : t # Me => op'[t] = op[t] /\ node'[t] = node[t]
      /\ op'[Me] = o /\ node'[Me] = u
  OBVIOUS
<1>a. /\ tcbs'[p] \in Seq(Threads) /\ IsInjective(tcbs'[p])
      /\ Range(tcbs'[p]) = Range(tcbs[p]) \cup {u} /\ Last(tcbs'[p]) = u
      /\ \A q \in Procs : q # p => tcbs'[q] = tcbs[q]
  <2>1. PICK q \in Seq(Threads) : q = tcbs[p]
    OBVIOUS
  <2>2. IsInjective(q) /\ u \notin Range(q)
    BY <2>1 DEF Core, TcbInv
  <2>3. /\ Append(q, u) \in Seq(Threads) /\ IsInjective(Append(q, u))
        /\ Range(Append(q, u)) = Range(q) \cup {u} /\ Last(Append(q, u)) = u
    BY ONLY <2>2, q \in Seq(Threads), u \in Threads, AppendNew
  <2>4. tcbs'[p] = Append(q, u) /\ \A r \in Procs : r # p => tcbs'[r] = tcbs[r]
    BY <2>1
  <2> QED BY <2>1, <2>3, <2>4
<1>1. /\ tcbs' \in [Procs -> Seq(Threads)]
      /\ op' = [t \in Threads |-> op'[t]]
      /\ node' \in [Threads -> Threads \cup {NoThread}]
  BY <1>a
<1>2. TcbInv'
  <2>1. \A q \in Procs : IsInjective(tcbs'[q])
    BY <1>a DEF Core, TcbInv
  <2>2. \A t \in Threads : thr'.state[t] # "NEW" => thr'.pcb[t] \in Procs
    BY <1>s, SMTT(20) DEF Core, TcbInv
  <2>3. ASSUME NEW t \in Threads, NEW q \in Procs
        PROVE  t \in Range(tcbs'[q]) <=> thr'.state[t] # "NEW" /\ thr'.pcb[t] = q
    <3>1. CASE t = u
      BY <3>1, <1>a, <1>s DEF Core, TcbInv
    <3>2. CASE t # u
      <4>1. t \in Range(tcbs'[q]) <=> t \in Range(tcbs[q])
        BY <3>2, <1>a
      <4> QED BY <3>2, <4>1, <1>s DEF Core, TcbInv
    <3> QED BY <3>1, <3>2
  <2> QED BY <2>1, <2>2, <2>3 DEF TcbInv
<1>4. HoldInv'
  <2> SUFFICES ASSUME NEW t \in Threads,
                 op'[t] \in {"thread_fork_insert", "task_vanish_loop"}
               PROVE  /\ lock[thr'.pcb[t]] = t
                      /\ node'[t] \in Range(tcbs'[thr'.pcb[t]])
                      /\ op'[t] = "thread_fork_insert" =>
                           node'[t] = Last(tcbs'[thr'.pcb[t]])
    BY DEF HoldInv
  <2>1. CASE t = Me
    BY <2>1, <1>o, <1>s, <1>m, <1>a
  <2>2. CASE t # Me
    <3>1. op'[t] = op[t] /\ node'[t] = node[t] /\ t # u
      BY <2>2, <1>o, <1>m
    <3>2. /\ lock[thr.pcb[t]] = t /\ node[t] \in Range(tcbs[thr.pcb[t]])
          /\ op[t] = "thread_fork_insert" => node[t] = Last(tcbs[thr.pcb[t]])
      BY <3>1 DEF Core, HoldInv
    <3>3. thr.pcb[t] \in Procs
      <4>1. op[t] # "user"
        BY <3>1
      <4> QED BY <4>1 DEF Core, PendInv, TcbInv
    <3>4. thr.pcb[t] # p
      BY <2>2, <3>2 DEF Range
    <3> QED BY <3>1, <3>2, <3>3, <3>4, <1>s, <1>a
  <2> QED BY <2>1, <2>2
<1>5. PendInv'
  <2>1. ASSUME NEW t \in Threads, op'[t] \in Inserting, t # Me
        PROVE  /\ op'[t] = op[t] /\ node'[t] = node[t] /\ node[t] \in Threads
               /\ node[t] \in Pending /\ node[t] # u
               /\ thr'.state[node[t]] = "READY"
               /\ thr'.pcb[node[t]] = thr.pcb[node[t]]
               /\ op[t] = "fork_insert" =>
                    Range(tcbs[thr.pcb[node[t]]]) = {node[t]}
    <3>1. op'[t] = op[t] /\ node'[t] = node[t]
      BY <2>1, <1>o
    <3>2. /\ node[t] \in Threads /\ thr.state[node[t]] = "READY"
          /\ op[t] = "fork_insert" => Range(tcbs[thr.pcb[node[t]]]) = {node[t]}
      BY <2>1, <3>1 DEF Core, PendInv
    <3>3. node[t] \in Pending
      BY <2>1, <3>1 DEF Pending, Inserting
    <3> QED BY <3>1, <3>2, <3>3, <1>m, <1>s
  <2>2. \A t \in Threads : op'[t] \in Inserting =>
          node'[t] \in Threads /\ thr'.state[node'[t]] = "READY"
    BY <2>1, <1>o, <1>s
  <2>3. \A v, t \in Threads :
          op'[v] \in Inserting /\ op'[t] \in Inserting /\ node'[v] = node'[t]
            => v = t
    <3> TAKE v, t \in Threads
    <3>1. CASE v = Me \/ t = Me
      BY <3>1, <2>1, <1>o
    <3>2. CASE v # Me /\ t # Me
      BY <3>2, <2>1 DEF Core, PendInv
    <3> QED BY <3>1, <3>2
  <2>4. ASSUME NEW t \in Threads, op'[t] = "fork_insert"
        PROVE  Range(tcbs'[thr'.pcb[node'[t]]]) = {node'[t]}
    <3>1. CASE t = Me
      <4>1. o = "fork_insert" /\ tcbs[p] = <<>>
        BY <3>1, <2>4, <1>o
      <4>2. Range(tcbs[p]) = {}
        BY <4>1 DEF Range
      <4> QED BY <3>1, <4>2, <1>o, <1>s, <1>a
    <3>2. CASE t # Me
      <4>1. op[t] = "fork_insert" /\ op'[t] \in Inserting
        BY <2>4, <3>2, <1>o DEF Inserting
      <4>2. /\ node'[t] = node[t] /\ node[t] \in Threads /\ node[t] \in Pending
            /\ thr'.pcb[node[t]] = thr.pcb[node[t]]
            /\ Range(tcbs[thr.pcb[node[t]]]) = {node[t]}
        BY <3>2, <4>1, <2>1
      <4>3. thr.pcb[node[t]] \in Procs
        BY <4>1, <4>2 DEF Core, PendInv, TcbInv, Inserting
      <4>4. thr.pcb[node[t]] # p
        <5>1. CASE p = Mine
          BY <5>1, <4>2
        <5>2. CASE tcbs[p] = <<>>
          <6>1. Range(tcbs[p]) = {}
            BY <5>2 DEF Range
          <6> QED BY <6>1, <4>2
        <5> QED BY <5>1, <5>2
      <4> QED BY <4>2, <4>3, <4>4, <1>a
    <3> QED BY <3>1, <3>2
  <2>5. \A t \in Threads :
          thr'.state[t] = "NEW" \/ t \in Pending' => op'[t] = "user"
    <3> TAKE t \in Threads
    <3>1. CASE t = u
      BY <3>1, <1>m, <1>o
    <3>2. CASE t # u
      <4>1. thr'.state[t] = "NEW" \/ t \in Pending' =>
              t # Me /\ (thr.state[t] = "NEW" \/ t \in Pending)
        BY <3>2, <1>p, <1>s
      <4> QED BY <4>1, <1>o DEF Core, PendInv
    <3> QED BY <3>1, <3>2
  <2> QED BY <2>2, <2>3, <2>4, <2>5 DEF PendInv
<1> QED BY <1>1, <1>2, <1>4, <1>5, <1>g, <1>m DEF Core

LEMMA CreateStep ==
  ASSUME IInv, NEW u \in Threads, thr.state[u] = "NEW", NEW p \in Procs,
         NEW o \in Inserting, op[Me] \notin Inserting,
         op' = [op EXCEPT ![Me] = o], node' = [node EXCEPT ![Me] = u],
         thr' = NewTcb(u, p), tcbs' = [tcbs EXCEPT ![p] = Append(@, u)],
         tick' = tick, lock' = lock,
         parent' \in [Procs -> Procs \cup {NoProc}],
         \/ o = "thread_fork_insert" /\ p = Mine /\ lock[Mine] = Me
         \/ /\ o = "fork_insert" /\ tcbs[p] = <<>>
            /\ \A q \in Procs : lock[q] # Me
  PROVE  IInv' /\ Kept
<1> USE Types, MeFacts
<1>c. /\ Core' /\ tcbs' \in [Procs -> Seq(Threads)]
      /\ u # Me /\ op[u] = "user" /\ u \notin Pending
      /\ thr'.state = [thr.state EXCEPT ![u] = "READY"]
      /\ thr'.pcb = [thr.pcb EXCEPT ![u] = p]
  BY IInvCore, CoreCreate
<1> HIDE DEF Me, Mine
<1>s. /\ \A t \in Threads : t # u => /\ thr'.state[t] = thr.state[t]
                                    /\ thr'.pcb[t] = thr.pcb[t]
      /\ thr'.state[u] = "READY" /\ thr'.pcb[u] = p
  BY <1>c
<1>o. /\ \A t \in Threads : t # Me => op'[t] = op[t] /\ node'[t] = node[t]
      /\ op'[Me] = o /\ node'[Me] = u
  OBVIOUS
<1>1. TypeOK'
  <2>1. thr' \in ThrType
    BY <1>c DEF Core, Good
  <2>2. op' \in [Threads -> Ops] /\ node' \in [Threads -> Threads \cup {NoThread}]
    BY DEF Ops, Places, Inserting
  <2> QED BY <1>c, <2>1, <2>2 DEF TypeOK, ThrType, Bookkeeping
<1>3. LockInv'
  <2> SUFFICES ASSUME NEW q \in Procs, lock[q] # NoThread
               PROVE  /\ thr'.pcb[lock[q]] = q
                      /\ thr'.state[lock[q]] \in {"READY", "RUNNING"}
                      /\ op'[lock[q]] \in LockingCalls \cup
                           {"thread_fork_insert", "task_vanish_loop"}
    BY DEF LockInv
  <2>1. /\ lock[q] \in Threads /\ thr.pcb[lock[q]] = q
        /\ thr.state[lock[q]] \in {"READY", "RUNNING"}
        /\ op[lock[q]] \in LockingCalls \cup
             {"thread_fork_insert", "task_vanish_loop"}
    BY DEF IInv, LockInv
  <2>2. lock[q] # u
    BY <2>1
  <2> QED BY <2>1, <2>2, <1>s, <1>o
<1>6. Kept
  <2>1. Ordered(thr) => Ordered(thr')
    BY NewTcbOrdered
  <2> QED BY <2>1, <1>s DEF Kept
<1> QED BY <1>1, <1>3, <1>6, <1>c DEF IInv, Core

LEMMA ThreadForkCreatePreserves ==
  ASSUME IInv, NEW u \in Threads, ThreadForkCreate(u)
  PROVE  IInv' /\ Kept
<1>1. PICK p \in Procs, o \in Inserting : p = Mine /\ o = "thread_fork_insert"
  BY MeFacts DEF Inserting
<1>2. op[Me] \notin Inserting /\ lock[Mine] = Me
  BY DEF ThreadForkCreate, Holding, Inserting
<1>3. /\ thr.state[u] = "NEW" /\ op' = [op EXCEPT ![Me] = o]
      /\ node' = [node EXCEPT ![Me] = u] /\ thr' = NewTcb(u, p)
      /\ tcbs' = [tcbs EXCEPT ![p] = Append(@, u)]
      /\ tick' = tick /\ lock' = lock /\ parent' = parent
  BY <1>1 DEF ThreadForkCreate, Goto
<1>4. parent' \in [Procs -> Procs \cup {NoProc}]
  BY <1>3, Types
<1> QED BY <1>1, <1>2, <1>3, <1>4, CreateStep

LEMMA ForkBuildPreserves ==
  ASSUME IInv, NEW u \in Threads, NEW p \in Procs, ForkBuild(u, p)
  PROVE  IInv' /\ Kept
<1>1. PICK o \in Inserting : o = "fork_insert"
  BY DEF Inserting
<1>2. op[Me] = "fork_build" /\ op[Me] \notin Inserting
  BY DEF ForkBuild, Inserting
<1>3. /\ thr.state[u] = "NEW" /\ op' = [op EXCEPT ![Me] = o]
      /\ node' = [node EXCEPT ![Me] = u] /\ thr' = NewTcb(u, p)
      /\ tcbs[p] = <<>> /\ tcbs' = [tcbs EXCEPT ![p] = <<u>>]
      /\ tick' = tick /\ lock' = lock
      /\ parent' = [parent EXCEPT ![p] = Mine]
  BY <1>1 DEF ForkBuild, Goto
<1>4. parent' \in [Procs -> Procs \cup {NoProc}]
  BY <1>3, Types, MeFacts
<1>5. tcbs' = [tcbs EXCEPT ![p] = Append(@, u)]
  BY <1>3, Types
<1>6. \A q \in Procs : lock[q] # Me
  BY <1>2, MeFacts, ThreadAssumption DEF IInv, LockInv, LockingCalls
<1> QED BY <1>1, <1>2, <1>3, <1>4, <1>5, <1>6, CreateStep

\* The caller is done with the TCB it was building: linked or freed.  Parts
\* of the invariant that both share.
LEMMA CoreDone ==
  ASSUME Core, op[Me] \in Inserting, op' = [op EXCEPT ![Me] = "user"],
         node' = [node EXCEPT ![Me] = NoThread],
         lock' \in [Procs -> Threads \cup {NoThread}],
         \A q \in Procs : lock'[q] # lock[q] => lock[q] \in {Me, NoThread}
  PROVE  /\ Pending' = Pending \ {node[Me]}
         /\ node[Me] \in Pending /\ node[Me] \in Threads /\ node[Me] # Me
         /\ thr.state[node[Me]] = "READY" /\ op[node[Me]] = "user"
         /\ op' = [t \in Threads |-> op'[t]]
         /\ node' \in [Threads -> Threads \cup {NoThread}]
         /\ \A t \in Threads : op'[t] # "user" =>
              /\ t # Me /\ t # node[Me]
              /\ op'[t] = op[t] /\ node'[t] = node[t]
              /\ op[t] \in Inserting => node[t] # node[Me]
         /\ \A t \in Threads : op'[t] # "user" =>
              thr.pcb[t] \in Procs
              /\ (lock[thr.pcb[t]] = t => lock'[thr.pcb[t]] = t)
<1> USE CoreTypes, CoreMe
<1>1. PICK o : o = "user"
  OBVIOUS
<1>2. /\ Pending' = Pending \ {node[Me]}
      /\ node[Me] \in Pending /\ node[Me] \in Threads
      /\ thr.state[node[Me]] = "READY" /\ node[Me] # Me
  <2>1. o \notin Inserting /\ op' = [op EXCEPT ![Me] = o]
    BY <1>1 DEF Inserting
  <2>2. PICK n : n = NoThread
    OBVIOUS
  <2>3. node' = [node EXCEPT ![Me] = n]
    BY <2>2
  <2> QED BY <2>1, <2>3, PendingRemove
<1>3. op[node[Me]] = "user"
  BY <1>2 DEF Core, PendInv
<1>4. /\ op' = [t \in Threads |-> op'[t]]
      /\ node' \in [Threads -> Threads \cup {NoThread}]
  OBVIOUS
<1>6. ASSUME NEW t \in Threads, op'[t] # "user"
      PROVE  /\ t # Me /\ t # node[Me]
             /\ op'[t] = op[t] /\ node'[t] = node[t]
             /\ op[t] \in Inserting => node[t] # node[Me]
             /\ thr.pcb[t] \in Procs
             /\ (lock[thr.pcb[t]] = t => lock'[thr.pcb[t]] = t)
  <2>1. t # Me /\ op'[t] = op[t] /\ node'[t] = node[t]
    BY <1>6
  <2>2. t # node[Me]
    BY <2>1, <1>3, <1>6
  <2>3. op[t] \in Inserting => node[t] # node[Me]
    BY <2>1 DEF Core, PendInv
  <2>4. thr.pcb[t] \in Procs
    BY <2>1, <1>6 DEF Core, PendInv, TcbInv
  <2>5. lock[thr.pcb[t]] = t => lock'[thr.pcb[t]] = t
    BY <2>1, <2>4, ThreadAssumption
  <2> QED BY <2>1, <2>2, <2>3, <2>4, <2>5
<1> QED BY <1>2, <1>3, <1>4, <1>6

LEMMA DoneFacts ==
  ASSUME IInv, op[Me] \in Inserting, op' = [op EXCEPT ![Me] = "user"],
         node' = [node EXCEPT ![Me] = NoThread],
         NEW h \in {lock[Mine], NoThread}, h # Me,
         h # lock[Mine] => lock[Mine] = Me,
         lock' = [lock EXCEPT ![Mine] = h]
  PROVE  /\ Pending' = Pending \ {node[Me]}
         /\ node[Me] \in Pending /\ node[Me] \in Threads /\ node[Me] # Me
         /\ thr.state[node[Me]] = "READY" /\ op[node[Me]] = "user"
         /\ op' \in [Threads -> Ops]
         /\ node' \in [Threads -> Threads \cup {NoThread}]
         /\ lock' \in [Procs -> Threads \cup {NoThread}]
         /\ \A q \in Procs : lock'[q] # NoThread =>
              lock'[q] = lock[q] /\ lock[q] # Me /\ lock[q] # node[Me]
         /\ \A t \in Threads : op'[t] # "user" =>
              /\ t # Me /\ t # node[Me]
              /\ op'[t] = op[t] /\ node'[t] = node[t]
              /\ op[t] \in Inserting => node[t] # node[Me]
         /\ \A t \in Threads : op'[t] # "user" =>
              thr.pcb[t] \in Procs
              /\ (lock[thr.pcb[t]] = t => lock'[thr.pcb[t]] = t)
<1> USE Types, MeFacts
<1>4. /\ op' \in [Threads -> Ops]
      /\ lock' \in [Procs -> Threads \cup {NoThread}]
      /\ \A q \in Procs : lock'[q] # lock[q] => lock[q] \in {Me, NoThread}
  BY DEF Ops
<1>2. /\ Pending' = Pending \ {node[Me]}
      /\ node[Me] \in Pending /\ node[Me] \in Threads /\ node[Me] # Me
      /\ thr.state[node[Me]] = "READY" /\ op[node[Me]] = "user"
      /\ node' \in [Threads -> Threads \cup {NoThread}]
      /\ \A t \in Threads : op'[t] # "user" =>
           /\ t # Me /\ t # node[Me]
           /\ op'[t] = op[t] /\ node'[t] = node[t]
           /\ op[t] \in Inserting => node[t] # node[Me]
      /\ \A t \in Threads : op'[t] # "user" =>
           thr.pcb[t] \in Procs
           /\ (lock[thr.pcb[t]] = t => lock'[thr.pcb[t]] = t)
  BY <1>4, IInvCore, CoreDone
<1>5. ASSUME NEW q \in Procs, lock'[q] # NoThread
      PROVE  lock'[q] = lock[q] /\ lock[q] # Me /\ lock[q] # node[Me]
  <2>1. lock'[q] = lock[q]
    BY <1>5
  <2>2. /\ thr.pcb[lock[q]] = q
        /\ op[lock[q]] \in LockingCalls \cup
             {"thread_fork_insert", "task_vanish_loop"}
    BY <1>5, <2>1 DEF IInv, LockInv
  <2>3. lock[q] # node[Me]
    BY <2>2, <1>2 DEF LockingCalls
  <2>4. lock[q] # Me
    <3> SUFFICES ASSUME lock[q] = Me PROVE FALSE
      OBVIOUS
    <3>1. q = Mine
      BY <2>2 DEF Mine
    <3> QED BY <2>1, <3>1
  <2> QED BY <2>1, <2>3, <2>4
<1> QED BY <1>2, <1>4, <1>5

\* The node of the new TCB is linked into the READY list.
LEMMA CoreLink ==
  ASSUME Core, op[Me] \in Inserting, op' = [op EXCEPT ![Me] = "user"],
         node' = [node EXCEPT ![Me] = NoThread],
         lock' \in [Procs -> Threads \cup {NoThread}],
         \A q \in Procs : lock'[q] # lock[q] => lock[q] \in {Me, NoThread},
         NEW i \in 1..Len(thr.list["READY"]) + 1,
         thr' = LinkReady(node[Me], i), tcbs' = tcbs
  PROVE  Core' /\ thr'.state = thr.state /\ thr'.pcb = thr.pcb
<1> USE CoreTypes
<1>d. /\ Pending' = Pending \ {node[Me]}
      /\ node[Me] \in Pending /\ node[Me] \in Threads /\ node[Me] # Me
      /\ thr.state[node[Me]] = "READY" /\ op[node[Me]] = "user"
      /\ op' = [t \in Threads |-> op'[t]]
      /\ node' \in [Threads -> Threads \cup {NoThread}]
  BY CoreDone
<1>o. \A t \in Threads : op'[t] # "user" =>
        /\ t # Me /\ t # node[Me]
        /\ op'[t] = op[t] /\ node'[t] = node[t]
        /\ op[t] \in Inserting => node[t] # node[Me]
  BY CoreDone
<1>k. \A t \in Threads : op'[t] # "user" =>
        thr.pcb[t] \in Procs
        /\ (lock[thr.pcb[t]] = t => lock'[thr.pcb[t]] = t)
  BY CoreDone
<1>g. /\ Good(thr', Pending') /\ thr'.state = thr.state /\ thr'.pcb = thr.pcb
  BY <1>d, LinkReadyGood
<1>2. TcbInv'
  BY <1>g DEF Core, TcbInv
<1>4. HoldInv'
  <2> SUFFICES ASSUME NEW t \in Threads,
                 op'[t] \in {"thread_fork_insert", "task_vanish_loop"}
               PROVE  /\ lock'[thr'.pcb[t]] = t
                      /\ node'[t] \in Range(tcbs'[thr'.pcb[t]])
                      /\ op'[t] = "thread_fork_insert" =>
                           node'[t] = Last(tcbs'[thr'.pcb[t]])
    BY DEF HoldInv
  <2>1. op'[t] # "user" /\ op'[t] = op[t] /\ node'[t] = node[t]
    BY <1>o
  <2> QED BY <2>1, <1>k, <1>g DEF Core, HoldInv
<1>5. PendInv'
  <2>1. \A t \in Threads : op'[t] \in Inserting =>
          op'[t] = op[t] /\ node'[t] = node[t]
    BY <1>o DEF Inserting
  <2>2. \A t \in Threads : op'[t] \in Inserting =>
          node'[t] \in Threads /\ thr'.state[node'[t]] = "READY"
    BY <2>1, <1>g DEF Core, PendInv
  <2>3. \A v, t \in Threads :
          op'[v] \in Inserting /\ op'[t] \in Inserting /\ node'[v] = node'[t]
            => v = t
    BY <2>1 DEF Core, PendInv
  <2>4. \A t \in Threads : op'[t] = "fork_insert" =>
          Range(tcbs'[thr'.pcb[node'[t]]]) = {node'[t]}
    <3> SUFFICES ASSUME NEW t \in Threads, op'[t] = "fork_insert"
                 PROVE  Range(tcbs'[thr'.pcb[node'[t]]]) = {node'[t]}
      OBVIOUS
    <3>1. op[t] = "fork_insert" /\ node'[t] = node[t]
      BY <2>1 DEF Inserting
    <3>2. Range(tcbs[thr.pcb[node[t]]]) = {node[t]}
      BY <3>1 DEF Core, PendInv
    <3> QED BY <3>1, <3>2, <1>g
  <2>5. \A t \in Threads :
          thr'.state[t] = "NEW" \/ t \in Pending' => op'[t] = "user"
    BY <1>o, <1>d, <1>g DEF Core, PendInv
  <2> QED BY <2>2, <2>3, <2>4, <2>5 DEF PendInv
<1> QED BY <1>d, <1>2, <1>4, <1>5, <1>g DEF Core

LEMMA LinkStep ==
  ASSUME IInv, op[Me] \in Inserting, op' = [op EXCEPT ![Me] = "user"],
         node' = [node EXCEPT ![Me] = NoThread],
         NEW h \in {lock[Mine], NoThread}, h # Me,
         h # lock[Mine] => lock[Mine] = Me,
         lock' = [lock EXCEPT ![Mine] = h],
         NEW i \in 1..Len(thr.list["READY"]) + 1,
         AfterLast(thr.list["READY"], thr.pcb, thr.pcb[node[Me]], i),
         thr' = LinkReady(node[Me], i), UNCHANGED <<tick, tcbs, parent>>
  PROVE  IInv' /\ Kept
<1> USE Types
<1>d. /\ Pending' = Pending \ {node[Me]}
      /\ node[Me] \in Pending /\ node[Me] \in Threads /\ node[Me] # Me
      /\ thr.state[node[Me]] = "READY" /\ op[node[Me]] = "user"
      /\ op' \in [Threads -> Ops]
      /\ node' \in [Threads -> Threads \cup {NoThread}]
      /\ lock' \in [Procs -> Threads \cup {NoThread}]
  BY DoneFacts
<1>l. \A q \in Procs : lock'[q] # NoThread =>
        lock'[q] = lock[q] /\ lock[q] # Me /\ lock[q] # node[Me]
  BY DoneFacts
<1>g. Core' /\ thr'.state = thr.state /\ thr'.pcb = thr.pcb
  <2>1. \A q \in Procs : lock'[q] # lock[q] => lock[q] \in {Me, NoThread}
    BY MeFacts
  <2> QED BY <1>d, <2>1, IInvCore, CoreLink
<1>t. thr' \in ThrType
  BY <1>g DEF Core, Good
<1>1. TypeOK'
  BY <1>d, <1>t DEF TypeOK, ThrType, Bookkeeping
<1>3. LockInv'
  <2> SUFFICES ASSUME NEW q \in Procs, lock'[q] # NoThread
               PROVE  /\ thr'.pcb[lock'[q]] = q
                      /\ thr'.state[lock'[q]] \in {"READY", "RUNNING"}
                      /\ op'[lock'[q]] \in LockingCalls \cup
                           {"thread_fork_insert", "task_vanish_loop"}
    BY DEF LockInv
  <2>1. lock'[q] = lock[q] /\ lock[q] # Me /\ lock[q] \in Threads
    BY <1>l
  <2>2. op'[lock[q]] = op[lock[q]]
    BY <2>1
  <2> QED BY <2>1, <2>2, <1>g DEF IInv, LockInv
<1>6. Kept
  <2>0. PICK u \in Threads : u = node[Me]
    BY <1>d
  <2>1. Ordered(thr) => Ordered(LinkReady(u, i))
    BY <2>0, LinkReadyOrdered
  <2> QED BY <2>0, <2>1, <1>g DEF Kept
<1> QED BY <1>1, <1>3, <1>6, <1>g DEF IInv, Core

LEMMA ReadySlotRange ==
  ASSUME Core
  PROVE  ReadySlot(thr, Mine) \in 1..Len(thr.list["READY"]) + 1
<1>1. PICK l \in ListIdx, d \in Details : l = "READY" /\ d = NoDetail
  BY ListIdxFacts, NoDetailType
<1>2. thr \in Bookkeeping(Threads, Details, Procs \cup {NoProc})
  BY DEF Core, Good, ThrType
<1>3. Slot(thr, Me, l, d) \in 1..Len(thr.list[l]) + 1
  BY <1>2, CoreMe, SlotInRange
<1>4. Slot(thr, Me, l, d) = ReadySlot(thr, Mine)
  BY <1>1 DEF Slot, Mine
<1> QED BY <1>1, <1>3, <1>4

LEMMA ThreadForkInsertPreserves ==
  ASSUME IInv, ThreadForkInsert
  PROVE  IInv' /\ Kept
<1>1. PICK h \in {lock[Mine], NoThread} : h = NoThread
  OBVIOUS
<1>2. /\ op[Me] \in Inserting /\ lock[Mine] = Me
      /\ op' = [op EXCEPT ![Me] = "user"]
      /\ node' = [node EXCEPT ![Me] = NoThread]
      /\ lock' = [lock EXCEPT ![Mine] = h]
      /\ UNCHANGED <<tick, tcbs, parent>>
  BY <1>1 DEF ThreadForkInsert, Holding, Inserting, Goto, Unlock
<1>3. h # Me
  BY <1>1, MeFacts, ThreadAssumption
<1>4. PICK i \in 1..Len(thr.list["READY"]) + 1 : i = ReadySlot(thr, Mine)
  BY ReadySlotRange, IInvCore
<1>5. thr' = LinkReady(node[Me], i)
  BY <1>4 DEF ThreadForkInsert
<1>6. AfterLast(thr.list["READY"], thr.pcb, thr.pcb[node[Me]], i)
  <2>1. thr.pcb[node[Me]] = Mine
    <3>1. node[Me] \in Range(tcbs[Mine]) /\ node[Me] \in Threads
      BY <1>2, MeFacts DEF ThreadForkInsert, Holding, IInv, HoldInv, PendInv, Mine
    <3> QED BY <3>1, MeFacts DEF IInv, TcbInv
  <2>2. PICK s \in Seq(Threads) : s = thr.list["READY"]
    BY Types, ListIdxFacts
  <2>3. AfterLast(s, thr.pcb, Mine, ReadySlot(thr, Mine))
    BY <2>2, ReadySlotPlace
  <2> QED BY <1>4, <2>1, <2>2, <2>3
<1> QED BY <1>2, <1>3, <1>5, <1>6, LinkStep

LEMMA ForkInsertPreserves ==
  ASSUME IInv, ForkInsert
  PROVE  IInv' /\ Kept
<1>1. PICK h \in {lock[Mine], NoThread} : h = lock[Mine]
  OBVIOUS
<1>2. /\ op[Me] = "fork_insert" /\ op' = [op EXCEPT ![Me] = "user"]
      /\ node' = [node EXCEPT ![Me] = NoThread]
      /\ UNCHANGED <<tick, tcbs, parent>> /\ lock' = lock
  BY DEF ForkInsert, Goto
<1>3. lock' = [lock EXCEPT ![Mine] = h] /\ op[Me] \in Inserting
  BY <1>1, <1>2, Types, MeFacts DEF Inserting
<1>4. h # Me
  BY <1>1, <1>2, MeFacts, ThreadAssumption DEF IInv, LockInv, LockingCalls
<1>5. PICK i \in 1..Len(thr.list["READY"]) + 1 : i = Len(thr.list["READY"]) + 1
  <2>1. Len(thr.list["READY"]) \in Nat
    BY Types, ListIdxFacts, LenProperties
  <2> QED BY <2>1
<1>6. thr' = LinkReady(node[Me], i)
  BY <1>5 DEF ForkInsert
<1>7. AfterLast(thr.list["READY"], thr.pcb, thr.pcb[node[Me]], i)
  <2>1. PICK s \in Seq(Threads) : s = thr.list["READY"]
    BY Types, ListIdxFacts
  <2>2. PICK u \in Threads, q \in Procs :
          /\ u = node[Me] /\ q = thr.pcb[u] /\ Range(tcbs[q]) = {u}
          /\ u \in Pending
    <3>1. node[Me] \in Threads /\ thr.state[node[Me]] = "READY"
      BY <1>3, MeFacts DEF IInv, PendInv
    <3>2. Range(tcbs[thr.pcb[node[Me]]]) = {node[Me]}
      BY <1>2, MeFacts DEF IInv, PendInv
    <3>3. thr.pcb[node[Me]] \in Procs
      BY <3>1 DEF IInv, TcbInv
    <3>4. node[Me] \in Pending
      BY <1>2, MeFacts DEF Pending
    <3> QED BY <3>1, <3>2, <3>3, <3>4
  <2>3. ASSUME NEW k \in 1..Len(s), thr.pcb[s[k]] = q
        PROVE  FALSE
    <3>1. s[k] \in Range(thr.list["READY"]) /\ s[k] \in Threads
      BY <2>1, LenProperties, ElementOfSeq DEF Range
    <3>2. thr.state[s[k]] = "READY" /\ s[k] \notin Pending
      BY <3>1, ListIdxFacts DEF IInv, Good, Agree
    <3>3. s[k] \in Range(tcbs[q])
      BY <2>3, <3>1, <3>2 DEF IInv, TcbInv
    <3> QED BY <2>2, <3>2, <3>3
  <2>4. Len(s) \in Nat /\ i = Len(s) + 1
    BY <1>5, <2>1, LenProperties
  <2>5. AfterLast(s, thr.pcb, q, i)
    BY <2>3, <2>4 DEF AfterLast
  <2> QED BY <2>1, <2>2, <2>5
<1> QED BY <1>1, <1>2, <1>3, <1>4, <1>6, <1>7, LinkStep

\* The new TCB is taken out of its tcb_list and freed.
LEMMA CoreFree ==
  ASSUME Core, op[Me] \in Inserting, op' = [op EXCEPT ![Me] = "user"],
         node' = [node EXCEPT ![Me] = NoThread],
         lock' \in [Procs -> Threads \cup {NoThread}],
         \A q \in Procs : lock'[q] # lock[q] => lock[q] \in {Me, NoThread},
         thr' = FreeTcb(node[Me]), NEW p \in Procs, p = thr.pcb[node[Me]],
         NEW z \in Seq(Threads), tcbs' = [tcbs EXCEPT ![p] = z],
         IsInjective(z), Range(z) = Range(tcbs[p]) \ {node[Me]},
         \A t \in Threads :
           op[t] \in {"thread_fork_insert", "task_vanish_loop"}
             /\ thr.pcb[t] = p => t = Me
  PROVE  /\ Core' /\ tcbs' \in [Procs -> Seq(Threads)]
         /\ node[Me] \in Threads /\ node[Me] # Me /\ node[Me] \in Pending
         /\ thr.state[node[Me]] = "READY" /\ op[node[Me]] = "user"
         /\ thr'.state = [thr.state EXCEPT ![node[Me]] = "NEW"]
         /\ thr'.pcb = [thr.pcb EXCEPT ![node[Me]] = NoProc]
<1> USE CoreTypes
<1>d. /\ Pending' = Pending \ {node[Me]}
      /\ node[Me] \in Pending /\ node[Me] \in Threads /\ node[Me] # Me
      /\ thr.state[node[Me]] = "READY" /\ op[node[Me]] = "user"
      /\ op' = [t \in Threads |-> op'[t]]
      /\ node' \in [Threads -> Threads \cup {NoThread}]
  BY CoreDone
<1>o. \A t \in Threads : op'[t] # "user" =>
        /\ t # Me /\ t # node[Me]
        /\ op'[t] = op[t] /\ node'[t] = node[t]
        /\ op[t] \in Inserting => node[t] # node[Me]
  BY CoreDone
<1>k. \A t \in Threads : op'[t] # "user" =>
        thr.pcb[t] \in Procs
        /\ (lock[thr.pcb[t]] = t => lock'[thr.pcb[t]] = t)
  BY CoreDone
<1>u. PICK u \in Threads : u = node[Me]
  BY <1>d
<1>g. /\ Good(thr', Pending')
      /\ thr'.state = [thr.state EXCEPT ![u] = "NEW"]
      /\ thr'.pcb = [thr.pcb EXCEPT ![u] = NoProc]
  BY <1>d, <1>u, FreeTcbGood
<1>s. /\ \A t \in Threads : t # u => /\ thr'.state[t] = thr.state[t]
                                    /\ thr'.pcb[t] = thr.pcb[t]
      /\ thr'.state[u] = "NEW"
  BY <1>g
<1>a. /\ tcbs' \in [Procs -> Seq(Threads)]
      /\ tcbs'[p] = z /\ \A q \in Procs : q # p => tcbs'[q] = tcbs[q]
      /\ u \in Range(tcbs[p])
  BY <1>d, <1>u DEF Core, TcbInv
<1>2. TcbInv'
  <2>1. \A q \in Procs : IsInjective(tcbs'[q])
    BY <1>a DEF Core, TcbInv
  <2>2. \A t \in Threads : thr'.state[t] # "NEW" => thr'.pcb[t] \in Procs
    BY <1>s DEF Core, TcbInv
  <2>3. ASSUME NEW t \in Threads, NEW q \in Procs
        PROVE  t \in Range(tcbs'[q]) <=> thr'.state[t] # "NEW" /\ thr'.pcb[t] = q
    <3>1. CASE t = u
      <4>1. t \notin Range(tcbs[q]) \/ q = p
        BY <3>1, <1>u DEF Core, TcbInv
      <4> QED BY <3>1, <4>1, <1>a, <1>s, <1>u
    <3>2. CASE t # u
      <4>1. t \in Range(tcbs'[q]) <=> t \in Range(tcbs[q])
        BY <3>2, <1>a, <1>u
      <4> QED BY <3>2, <4>1, <1>s DEF Core, TcbInv
    <3> QED BY <3>1, <3>2
  <2> QED BY <2>1, <2>2, <2>3 DEF TcbInv
<1>4. HoldInv'
  <2> SUFFICES ASSUME NEW t \in Threads,
                 op'[t] \in {"thread_fork_insert", "task_vanish_loop"}
               PROVE  /\ lock'[thr'.pcb[t]] = t
                      /\ node'[t] \in Range(tcbs'[thr'.pcb[t]])
                      /\ op'[t] = "thread_fork_insert" =>
                           node'[t] = Last(tcbs'[thr'.pcb[t]])
    BY DEF HoldInv
  <2>1. /\ op'[t] # "user" /\ op'[t] = op[t] /\ node'[t] = node[t] /\ t # u
        /\ t # Me /\ thr.pcb[t] \in Procs
    BY <1>o, <1>k, <1>u
  <2>2. thr.pcb[t] # p
    BY <2>1
  <2>3. /\ lock[thr.pcb[t]] = t /\ node[t] \in Range(tcbs[thr.pcb[t]])
        /\ op[t] = "thread_fork_insert" => node[t] = Last(tcbs[thr.pcb[t]])
    BY <2>1 DEF Core, HoldInv
  <2> QED BY <2>1, <2>2, <2>3, <1>k, <1>s, <1>a
<1>5. PendInv'
  <2>1. ASSUME NEW t \in Threads, op'[t] \in Inserting
        PROVE  /\ op'[t] = op[t] /\ node'[t] = node[t] /\ node[t] # u
               /\ node[t] \in Threads /\ thr.state[node[t]] = "READY"
    BY <2>1, <1>o, <1>u DEF Inserting, Core, PendInv
  <2>2. \A t \in Threads : op'[t] \in Inserting =>
          node'[t] \in Threads /\ thr'.state[node'[t]] = "READY"
    BY <2>1, <1>s
  <2>3. \A v, t \in Threads :
          op'[v] \in Inserting /\ op'[t] \in Inserting /\ node'[v] = node'[t]
            => v = t
    BY <2>1 DEF Core, PendInv
  <2>4. ASSUME NEW t \in Threads, op'[t] = "fork_insert"
        PROVE  Range(tcbs'[thr'.pcb[node'[t]]]) = {node'[t]}
    <3>1. /\ op[t] = "fork_insert" /\ node'[t] = node[t] /\ node[t] # u
          /\ node[t] \in Threads /\ thr.state[node[t]] = "READY"
      BY <2>1, <2>4 DEF Inserting
    <3>2. Range(tcbs[thr.pcb[node[t]]]) = {node[t]}
      BY <3>1 DEF Core, PendInv
    <3>3. thr.pcb[node[t]] \in Procs
      BY <3>1 DEF Core, TcbInv
    <3>4. thr.pcb[node[t]] # p
      BY <3>1, <3>2, <1>a
    <3> QED BY <3>1, <3>2, <3>3, <3>4, <1>s, <1>a
  <2>5. \A t \in Threads :
          thr'.state[t] = "NEW" \/ t \in Pending' => op'[t] = "user"
    <3> SUFFICES ASSUME NEW t \in Threads, op'[t] # "user"
                 PROVE  thr'.state[t] # "NEW" /\ t \notin Pending'
      OBVIOUS
    <3>1. t # u /\ op[t] # "user"
      BY <1>o, <1>u
    <3>2. thr.state[t] # "NEW" /\ t \notin Pending
      BY <3>1 DEF Core, PendInv
    <3> QED BY <3>1, <3>2, <1>d, <1>s
  <2> QED BY <2>2, <2>3, <2>4, <2>5 DEF PendInv
<1> QED BY <1>d, <1>a, <1>2, <1>4, <1>5, <1>g, <1>u DEF Core

LEMMA FreeStep ==
  ASSUME IInv, op[Me] \in Inserting, op' = [op EXCEPT ![Me] = "user"],
         node' = [node EXCEPT ![Me] = NoThread],
         NEW h \in {lock[Mine], NoThread}, h # Me,
         h # lock[Mine] => lock[Mine] = Me,
         lock' = [lock EXCEPT ![Mine] = h],
         thr' = FreeTcb(node[Me]), tick' = tick,
         parent' \in [Procs -> Procs \cup {NoProc}],
         NEW p \in Procs, p = thr.pcb[node[Me]],
         NEW z \in Seq(Threads), tcbs' = [tcbs EXCEPT ![p] = z],
         IsInjective(z), Range(z) = Range(tcbs[p]) \ {node[Me]},
         \A t \in Threads :
           op[t] \in {"thread_fork_insert", "task_vanish_loop"}
             /\ thr.pcb[t] = p => t = Me
  PROVE  IInv' /\ Kept
<1> USE Types
<1>d. /\ Pending' = Pending \ {node[Me]}
      /\ node[Me] \in Pending /\ node[Me] \in Threads /\ node[Me] # Me
      /\ thr.state[node[Me]] = "READY" /\ op[node[Me]] = "user"
      /\ op' \in [Threads -> Ops]
      /\ node' \in [Threads -> Threads \cup {NoThread}]
      /\ lock' \in [Procs -> Threads \cup {NoThread}]
  BY DoneFacts
<1>l. \A q \in Procs : lock'[q] # NoThread =>
        lock'[q] = lock[q] /\ lock[q] # Me /\ lock[q] # node[Me]
  BY DoneFacts
<1>u. PICK u \in Threads : u = node[Me]
  BY <1>d
<1>g. /\ Core' /\ tcbs' \in [Procs -> Seq(Threads)]
      /\ thr'.state = [thr.state EXCEPT ![u] = "NEW"]
      /\ thr'.pcb = [thr.pcb EXCEPT ![u] = NoProc]
  <2>1. \A q \in Procs : lock'[q] # lock[q] => lock[q] \in {Me, NoThread}
    BY MeFacts
  <2> QED BY <1>d, <1>u, <2>1, IInvCore, CoreFree
<1>t. thr' \in ThrType
  BY <1>g DEF Core, Good
<1>s. /\ \A t \in Threads : t # u => /\ thr'.state[t] = thr.state[t]
                                    /\ thr'.pcb[t] = thr.pcb[t]
      /\ thr'.state[u] = "NEW"
  BY <1>g
<1>1. TypeOK'
  BY <1>g, <1>d, <1>t DEF TypeOK, ThrType, Bookkeeping
<1>3. LockInv'
  <2> SUFFICES ASSUME NEW q \in Procs, lock'[q] # NoThread
               PROVE  /\ thr'.pcb[lock'[q]] = q
                      /\ thr'.state[lock'[q]] \in {"READY", "RUNNING"}
                      /\ op'[lock'[q]] \in LockingCalls \cup
                           {"thread_fork_insert", "task_vanish_loop"}
    BY DEF LockInv
  <2>1. /\ lock'[q] = lock[q] /\ lock[q] # Me /\ lock[q] \in Threads
        /\ lock[q] # u
    BY <1>l, <1>u
  <2>2. op'[lock[q]] = op[lock[q]]
    BY <2>1
  <2> QED BY <2>1, <2>2, <1>s DEF IInv, LockInv
<1>6. Kept
  <2>1. Ordered(thr) => Ordered(thr')
    BY <1>d, FreeTcbOrdered
  <2>2. u \in Pending /\ thr.state[u] = "READY"
    BY <1>d, <1>u
  <2> QED BY <2>1, <2>2, <1>s DEF Kept
<1> QED BY <1>1, <1>3, <1>6, <1>g DEF IInv, Core

\* POP_BACK(tcb_list) takes the TCB that thread_fork has made.
LEMMA PopBack ==
  ASSUME Core, op[Me] = "thread_fork_insert"
  PROVE  \E p \in Procs, z \in Seq(Threads) :
           /\ p = Mine /\ p = thr.pcb[node[Me]]
           /\ z = Front(tcbs[p]) /\ IsInjective(z)
           /\ Range(z) = Range(tcbs[p]) \ {node[Me]}
           /\ \A t \in Threads :
                op[t] \in {"thread_fork_insert", "task_vanish_loop"}
                  /\ thr.pcb[t] = p => t = Me
<1>1. node[Me] \in Range(tcbs[Mine]) /\ node[Me] = Last(tcbs[Mine])
      /\ node[Me] \in Threads /\ lock[Mine] = Me
  BY CoreMe DEF Core, HoldInv, PendInv, Mine, Inserting
<1>2. PICK p \in Procs : p = Mine
  BY CoreMe
<1>3. p = thr.pcb[node[Me]]
  BY <1>1, <1>2, CoreMe DEF Core, TcbInv
<1>4. PICK q \in Seq(Threads) : q = tcbs[p] /\ IsInjective(q)
  BY CoreTypes DEF Core, TcbInv
<1>5. PICK e \in Range(q) : e = node[Me] /\ e = Last(q)
  BY <1>1, <1>2, <1>4
<1>6. /\ Front(q) \in Seq(Threads) /\ IsInjective(Front(q))
      /\ Range(Front(q)) = Range(q) \ {e}
  BY <1>4, <1>5, DropLast
<1>7. \A t \in Threads :
        op[t] \in {"thread_fork_insert", "task_vanish_loop"}
          /\ thr.pcb[t] = p => t = Me
  BY <1>1, <1>2 DEF Core, HoldInv
<1> QED BY <1>2, <1>3, <1>4, <1>5, <1>6, <1>7

LEMMA ThreadForkFailPreserves ==
  ASSUME IInv, ThreadForkFail
  PROVE  IInv' /\ Kept
<1>1. CASE Holding("thread_fork") /\ UNCHANGED <<thr, tcbs, node>>
  <2>1. lock[Mine] = Me /\ op[Me] \notin Inserting
    BY <1>1 DEF Holding, Inserting
  <2>2. PICK o \in Ops \ (Inserting \cup {"task_vanish_loop"}) : o = "user"
    BY DEF Ops, Inserting
  <2>3. Goto(o) /\ Unlock /\ UNCHANGED <<thr, tick, tcbs, parent, node>>
    BY <1>1, <2>2 DEF ThreadForkFail
  <2> QED BY <2>1, <2>3, UnlockStep
<1>2. CASE /\ Holding("thread_fork_insert")
           /\ thr' = FreeTcb(node[Me])
           /\ tcbs' = [tcbs EXCEPT ![Mine] = Front(@)]
           /\ node' = [node EXCEPT ![Me] = NoThread]
  <2>1. /\ op[Me] = "thread_fork_insert" /\ lock[Mine] = Me
        /\ op[Me] \in Inserting
        /\ op' = [op EXCEPT ![Me] = "user"] /\ tick' = tick /\ parent' = parent
        /\ parent' \in [Procs -> Procs \cup {NoProc}]
    BY <1>2, Types DEF ThreadForkFail, Goto, Holding, Inserting
  <2>2. PICK h \in {lock[Mine], NoThread} : h = NoThread
    OBVIOUS
  <2>3. lock' = [lock EXCEPT ![Mine] = h] /\ h # Me
    BY <2>2, MeFacts, ThreadAssumption DEF ThreadForkFail, Unlock
  <2>4. PICK p \in Procs, z \in Seq(Threads) :
           /\ p = Mine /\ p = thr.pcb[node[Me]]
           /\ z = Front(tcbs[p]) /\ IsInjective(z)
           /\ Range(z) = Range(tcbs[p]) \ {node[Me]}
           /\ \A t \in Threads :
                op[t] \in {"thread_fork_insert", "task_vanish_loop"}
                  /\ thr.pcb[t] = p => t = Me
    BY <2>1, PopBack, IInvCore
  <2>5. tcbs' = [tcbs EXCEPT ![p] = z]
    BY <1>2, <2>4
  <2> QED BY <1>2, <2>1, <2>3, <2>4, <2>5, FreeStep
<1> QED BY <1>1, <1>2 DEF ThreadForkFail

LEMMA ForkFailPreserves ==
  ASSUME IInv, ForkFail
  PROVE  IInv' /\ Kept
<1>0. op' = [op EXCEPT ![Me] = "user"] /\ tick' = tick /\ lock' = lock
  BY DEF ForkFail, Goto
<1>l. op[Me] \in {"fork_build", "fork_insert"} => lock[Mine] # Me
  BY MeFacts, ThreadAssumption DEF IInv, LockInv, LockingCalls
<1>1. CASE op[Me] = "fork_build" /\ UNCHANGED <<thr, tcbs, parent, node>>
  <2>1. PICK o \in Ops \ (Inserting \cup {"task_vanish_loop"}),
             h \in {lock[Mine], NoThread}, n \in Threads \cup {NoThread},
           x \in Threads \cup {NoThread} :
           o = "user" /\ h = lock[Mine] /\ n = node[Me] /\ x = NoThread
    BY Types, MeFacts DEF Ops, Inserting
  <2>2. /\ op' = [op EXCEPT ![Me] = o] /\ lock' = [lock EXCEPT ![Mine] = h]
        /\ node' = [node EXCEPT ![Me] = n]
    BY <1>0, <1>1, <2>1, Types, MeFacts
  <2>3. h # Me /\ (x \in Threads => Own(x) /\ h # x)
    BY <1>1, <1>l, <2>1, ThreadAssumption
  <2>4. Moved(thr, thr', Pending, x) /\ op[Me] \notin Inserting
    BY <1>1, MovedSelf DEF IInv, Inserting
  <2> QED BY <1>0, <1>1, <2>1, <2>2, <2>3, <2>4, CallStep
<1>2. CASE /\ op[Me] = "fork_insert"
           /\ tcbs' = [tcbs EXCEPT ![thr.pcb[node[Me]]] = <<>>]
           /\ parent' = [parent EXCEPT ![thr.pcb[node[Me]]] = NoProc]
           /\ thr' = FreeTcb(node[Me])
           /\ node' = [node EXCEPT ![Me] = NoThread]
  <2>1. op[Me] \in Inserting
    BY <1>2 DEF Inserting
  <2>2. PICK h \in {lock[Mine], NoThread} : h = lock[Mine]
    OBVIOUS
  <2>3. lock' = [lock EXCEPT ![Mine] = h] /\ h # Me
    BY <1>0, <1>2, <1>l, <2>2, Types, MeFacts
  <2>4. /\ node[Me] \in Threads /\ thr.state[node[Me]] = "READY"
        /\ Range(tcbs[thr.pcb[node[Me]]]) = {node[Me]}
        /\ op[node[Me]] = "user"
    <3>1. node[Me] \in Pending
      BY <1>2, MeFacts DEF Pending
    <3> QED BY <3>1, <1>2, <2>1, MeFacts DEF IInv, PendInv
  <2>5. PICK p \in Procs : p = thr.pcb[node[Me]]
    BY <2>4 DEF IInv, TcbInv
  <2>6. PICK z \in Seq(Threads) : z = <<>>
    <3>1. <<>> \in Seq(Threads)
      OBVIOUS
    <3> QED BY <3>1, Zenon
  <2>7. /\ tcbs' = [tcbs EXCEPT ![p] = z] /\ IsInjective(z)
        /\ Range(z) = Range(tcbs[p]) \ {node[Me]}
    <3>1. IsInjective(z) /\ Range(z) = {}
      BY <2>6 DEF IsInjective, Range
    <3> QED BY <1>2, <2>4, <2>5, <2>6, <3>1
  <2>8. parent' \in [Procs -> Procs \cup {NoProc}]
    BY <1>2, Types
  <2>9. \A t \in Threads :
          op[t] \in {"thread_fork_insert", "task_vanish_loop"}
            /\ thr.pcb[t] = p => t = Me
    <3> SUFFICES ASSUME NEW t \in Threads, thr.pcb[t] = p,
                   op[t] \in {"thread_fork_insert", "task_vanish_loop"}
                 PROVE  FALSE
      OBVIOUS
    <3>1. thr.state[t] # "NEW"
      BY DEF IInv, PendInv
    <3>2. t \in Range(tcbs[p])
      BY <3>1 DEF IInv, TcbInv
    <3>3. t = node[Me]
      BY <3>2, <2>4, <2>5
    <3> QED BY <3>3, <2>4
  <2> QED BY <1>0, <1>2, <2>1, <2>2, <2>3, <2>5, <2>7, <2>8, <2>9, FreeStep
<1> QED BY <1>1, <1>2 DEF ForkFail

-----------------------------------------------------------------------------
(***************************************************************************)
(* The invariant.                                                          *)
(***************************************************************************)

\* The lists at boot.
LEMMA InitLists ==
  ASSUME Init
  PROVE  /\ \A l \in ListIdx : thr.list[l] \in
              {<<>>, <<IdleThread>>, <<InitThread>>}
         /\ thr.list["RUNNING"] = <<IdleThread>>
         /\ thr.list["READY"] = <<InitThread>>
         /\ \A l \in ListIdx \ {"RUNNING", "READY"} : thr.list[l] = <<>>
         /\ DOMAIN thr.list = ListIdx
<1>1. thr.list = [l \in ListIdx |-> CASE l = "RUNNING" -> <<IdleThread>>
                                       [] l = "READY" -> <<InitThread>>
                                       [] OTHER -> <<>>]
  BY DEF Init
<1>2. thr.list["RUNNING"] = <<IdleThread>>
  BY <1>1, ListIdxFacts
<1>3. thr.list["READY"] = <<InitThread>>
  BY <1>1, ListIdxFacts
<1>4. \A l \in ListIdx \ {"RUNNING", "READY"} : thr.list[l] = <<>>
  BY <1>1
<1>5. DOMAIN thr.list = ListIdx
  BY <1>1
<1> QED BY <1>2, <1>3, <1>4, <1>5

LEMMA InitStates ==
  ASSUME Init
  PROVE  /\ thr.state[IdleThread] = "RUNNING"
         /\ thr.state[InitThread] = "READY"
         /\ \A t \in Threads \ {IdleThread, InitThread} : thr.state[t] = "NEW"
         /\ thr.pcb[IdleThread] = IdleProc
         /\ thr.pcb[InitThread] = InitProc
         /\ \A t \in Threads \ {IdleThread, InitThread} : thr.pcb[t] = NoProc
         /\ tcbs[IdleProc] = <<IdleThread>>
         /\ tcbs[InitProc] = <<InitThread>>
         /\ \A p \in Procs \ {IdleProc, InitProc} : tcbs[p] = <<>>
<1>1. thr.state = [t \in Threads |-> CASE t = IdleThread -> "RUNNING"
                                        [] t = InitThread -> "READY"
                                        [] OTHER -> "NEW"]
  BY DEF Init
<1>2. thr.pcb = [t \in Threads |-> CASE t = IdleThread -> IdleProc
                                      [] t = InitThread -> InitProc
                                      [] OTHER -> NoProc]
  BY DEF Init
<1>3. tcbs = [p \in Procs |-> CASE p = IdleProc -> <<IdleThread>>
                                 [] p = InitProc -> <<InitThread>>
                                 [] OTHER -> <<>>]
  BY DEF Init
<1>4. /\ thr.state[IdleThread] = "RUNNING" /\ thr.state[InitThread] = "READY"
      /\ \A t \in Threads \ {IdleThread, InitThread} : thr.state[t] = "NEW"
  BY <1>1, ThreadAssumption
<1>5. /\ thr.pcb[IdleThread] = IdleProc /\ thr.pcb[InitThread] = InitProc
      /\ \A t \in Threads \ {IdleThread, InitThread} : thr.pcb[t] = NoProc
  BY <1>2, ThreadAssumption
<1>6. /\ tcbs[IdleProc] = <<IdleThread>> /\ tcbs[InitProc] = <<InitThread>>
      /\ \A p \in Procs \ {IdleProc, InitProc} : tcbs[p] = <<>>
  BY <1>3, ProcAssumption
<1> QED BY <1>4, <1>5, <1>6

LEMMA InitIInv ==
  ASSUME Init
  PROVE  IInv
<1>1. /\ \A t \in Threads : op[t] = "user" /\ node[t] = NoThread
      /\ \A p \in Procs : lock[p] = NoThread
      /\ tick = 0
      /\ op \in [Threads -> Ops] /\ lock \in [Procs -> Threads \cup {NoThread}]
      /\ node \in [Threads -> Threads \cup {NoThread}]
      /\ parent \in [Procs -> Procs \cup {NoProc}]
      /\ tick \in 0..TickMod - 1
  BY ProcAssumption, TickAssumption DEF Init, Ops
<1>2. Pending = {}
  BY <1>1 DEF Pending
<1>3. /\ <<>> \in Seq(Threads) /\ <<IdleThread>> \in Seq(Threads)
      /\ <<InitThread>> \in Seq(Threads)
      /\ IsInjective(<<>>) /\ IsInjective(<<IdleThread>>)
      /\ IsInjective(<<InitThread>>)
      /\ Range(<<>>) = {} /\ Range(<<IdleThread>>) = {IdleThread}
      /\ Range(<<InitThread>>) = {InitThread}
  BY ThreadAssumption DEF IsInjective, Range
<1>4. thr \in ThrType
  <2>1. /\ thr.list \in [ListIdx -> Seq(Threads)]
        /\ thr.detail \in [Threads -> Details]
    <3>1. thr.list = [l \in ListIdx |-> thr.list[l]]
      BY DEF Init
    <3>2. \A l \in ListIdx : thr.list[l] \in Seq(Threads)
      BY <1>3, InitLists
    <3>3. thr.detail \in [Threads -> Details]
      BY NoDetailType DEF Init
    <3> QED BY <3>1, <3>2, <3>3
  <2>2. /\ thr.state \in [Threads -> ListIdx \cup {"NEW"}]
        /\ thr.pcb \in [Threads -> Procs \cup {NoProc}]
    <3>1. /\ thr.state = [t \in Threads |-> thr.state[t]]
          /\ thr.pcb = [t \in Threads |-> thr.pcb[t]]
      BY DEF Init
    <3>2. \A t \in Threads : thr.state[t] \in ListIdx \cup {"NEW"}
      BY InitStates, ListIdxFacts
    <3>3. \A t \in Threads : thr.pcb[t] \in Procs \cup {NoProc}
      BY InitStates, ProcAssumption
    <3> QED BY <3>1, <3>2, <3>3
  <2>3. thr = [list |-> thr.list, state |-> thr.state, detail |-> thr.detail,
               pcb |-> thr.pcb]
    BY DEF Init
  <2> QED BY <2>1, <2>2, <2>3 DEF ThrType, Bookkeeping
<1>5. tcbs \in [Procs -> Seq(Threads)]
  <2>1. tcbs = [p \in Procs |-> tcbs[p]]
    BY DEF Init
  <2>2. \A p \in Procs : tcbs[p] \in Seq(Threads)
    BY <1>3, InitStates
  <2> QED BY <2>1, <2>2
<1>6. TypeOK
  BY <1>1, <1>4, <1>5 DEF TypeOK, ThrType, Bookkeeping
<1>n. "NEW" \notin ListIdx
  BY DEF ListIdx, Reasons
<1>7. Agree(thr, Pending, Threads)
  <2>1. \A l \in ListIdx : IsInjective(thr.list[l])
    BY <1>3, InitLists
  <2>2. ASSUME NEW l \in ListIdx, NEW t \in Threads, t \in Range(thr.list[l])
        PROVE  thr.state[t] = l
    BY <2>2, <1>3, InitLists, InitStates
  <2>3. ASSUME NEW l \in ListIdx, NEW t \in Threads, thr.state[t] = l
        PROVE  t \in Range(thr.list[l])
    BY <2>3, <1>3, <1>n, InitLists, InitStates
  <2> QED BY <1>2, <2>1, <2>2, <2>3 DEF Agree
<1>8. Good(thr, Pending)
  BY <1>4, <1>7, InitLists, ThreadAssumption DEF Good
<1>9. TcbInv
  <2>1. \A p \in Procs : IsInjective(tcbs[p])
    BY <1>3, InitStates
  <2>2. \A t \in Threads : thr.state[t] # "NEW" => thr.pcb[t] \in Procs
    BY InitStates, ProcAssumption
  <2>3. ASSUME NEW t \in Threads, NEW p \in Procs
        PROVE  t \in Range(tcbs[p]) <=> thr.state[t] # "NEW" /\ thr.pcb[t] = p
    <3>1. CASE t \notin {IdleThread, InitThread}
      BY <3>1, <1>3, InitStates
    <3>2. CASE t \in {IdleThread, InitThread}
      BY <3>2, <1>3, InitStates, ThreadAssumption, ProcAssumption
    <3> QED BY <3>1, <3>2
  <2> QED BY <2>1, <2>2, <2>3 DEF TcbInv
<1>10. LockInv /\ HoldInv /\ PendInv
  BY <1>1, <1>2 DEF LockInv, HoldInv, PendInv, Inserting
<1> QED BY <1>6, <1>8, <1>9, <1>10 DEF IInv

\* A stuttering step.
LEMMA StutterPreserves ==
  ASSUME IInv, UNCHANGED vars
  PROVE  IInv' /\ Kept
<1>1. Moved(thr, thr', Pending, NoThread)
  BY MovedSelf DEF IInv, vars
<1>2. tick' \in 0..TickMod - 1
  BY Types DEF vars
<1> QED BY <1>1, <1>2, LocalStep DEF vars

LEMMA NextPreserves ==
  ASSUME IInv, [Next]_vars
  PROVE  IInv' /\ Kept
<1>1. CASE Timer
  BY <1>1, TimerPreserves
<1>2. CASE MutexLock
  BY <1>2, MutexLockPreserves
<1>3. CASE \E t \in Threads \cup {NoThread} : Yield(t)
  BY <1>3, YieldPreserves
<1>4. CASE \E o \in Calls : Call(o)
  BY <1>4, CallPreserves
<1>5. CASE \E n \in SleepArgs : Sleep(n)
  BY <1>5, SleepPreserves
<1>6. CASE \E reject \in BOOLEAN : Deschedule(reject)
  BY <1>6, DeschedulePreserves
<1>7. CASE \E t \in Threads : MakeRunnable(t)
  BY <1>7, MakeRunnablePreserves
<1>8. CASE \E u \in Threads : ThreadForkCreate(u)
  BY <1>8, ThreadForkCreatePreserves
<1>9. CASE ThreadForkInsert
  BY <1>9, ThreadForkInsertPreserves
<1>10. CASE ThreadForkFail
  BY <1>10, ThreadForkFailPreserves
<1>11. CASE ForkCheck
  BY <1>11, ForkCheckPreserves
<1>12. CASE \E u \in Threads, q \in Procs : ForkBuild(u, q)
  BY <1>12, ForkBuildPreserves
<1>13. CASE ForkInsert
  BY <1>13, ForkInsertPreserves
<1>14. CASE ForkFail
  BY <1>14, ForkFailPreserves
<1>15. CASE VanishLast
  BY <1>15, VanishLastPreserves
<1>16. CASE VanishThread
  BY <1>16, VanishThreadPreserves
<1>17. CASE TaskVanishBegin
  BY <1>17, TaskVanishBeginPreserves
<1>18. CASE TaskVanishStep
  BY <1>18, TaskVanishStepPreserves
<1>19. CASE UNCHANGED vars
  BY <1>19, StutterPreserves
<1> QED
  BY <1>1, <1>2, <1>3, <1>4, <1>5, <1>6, <1>7, <1>8, <1>9, <1>10, <1>11,
     <1>12, <1>13, <1>14, <1>15, <1>16, <1>17, <1>18, <1>19 DEF Next

\* The inductive invariant holds in every reachable state: whatever the
\* timer interrupts, the lists, the TCBs, the PCB locks and the TCBs under
\* construction stay consistent with one another.
THEOREM Invariance == Spec => []IInv
<1>1. Init => IInv
  BY InitIInv
<1>2. IInv /\ [Next]_vars => IInv' /\ Kept
  BY NextPreserves
<1> QED BY <1>1, <1>2, PTL DEF Spec

\* Every variable keeps its type, for any number of threads and processes;
\* in particular no list operation of alter_state leaves the lists' domain.
THEOREM TypeCorrect == Spec => []TypeOK
<1>1. IInv => TypeOK
  BY DEF IInv
<1> QED BY <1>1, Invariance, PTL

\* Exactly one thread runs, and each thread is once in the list its state
\* names, under every interleaving of the timer with fork, thread_fork,
\* vanish, task_vanish and the blocking calls.
THEOREM ListsAgreeAlways == Spec => []ListsAgree
<1>1. IInv => ListsAgree
  <2> SUFFICES ASSUME IInv PROVE ListsAgree
    OBVIOUS
  <2>1. Len(thr.list["RUNNING"]) = 1
    BY MeFacts
  <2>2. Agree(thr, Pending, Threads)
    BY DEF IInv, Good
  <2> QED BY <2>1, <2>2 DEF ListsAgree, Agree
<1> QED BY <1>1, Invariance, PTL

\* The holder of a PCB lock is a live thread of the process, runnable or
\* running: mutex_lock never spins on a thread that cannot release the lock.
THEOREM HolderCanRunAlways == Spec => []HolderCanRun
<1>1. IInv => HolderCanRun
  BY DEF IInv, LockInv, HolderCanRun
<1> QED BY <1>1, Invariance, PTL

-----------------------------------------------------------------------------
(***************************************************************************)
(* The idle thread, and the walk of task_vanish over the tcb_list.         *)
(***************************************************************************)

\* The idle thread is always there to be run: it makes no system call, and
\* nobody else of its process could terminate it.
IdleInv ==
  /\ op[IdleThread] = "user"
  /\ thr.state[IdleThread] \in {"READY", "RUNNING"}
  /\ IdleThread \notin Pending
  /\ tcbs[IdleProc] = <<IdleThread>>

\* A thread in the loop of task_vanish runs, and the TCBs it has passed are
\* terminated, but for its own.
WalkInv ==
  \A t \in Threads : op[t] = "task_vanish_loop" =>
    /\ t = Me
    /\ \A i, j \in 1..Len(tcbs[Mine]) :
         i < j /\ tcbs[Mine][j] = node[t] /\ tcbs[Mine][i] # t =>
           thr.state[tcbs[Mine][i]] = "TERMINATED"

\* What a step does to the places in calls and to the tcb_lists.
StepShape ==
  /\ \A t \in Threads : t # Me => op'[t] = op[t] /\ node'[t] = node[t]
  /\ op'[Me] \in Inserting =>
       \/ op'[Me] = op[Me] /\ node'[Me] = node[Me]
       \/ node'[Me] \in Threads /\ thr.state[node'[Me]] = "NEW"
  /\ op[Me] = "user" /\ Me = IdleThread => op'[Me] = "user"
  /\ \A p \in Procs : tcbs'[p] = tcbs[p] \/ p = Mine \/ tcbs[p] = <<>>
       \/ (op[Me] = "fork_insert" /\ p = thr.pcb[node[Me]])
  /\ tcbs' = tcbs \/ op[Me] # "user"
  /\ op'[Me] = "task_vanish_loop" =>
       op[Me] = "task_vanish_loop" \/ TaskVanishBegin
  /\ op[Me] = "task_vanish_loop" => TaskVanishStep \/ UNCHANGED vars

\* Steps that leave the calls and the tcb_lists alone.
LEMMA ShapeSame ==
  ASSUME IInv, op[Me] # "task_vanish_loop", UNCHANGED <<tcbs, op, node>>
  PROVE  StepShape
BY DEF StepShape

\* The shape of every step.
LEMMA ShapeNext ==
  ASSUME IInv, [Next]_vars
  PROVE  StepShape
<1> USE Types, MeFacts
<1>1. CASE Timer
  BY <1>1, ShapeSame DEF Timer, InterruptsEnabled
<1>2. CASE MutexLock
  BY <1>2, ShapeSame DEF MutexLock, LockingCalls
<1>3. CASE \E t \in Threads \cup {NoThread} : Yield(t)
  BY <1>3, ShapeSame DEF Yield
<1>4. CASE \E o \in Calls : Call(o)
  <2>1. PICK o \in Calls : Call(o)
    BY <1>4
  <2>2. o \notin Inserting \cup {"task_vanish_loop"}
    BY CallAssumption DEF LockingCalls, Inserting
  <2>3. /\ tcbs' = tcbs /\ op' = [op EXCEPT ![Me] = o] /\ node' = node
        /\ op[Me] = "user" /\ Me # IdleThread
    BY <2>1 DEF Call, Goto
  <2> QED BY <2>2, <2>3 DEF StepShape
<1>5. CASE \E n \in SleepArgs : Sleep(n)
  BY <1>5 DEF Sleep, Block, Goto, Holding, StepShape, Inserting
<1>6. CASE \E reject \in BOOLEAN : Deschedule(reject)
  BY <1>6 DEF Deschedule, Block, Goto, Holding, StepShape, Inserting
<1>7. CASE \E t \in Threads : MakeRunnable(t)
  BY <1>7, ShapeSame DEF MakeRunnable
<1>8. CASE \E u \in Threads : ThreadForkCreate(u)
  BY <1>8 DEF ThreadForkCreate, Goto, Holding, StepShape
<1>9. CASE ThreadForkInsert
  BY <1>9 DEF ThreadForkInsert, Goto, Holding, StepShape, Inserting
<1>10. CASE ThreadForkFail
  BY <1>10 DEF ThreadForkFail, Goto, Holding, StepShape, Inserting
<1>11. CASE ForkCheck
  BY <1>11 DEF ForkCheck, Goto, Holding, StepShape, Inserting
<1>12. CASE \E u \in Threads, q \in Procs : ForkBuild(u, q)
  BY <1>12 DEF ForkBuild, Goto, StepShape
<1>13. CASE ForkInsert
  BY <1>13 DEF ForkInsert, Goto, StepShape, Inserting
<1>14. CASE ForkFail
  BY <1>14 DEF ForkFail, Goto, StepShape, Inserting
<1>15. CASE VanishLast
  BY <1>15 DEF VanishLast, Goto, Holding, StepShape, Inserting
<1>16. CASE VanishThread
  BY <1>16 DEF VanishThread, Block, Goto, Holding, StepShape, Inserting
<1>17. CASE TaskVanishBegin
  BY <1>17 DEF TaskVanishBegin, Goto, Holding, StepShape, Inserting
<1>18. CASE TaskVanishStep
  BY <1>18 DEF TaskVanishStep, Goto, StepShape, Inserting
<1>19. CASE UNCHANGED vars
  BY <1>19 DEF vars, StepShape
<1> QED
  BY <1>1, <1>2, <1>3, <1>4, <1>5, <1>6, <1>7, <1>8, <1>9, <1>10, <1>11,
     <1>12, <1>13, <1>14, <1>15, <1>16, <1>17, <1>18, <1>19 DEF Next

\* Idle is never in its process's way: a thread other than it belongs to
\* another process, and it never holds its PCB lock.
LEMMA IdleFacts ==
  ASSUME IInv, IdleInv
  PROVE  /\ IdleThread \in Threads /\ IdleProc \in Procs
         /\ thr.pcb[IdleThread] = IdleProc
         /\ Mine = IdleProc => Me = IdleThread
         /\ lock[Mine] = Me => Mine # IdleProc
<1>1. IdleThread \in Threads /\ IdleProc \in Procs
  BY ThreadAssumption, ProcAssumption
<1>2. Range(tcbs[IdleProc]) = {IdleThread}
  BY <1>1, SingletonFacts DEF IdleInv
<1>3. thr.pcb[IdleThread] = IdleProc
  BY <1>1, <1>2 DEF IInv, TcbInv
<1>4. Mine = IdleProc => Me = IdleThread
  BY <1>2, MeFacts
<1>5. lock[Mine] = Me => Mine # IdleProc
  <2> SUFFICES ASSUME lock[Mine] = Me, Mine = IdleProc PROVE FALSE
    OBVIOUS
  <2>1. op[Me] = "user"
    BY <1>4 DEF IdleInv
  <2> QED BY <2>1, MeFacts, ThreadAssumption DEF IInv, LockInv, LockingCalls
<1> QED BY <1>1, <1>3, <1>4, <1>5

LEMMA IdlePreserved ==
  ASSUME IInv, IdleInv, [Next]_vars
  PROVE  IdleInv'
<1> USE IdleFacts, MeFacts
<1>s. StepShape /\ Kept
  BY ShapeNext, NextPreserves
<1>1. op'[IdleThread] = "user"
  BY <1>s DEF StepShape, IdleInv
<1>2. IdleThread \notin Pending'
  <2> SUFFICES ASSUME NEW t \in Threads, op'[t] \in Inserting,
                      node'[t] = IdleThread
               PROVE  FALSE
    BY DEF Pending, Inserting
  <2>1. \/ op[t] \in Inserting /\ node[t] = IdleThread
        \/ thr.state[IdleThread] = "NEW"
    <3>1. CASE t = Me
      BY <1>s, <3>1 DEF StepShape
    <3>2. CASE t # Me
      BY <1>s, <3>2 DEF StepShape
    <3> QED BY <3>1, <3>2
  <2>2. op[t] \in Inserting /\ node[t] = IdleThread => IdleThread \in Pending
    BY DEF Pending, Inserting
  <2> QED BY <2>1, <2>2 DEF IdleInv
<1>3. thr'.state[IdleThread] \in {"READY", "RUNNING"}
  <2>1. ~Own(IdleThread)
    BY DEF Own
  <2> QED BY <1>s, <2>1 DEF Kept, IdleInv
<1>4. tcbs'[IdleProc] = <<IdleThread>>
  <2>1. tcbs[IdleProc] = <<IdleThread>> /\ tcbs[IdleProc] # <<>>
    BY DEF IdleInv
  <2>2. CASE Mine = IdleProc
    <3>1. op[Me] = "user"
      BY <2>2 DEF IdleInv
    <3> QED BY <1>s, <2>1, <3>1 DEF StepShape
  <2>3. CASE op[Me] = "fork_insert" /\ IdleProc = thr.pcb[node[Me]]
    <3>1. Range(tcbs[IdleProc]) = {node[Me]} /\ node[Me] \in Pending
      BY <2>3 DEF IInv, PendInv, Pending
    <3>2. Range(tcbs[IdleProc]) = {IdleThread}
      BY <2>1, SingletonFacts
    <3> QED BY <3>1, <3>2 DEF IdleInv
  <2>4. CASE /\ Mine # IdleProc
             /\ ~(op[Me] = "fork_insert" /\ IdleProc = thr.pcb[node[Me]])
    BY <1>s, <2>1, <2>4 DEF StepShape
  <2> QED BY <2>2, <2>3, <2>4
<1> QED BY <1>1, <1>2, <1>3, <1>4 DEF IdleInv

\* task_vanish terminates the sibling it looks at, and changes the state of
\* no other thread: the caller goes on running.
LEMMA KillFacts ==
  ASSUME Core, TaskVanishStep
  PROVE  /\ node[Me] \in Range(tcbs[Mine]) /\ node[Me] \in Threads
         /\ node[Me] # Me => thr'.state[node[Me]] = "TERMINATED"
         /\ \A t \in Threads : t # node[Me] => thr'.state[t] = thr.state[t]
         /\ thr'.state[Me] = "RUNNING"
<1> DEFINE u == node[Me]
<1>1. op[Me] = "task_vanish_loop"
  BY DEF TaskVanishStep
<1>2. lock[Mine] = Me /\ u \in Range(tcbs[Mine])
  BY <1>1, CoreMe DEF Core, HoldInv, Mine
<1>3. u \in Threads /\ thr.state[u] # "NEW"
  <2>1. tcbs[Mine] \in Seq(Threads)
    BY CoreTypes, CoreMe
  <2>2. u \in Threads
    BY <1>2, <2>1, RangeOfSeq
  <2> QED BY <1>2, <2>2, CoreMe DEF Core, TcbInv
<1>4. u \notin Pending
  BY <1>1, <1>2, NoPendingSibling
<1>5. CASE u = Me
  <2>1. thr' = thr
    BY <1>5 DEF TaskVanishStep
  <2> QED BY <1>2, <1>3, <1>5, <2>1, CoreMe
<1>6. CASE u # Me
  <2>1. thr' = AlterState(thr, u, "TERMINATED", NoDetail)
    BY <1>6 DEF TaskVanishStep
  <2> HIDE DEF u
  <2>2. CASE u \in Range(thr.list[thr.state[u]])
    <3>1. thr.state[u] \in ListIdx
      BY <1>3, CoreTypes
    <3>2. thr'.state = [thr.state EXCEPT ![u] = "TERMINATED"]
      BY <2>1, <2>2, <3>1 DEF AlterState
    <3>3. /\ thr'.state[u] = "TERMINATED"
          /\ \A t \in Threads : t # u => thr'.state[t] = thr.state[t]
      BY <1>3, <3>2, CoreTypes
    <3> QED BY <1>2, <1>3, <1>6, <3>3, CoreMe DEF u
  <2>3. CASE u \notin Range(thr.list[thr.state[u]])
    <3>1. thr.state[u] = "TERMINATED"
      BY <1>3, <1>4, <2>3, CoreTypes DEF Core, Good, Agree
    <3>2. thr' = thr
      BY <2>1, <2>3 DEF AlterState
    <3> QED BY <1>2, <1>3, <1>6, <3>1, <3>2, CoreMe DEF u
  <2> QED BY <2>2, <2>3
<1> QED BY <1>5, <1>6

\* The caller runs on.
LEMMA WalkerRuns ==
  ASSUME Core, Core', TaskVanishStep
  PROVE  Me' = Me
<1>1. Me' \in Threads /\ thr'.state[Me'] = "RUNNING"
  <2>1. PICK T, P : T = thr' /\ P = Pending' /\ Good(T, P)
    BY DEF Core
  <2>2. RunningThread(T) \in Threads /\ T.state[RunningThread(T)] = "RUNNING"
    BY <2>1, RunningFacts
  <2> QED BY <2>1, <2>2 DEF Me
<1>2. PICK m \in Threads : m = Me'
  BY <1>1
<1>3. thr.state[m] = "RUNNING"
  BY <1>1, <1>2, KillFacts, CoreMe
<1>4. m \notin Pending
  <2>1. \A t \in Threads : op[t] \in Inserting => thr.state[node[t]] = "READY"
    BY DEF Core, PendInv
  <2> QED BY <2>1, <1>3 DEF Pending, Inserting
<1>5. m \in Range(thr.list["RUNNING"])
  BY <1>3, <1>4, ListIdxFacts DEF Core, Good, Agree
<1>6. thr.list["RUNNING"] = <<Me>> /\ Range(<<Me>>) = {Me}
  BY CoreMe, SingletonFacts
<1> QED BY <1>2, <1>5, <1>6

\* The dead stay dead in a step.
DeadKept ==
  \A t \in Threads :
    thr.state[t] = "TERMINATED" => thr'.state[t] = "TERMINATED"

\* The TCBs the walk has passed after a step: those it had passed, and the
\* one it looked at.
LEMMA Passed ==
  ASSUME Core, WalkInv, TaskVanishStep, DeadKept,
         NEW k \in 1..Len(tcbs[Mine]), tcbs[Mine][k] = node[Me],
         NEW i \in 1..Len(tcbs[Mine]), i <= k, tcbs[Mine][i] # Me
  PROVE  thr'.state[tcbs[Mine][i]] = "TERMINATED"
<1>0. tcbs[Mine] \in Seq(Threads) /\ Len(tcbs[Mine]) \in Nat
  BY CoreTypes, CoreMe, LenProperties
<1>1. CASE i = k
  BY <1>1, KillFacts
<1>2. CASE i # k
  <2>0. i < k
    BY <1>0, <1>2
  <2>1. op[Me] = "task_vanish_loop"
    BY DEF TaskVanishStep
  <2>2. thr.state[tcbs[Mine][i]] = "TERMINATED"
    BY <2>0, <2>1, CoreMe DEF WalkInv
  <2>3. tcbs[Mine][i] \in Threads
    BY <1>0, ElementOfSeq
  <2> QED BY <2>2, <2>3 DEF DeadKept
<1> QED BY <1>1, <1>2

\* The walk begins at the front of tcb_list.
LEMMA WalkBegins ==
  ASSUME Core, TaskVanishBegin,
         \A t \in Threads : op[t] # "task_vanish_loop"
  PROVE  WalkInv'
<1>0. /\ Me \in Threads /\ tcbs[Mine] \in Seq(Threads)
      /\ Len(tcbs[Mine]) \in Nat /\ Mine \in Procs
      /\ Me \in Range(tcbs[Mine]) /\ IsInjective(tcbs[Mine])
      /\ DOMAIN tcbs[Mine] = 1..Len(tcbs[Mine])
  BY CoreTypes, CoreMe, LenProperties DEF Core, TcbInv
<1> SUFFICES ASSUME NEW t \in Threads, op'[t] = "task_vanish_loop"
             PROVE  /\ t = Me'
                    /\ \A i, j \in 1..Len(tcbs'[Mine']) :
                         i < j /\ tcbs'[Mine'][j] = node'[t]
                           /\ tcbs'[Mine'][i] # t =>
                           thr'.state[tcbs'[Mine'][i]] = "TERMINATED"
  BY DEF WalkInv
<1>1. t = Me
  BY <1>0, CoreTypes DEF TaskVanishBegin, Goto
<1>2. /\ Me' = Me /\ Mine' = Mine /\ tcbs' = tcbs
      /\ node'[t] = Head(tcbs[Mine])
  BY <1>1, CoreTypes, CoreMe DEF TaskVanishBegin, Me, Mine
<1>3. Len(tcbs[Mine]) # 0
  BY <1>0 DEF Range
<1>4. node'[t] = tcbs[Mine][1] /\ 1 \in 1..Len(tcbs[Mine])
  BY <1>0, <1>2, <1>3
<1>5. \A j \in 1..Len(tcbs[Mine]) : tcbs[Mine][j] = node'[t] => j = 1
  BY <1>0, <1>4 DEF IsInjective
<1> QED BY <1>0, <1>1, <1>2, <1>5

\* The walk goes on: the TCBs behind it are terminated.
LEMMA WalkGoesOn ==
  ASSUME Core, Core', WalkInv, TaskVanishStep, DeadKept
  PROVE  WalkInv'
<1>0. /\ Me \in Threads /\ tcbs[Mine] \in Seq(Threads)
      /\ Len(tcbs[Mine]) \in Nat /\ Mine \in Procs
      /\ Me \in Range(tcbs[Mine]) /\ IsInjective(tcbs[Mine])
      /\ DOMAIN tcbs[Mine] = 1..Len(tcbs[Mine])
  BY CoreTypes, CoreMe, LenProperties DEF Core, TcbInv
<1> SUFFICES ASSUME NEW t \in Threads, op'[t] = "task_vanish_loop"
             PROVE  /\ t = Me'
                    /\ \A i, j \in 1..Len(tcbs'[Mine']) :
                         i < j /\ tcbs'[Mine'][j] = node'[t]
                           /\ tcbs'[Mine'][i] # t =>
                           thr'.state[tcbs'[Mine'][i]] = "TERMINATED"
  BY DEF WalkInv
<1>1. t = Me
  BY <1>0, CoreTypes DEF TaskVanishStep, Goto, WalkInv
<1>2. Me' = Me /\ tcbs' = tcbs
  BY WalkerRuns DEF TaskVanishStep
<1>3. Mine' = Mine
  BY <1>2, CoreMe DEF TaskVanishStep, AlterState, Mine
<1>4. PICK k : k = SelectInSeq(tcbs[Mine], LAMBDA v : v = node[Me])
  OBVIOUS
<1>5. PICK u \in Range(tcbs[Mine]) : u = node[Me]
  BY KillFacts
<1>6. PICK q \in Seq(Threads) : q = tcbs[Mine]
  BY <1>0
<1> IsInjective(q)
  BY <1>0, <1>6
<1>7. /\ k \in 1..Len(q) /\ q[k] = u
      /\ \A j \in 1..Len(q) : q[j] = u => j = k
  <2>1. PICK I : I = {j \in 1..Len(q) : q[j] = u}
    OBVIOUS
  <2>2. k = IF I # {} THEN Min(I) ELSE 0
    BY <1>4, <1>5, <1>6, <2>1 DEF SelectInSeq
  <2>3. Len(q) \in Nat /\ DOMAIN q = 1..Len(q)
    BY LenProperties
  <2>4. I \subseteq 1..Len(q) /\ I # {}
    BY <1>6, <2>1, <2>3 DEF Range
  <2>5. k \in I
    BY <2>2, <2>3, <2>4, FirstPlace
  <2>6. k \in 1..Len(q) /\ q[k] = u
    BY <2>1, <2>5
  <2> QED BY <2>3, <2>6 DEF IsInjective
<1>8. k < Len(q) /\ node'[t] = q[k + 1]
  BY <1>1, <1>4, <1>6, CoreTypes, CoreMe DEF TaskVanishStep, Goto
<1>9. Len(q) \in Nat /\ DOMAIN q = 1..Len(q) /\ k + 1 \in 1..Len(q)
  BY <1>7, <1>8, LenProperties
<1>10. \A j \in 1..Len(q) : q[j] = node'[t] => j = k + 1
  BY <1>6, <1>8, <1>9 DEF IsInjective
<1>11. ASSUME NEW i \in 1..Len(q), i < k + 1, q[i] # Me
       PROVE  thr'.state[q[i]] = "TERMINATED"
  <2>1. i <= k
    BY <1>7, <1>9, <1>11
  <2> QED BY <1>5, <1>6, <1>7, <1>11, <2>1, Passed
<1> QED BY <1>1, <1>2, <1>3, <1>6, <1>10, <1>11

\* When the walk ends every sibling is terminated.
LEMMA WalkEnds ==
  ASSUME Core, WalkInv, TaskVanishStep, DeadKept, op'[Me] = "vanish",
         NEW u \in Range(tcbs[Mine]) \ {Me}
  PROVE  thr'.state[u] = "TERMINATED"
<1>3. PICK q \in Seq(Threads) : q = tcbs[Mine]
  BY CoreTypes, CoreMe
<1>4. Len(q) \in Nat /\ DOMAIN q = 1..Len(q)
  BY LenProperties
<1>5. PICK k : k = SelectInSeq(tcbs[Mine], LAMBDA v : v = node[Me])
  OBVIOUS
<1>6. k = Len(q)
  BY <1>3, <1>5, CoreTypes, CoreMe DEF TaskVanishStep
<1>7. k \in 1..Len(q) /\ q[k] = node[Me]
  <2>1. PICK I : I = {j \in 1..Len(q) : q[j] = node[Me]}
    OBVIOUS
  <2>2. k = IF I # {} THEN Min(I) ELSE 0
    BY <1>3, <1>5, <2>1 DEF SelectInSeq
  <2>3. node[Me] \in Range(q)
    BY <1>3, KillFacts
  <2>4. I \subseteq 1..Len(q) /\ I # {}
    BY <1>4, <2>1, <2>3 DEF Range
  <2>5. k \in I
    BY <1>4, <2>2, <2>4, FirstPlace
  <2> QED BY <2>1, <2>5
<1>8. PICK i \in 1..Len(q) : u = q[i]
  BY <1>3, <1>4 DEF Range
<1>9. i <= k /\ q[i] # Me
  BY <1>4, <1>6, <1>8
<1> QED BY <1>3, <1>7, <1>8, <1>9, Passed

LEMMA WalkPreserved ==
  ASSUME IInv, IInv', WalkInv, [Next]_vars
  PROVE  WalkInv'
<1>s. StepShape /\ Kept
  BY ShapeNext, NextPreserves
<1>1. CASE UNCHANGED vars
  <2>1. Me' = Me /\ Mine' = Mine
    BY <1>1 DEF vars, Me, Mine
  <2> QED BY <1>1, <2>1 DEF vars, WalkInv
<1>2. CASE op[Me] # "task_vanish_loop"
  <2>1. \A t \in Threads : op[t] # "task_vanish_loop"
    BY <1>2 DEF WalkInv
  <2>2. CASE TaskVanishBegin
    BY <2>1, <2>2, IInvCore, WalkBegins
  <2>3. CASE ~TaskVanishBegin
    <3>1. \A t \in Threads : op'[t] # "task_vanish_loop"
      BY <1>s, <1>2, <2>1, <2>3 DEF StepShape
    <3> QED BY <3>1 DEF WalkInv
  <2> QED BY <2>2, <2>3
<1>3. CASE op[Me] = "task_vanish_loop" /\ TaskVanishStep
  <2>1. Core'
    <3>1. op' \in [Threads -> Ops]
      BY DEF IInv, TypeOK
    <3>2. op' = [t \in Threads |-> op'[t]]
      BY <3>1
    <3> QED BY <3>2 DEF IInv, TypeOK, Core
  <2> QED BY <1>s, <1>3, <2>1, IInvCore, WalkGoesOn DEF Kept, DeadKept
<1> QED BY <1>s, <1>1, <1>2, <1>3 DEF StepShape

-----------------------------------------------------------------------------
(***************************************************************************)
(* The order of the lists, the idle thread, and who stays dead.            *)
(***************************************************************************)

\* The invariant with the order of the lists, the idle thread and the walk.
FullInv == IInv /\ Ordered(thr) /\ IdleInv /\ WalkInv

LEMMA InitFull ==
  ASSUME Init
  PROVE  FullInv
<1>1. IInv
  BY InitIInv
<1>2. Ordered(thr)
  <2>1. thr.list["SLEEP"] = <<>> /\ thr.list["READY"] = <<InitThread>>
    BY InitLists, ListIdxFacts
  <2>2. Len(<<>>) = 0 /\ Len(<<InitThread>>) = 1
    OBVIOUS
  <2>3. Sorted(thr.list["SLEEP"], thr.detail)
    BY <2>1, <2>2 DEF Sorted
  <2>4. Grouped(thr.list["READY"], thr.pcb)
    BY <2>1, <2>2 DEF Grouped
  <2> QED BY <2>3, <2>4 DEF Ordered
<1>3. \A t \in Threads : op[t] = "user"
  BY DEF Init
<1>4. IdleInv
  BY <1>3, InitStates, ThreadAssumption DEF IdleInv, Pending
<1>5. WalkInv
  BY <1>3 DEF WalkInv
<1> QED BY <1>1, <1>2, <1>4, <1>5 DEF FullInv

\* The full invariant holds in every reachable state.
THEOREM FullInvariance == Spec => []FullInv
<1>1. Init => FullInv
  BY InitFull
<1>2. FullInv /\ [Next]_vars => FullInv'
  <2> SUFFICES ASSUME FullInv, [Next]_vars PROVE FullInv'
    OBVIOUS
  <2>1. IInv' /\ Kept
    BY NextPreserves DEF FullInv
  <2>2. Ordered(thr)'
    BY <2>1 DEF FullInv, Kept, Ordered
  <2>3. IdleInv'
    BY IdlePreserved DEF FullInv
  <2>4. WalkInv'
    BY <2>1, WalkPreserved DEF FullInv
  <2> QED BY <2>1, <2>2, <2>3, <2>4 DEF FullInv
<1> QED BY <1>1, <1>2, PTL DEF Spec

\* The SLEEP list is sorted by wake-up time in every reachable state, for any
\* width of tick_count: handle_timer, which looks only at the front, never
\* leaves a thread asleep behind one that wakes later.
THEOREM SleepersSorted == Spec => []SleepSorted
<1>1. FullInv => SleepSorted
  <2> SUFFICES ASSUME FullInv PROVE SleepSorted
    OBVIOUS
  <2>1. PICK s \in Seq(Threads) : s = thr.list["SLEEP"]
    BY Types, ListIdxFacts DEF FullInv
  <2>2. DOMAIN s = 1..Len(s)
    BY LenProperties
  <2>3. Sorted(s, thr.detail)
    BY <2>1 DEF FullInv, Ordered
  <2> QED BY <2>1, <2>2, <2>3 DEF SleepSorted, Sorted
<1> QED BY <1>1, FullInvariance, PTL

\* The runnable threads of a process stay next to one another in the READY
\* list: round_robin, alter_state, fork and thread_fork all keep the groups,
\* so a turn of round_robin goes to another process.
THEOREM ProcessesGrouped == Spec => []ReadyGrouped
<1>1. FullInv => ReadyGrouped
  <2> SUFFICES ASSUME FullInv PROVE ReadyGrouped
    OBVIOUS
  <2>1. PICK s \in Seq(Threads) : s = thr.list["READY"]
    BY Types, ListIdxFacts DEF FullInv
  <2>2. DOMAIN s = 1..Len(s)
    BY LenProperties
  <2>3. Grouped(s, thr.pcb)
    BY <2>1 DEF FullInv, Ordered
  <2> QED BY <2>1, <2>2, <2>3 DEF ReadyGrouped, Grouped
<1> QED BY <1>1, FullInvariance, PTL

\* find_next_thread and round_robin always find a thread when a thread other
\* than idle blocks or vanishes: idle itself is in the READY list, so
\* handle_halt is not reached from a blocking call.
THEOREM NeverHaltsAlways == Spec => []NeverHalts
<1>1. FullInv => NeverHalts
  <2> SUFFICES ASSUME FullInv, Me # IdleThread
               PROVE  thr.list["READY"] # <<>>
    BY DEF NeverHalts
  <2> USE DEF FullInv
  <2>1. IdleThread \in Threads /\ IdleThread \notin Pending
        /\ thr.state[IdleThread] \in {"READY", "RUNNING"}
    BY IdleFacts DEF IdleInv
  <2>2. thr.state[IdleThread] # "RUNNING"
    <3> SUFFICES ASSUME thr.state[IdleThread] = "RUNNING" PROVE FALSE
      OBVIOUS
    <3>1. IdleThread \in Range(thr.list["RUNNING"])
      BY <2>1, ListIdxFacts DEF IInv, Good, Agree
    <3>2. thr.list["RUNNING"] = <<Me>> /\ Range(<<Me>>) = {Me}
      BY MeFacts, SingletonFacts
    <3> QED BY <3>1, <3>2
  <2>3. IdleThread \in Range(thr.list["READY"])
    BY <2>1, <2>2, ListIdxFacts DEF IInv, Good, Agree
  <2> QED BY <2>3 DEF Range
<1> QED BY <1>1, FullInvariance, PTL

\* No step brings a terminated thread back: not make_runnable, not a wake-up,
\* not a second termination by task_vanish.
THEOREM DeadStayDead == Spec => DeadStaysDead
<1>1. IInv /\ [Next]_vars =>
        [\A t \in Threads :
           thr.state[t] = "TERMINATED" => thr'.state[t] = "TERMINATED"]_vars
  BY NextPreserves DEF Kept
<1> QED BY <1>1, Invariance, PTL DEF Spec, DeadStaysDead

\* task_vanish goes on to vanish only when every sibling is terminated,
\* however many threads the process has and wherever the caller is in the
\* tcb_list.
THEOREM TaskVanishKillsAll == Spec => TaskVanishKills
<1>1. FullInv /\ [Next]_vars =>
        [\A t \in Threads :
           op[t] = "task_vanish_loop" /\ op'[t] = "vanish" =>
             \A u \in Range(tcbs[thr.pcb[t]]) \ {t} :
               thr'.state[u] = "TERMINATED"]_vars
  <2> SUFFICES ASSUME FullInv, [Next]_vars, NEW t \in Threads,
                      op[t] = "task_vanish_loop", op'[t] = "vanish",
                      NEW u \in Range(tcbs[thr.pcb[t]]) \ {t}
               PROVE  thr'.state[u] = "TERMINATED"
    OBVIOUS
  <2> USE DEF FullInv
  <2>1. t = Me /\ thr.pcb[t] = Mine
    BY DEF WalkInv, Mine
  <2>2. TaskVanishStep /\ Kept
    <3>1. StepShape /\ Kept
      BY ShapeNext, NextPreserves
    <3>2. ~UNCHANGED vars
      BY DEF vars
    <3> QED BY <2>1, <3>1, <3>2 DEF StepShape
  <2> QED BY <2>1, <2>2, IInvCore, WalkEnds DEF Kept, DeadKept
<1> QED BY <1>1, FullInvariance, PTL DEF Spec, TaskVanishKills
=============================================================================
