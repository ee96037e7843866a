---------------------------- MODULE ReadlineProofs ----------------------------
(***************************************************************************)
(* One thread at a time reads the keyboard, no key is lost on the way to   *)
(* it, and ch_buf holds one line at most, for any number of threads and    *)
(* any capacity of the buffers.                                            *)
(***************************************************************************)
EXTENDS Readline, SchedulerProofs

RdOps == {"user", "print", "pr_put", "readline", "rl_granted"} \cup ReadPlaces

\* The types of the variables; nobody sleeps here.
RdType ==
  /\ Good(thr, {})
  /\ thr.pcb \in [Threads -> Procs]
  /\ thr.list["SLEEP"] = <<>>
  /\ tcbs \in [Procs -> Seq(Threads)]
  /\ op \in [Threads -> RdOps]
  /\ scancode_buf \in Seq(Keys)
  /\ ch_buf \in Seq(Keys)
  /\ ch \in [Threads -> Keys]

\* A thread that was told to go on owns the processor, and input_lock is free
\* for it: nobody can come between Release and Granted.
GrantInv ==
  \A t \in Threads : op[t] = "rl_granted" =>
    \/ thr.state[t] = "READLINE"
    \/ t = Me /\ input_lock = NoThread

\* Who is in the READLINE list, and that the owner of input_lock is marked as
\* the first reader and nobody else is.
WaitInv ==
  \A t \in Threads : thr.state[t] = "READLINE" =>
    /\ op[t] \in {"rl_granted", "rl_read"}
    /\ thr.detail[t].first_reader <=> op[t] = "rl_read"

\* The inductive invariant.
RdInv ==
  RdType /\ OneReader /\ GrantInv /\ WaitInv /\ NoLostKey /\ BufOneLine

-----------------------------------------------------------------------------
(***************************************************************************)
(* What switch_context leaves alone.                                       *)
(***************************************************************************)

\* R is T after alter_state has moved t to list to with detail d.
Altered(T, R, t, to, d) ==
  /\ \A l \in ListIdx \ {T.state[t], to} : R.list[l] = T.list[l]
  /\ \A u \in Threads \ {t} : R.detail[u] = T.detail[u]
  /\ to \in Reasons => R.detail[t] = d
  /\ R.list[to] = InsertAt(T.list[to], Slot(T, t, to, d), t)
  /\ Range(R.list[to]) = Range(T.list[to]) \cup {t}

\* The details and the other lists after alter_state.
LEMMA AlterLists ==
  ASSUME NEW P, NEW T \in ThrType, Agree(T, P, Threads), NEW t \in Threads,
         NEW to \in ListIdx, NEW d \in Details, T.state[t] \in ListIdx,
         T.state[t] # to, t \in Range(T.list[T.state[t]]),
         NEW R, R = AlterState(T, t, to, d)
  PROVE  Altered(T, R, t, to, d)
<1>1. /\ T \in Bookkeeping(Threads, Details, Procs \cup {NoProc})
      /\ T.detail \in [Threads -> Details]
  BY DEF ThrType, Bookkeeping
<1>2. /\ R.list = Relink(T, t, to, d)
      /\ R.detail = [T.detail EXCEPT ![t] = IF to \in Reasons THEN d
                                                             ELSE NoDetail]
  BY DEF AlterState
<1>3. Relinked(Threads, T, t, to, Relink(T, t, to, d))
  BY <1>1, RelinkProperties
<1>4. Relink(T, t, to, d)[to] = InsertAt(T.list[to], Slot(T, t, to, d), t)
  BY <1>1, RelinkProperties
<1>5. /\ \A l \in ListIdx \ {T.state[t], to} : R.list[l] = T.list[l]
      /\ Range(R.list[to]) = Range(T.list[to]) \cup {t}
  BY <1>2, <1>3 DEF Relinked
<1>6. /\ \A u \in Threads \ {t} : R.detail[u] = T.detail[u]
      /\ to \in Reasons => R.detail[t] = d
  BY <1>1, <1>2
<1> QED BY <1>2, <1>4, <1>5, <1>6 DEF Altered

\* R is T after r went to list to and target, from list l, runs: the lists and
\* the details.
Relisted(T, R, r, target, l, to, d) ==
  /\ \A m \in ListIdx \ {l, to, "RUNNING"} : R.list[m] = T.list[m]
  /\ \A u \in Threads \ {r, target} : R.detail[u] = T.detail[u]
  /\ to \in Reasons => R.detail[r] = d
  /\ l # to => R.list[to] = InsertAt(T.list[to], Slot(T, r, to, d), r)

\* The running thread r goes to list to and target, from list l, runs.
LEMMA SwitchLists ==
  ASSUME NEW P, NEW T, Good(T, P), NEW l \in ListIdx \ {"RUNNING"},
         NEW target \in Range(T.list[l]), NEW to \in ListIdx \ {"RUNNING"},
         NEW d \in Details, NEW r, r = RunningThread(T),
         NEW R, R = SwitchContext(T, target, to, d)
  PROVE  Relisted(T, R, r, target, l, to, d)
<1>1. /\ r \in Threads /\ T.list["RUNNING"] = <<r>> /\ T.state[r] = "RUNNING"
      /\ r \notin P
  BY RunningFacts
<1>2. /\ T \in Bookkeeping(Threads, Details, Procs \cup {NoProc})
      /\ T \in ThrType
      /\ Agree(T, P, Threads) /\ NoThread \notin Threads
      /\ NoDetail \in Details /\ T.list \in [ListIdx -> Seq(Threads)]
      /\ T.state \in [Threads -> ListIdx \cup {"NEW"}]
  BY ThreadAssumption, NoDetailType DEF Good, ThrType, Bookkeeping
<1>3. target \in Threads
  BY <1>2, RangeOfSeq
<1>4. T.state[target] = l /\ target \notin P /\ target # r
  BY <1>1, <1>2, <1>3 DEF Agree
<1>5. r \in Range(T.list[T.state[r]]) /\ T.state[r] \in ListIdx
      /\ T.state[r] # to
  <2>1. Range(<<r>>) = {r}
    BY <1>1, SingletonFacts
  <2>2. T.list[T.state[r]] = <<r>> /\ "RUNNING" \in ListIdx
    BY <1>1, ListIdxFacts
  <2> QED BY <1>1, <2>1, <2>2
<1>6. PICK A : A = AlterState(T, r, to, d)
  OBVIOUS
<1>7a. Altered(T, A, r, to, d)
  BY <1>1, <1>2, <1>5, <1>6, AlterLists
<1>7. /\ \A m \in ListIdx \ {T.state[r], to} : A.list[m] = T.list[m]
      /\ \A u \in Threads \ {r} : A.detail[u] = T.detail[u]
      /\ to \in Reasons => A.detail[r] = d
      /\ A.list[to] = InsertAt(T.list[to], Slot(T, r, to, d), r)
      /\ Range(A.list[to]) = Range(T.list[to]) \cup {r}
  BY <1>7a DEF Altered
<1>8. /\ A \in Bookkeeping(Threads, Details, Procs \cup {NoProc})
      /\ Agree(A, P, Threads) /\ A.state = [T.state EXCEPT ![r] = to]
  BY <1>1, <1>2, <1>5, <1>6, AlterStateAgree
<1>9. A.state[target] = l /\ A \in ThrType
  BY <1>2, <1>3, <1>4, <1>8 DEF ThrType
<1>10. target \in Range(A.list[l])
  <2>1. CASE l # to
    BY <1>1, <1>7, <2>1
  <2>2. CASE l = to
    BY <1>7, <2>2
  <2> QED BY <2>1, <2>2
<1>11. PICK run \in ListIdx : run = "RUNNING"
  BY ListIdxFacts
<1>12. PICK n \in Details : n = NoDetail
  BY NoDetailType
<1>13. R = AlterState(A, target, run, n)
  BY <1>2, <1>3, <1>6, <1>11, <1>12 DEF SwitchContext
<1>14. A.state[target] \in ListIdx /\ A.state[target] # run
       /\ target \in Range(A.list[A.state[target]])
  BY <1>9, <1>10, <1>11
<1>15a. Altered(A, R, target, run, n)
  BY <1>3, <1>8, <1>9, <1>13, <1>14, AlterLists
<1>15. \A m \in ListIdx \ {A.state[target], run} : R.list[m] = A.list[m]
  BY <1>15a DEF Altered
<1>16. \A u \in Threads \ {target} : R.detail[u] = A.detail[u]
  BY <1>15a DEF Altered
<1>17. \A m \in ListIdx \ {l, to, "RUNNING"} : R.list[m] = T.list[m]
  BY <1>1, <1>7, <1>9, <1>11, <1>15
<1>18. \A u \in Threads \ {r, target} : R.detail[u] = T.detail[u]
  BY <1>7, <1>16
<1>19. to \in Reasons => R.detail[r] = d
  BY <1>1, <1>4, <1>7, <1>16
<1>20. l # to => R.list[to] = InsertAt(T.list[to], Slot(T, r, to, d), r)
  BY <1>7, <1>9, <1>11, <1>15
<1> QED BY <1>17, <1>18, <1>19, <1>20 DEF Relisted


\* The same for the states, with what is known of the two threads.
Handed(T, R, r, target, l, to) ==
  /\ Good(R, {}) /\ R.pcb = T.pcb
  /\ r \in Threads /\ T.state[r] = "RUNNING"
  /\ target \in Threads /\ T.state[target] = l
  /\ RunningThread(R) = target /\ R.state[target] = "RUNNING"
  /\ \A t \in Threads : t # target => R.state[t] = IF t = r THEN to ELSE T.state[t]

LEMMA SwitchStates ==
  ASSUME NEW T, Good(T, {}), NEW l \in ListIdx \ {"RUNNING", "TERMINATED"},
         NEW target \in Range(T.list[l]), NEW to \in ListIdx \ {"RUNNING"},
         NEW d \in Details, NEW r, r = RunningThread(T),
         NEW R, R = SwitchContext(T, target, to, d)
  PROVE  Handed(T, R, r, target, l, to)
<1>1. R.state[target] = "RUNNING"
  BY SwitchFacts
<1>2. \A t \in Threads : t # target =>
        R.state[t] = IF t = r THEN to ELSE T.state[t]
  BY SwitchFacts, SMTT(20)
<1>3. Good(R, {}) /\ R.pcb = T.pcb
  <2>1. Moved(T, R, {}, IF to = "READY" THEN NoThread ELSE RunningThread(T))
    BY SwitchGood
  <2> QED BY <2>1 DEF Moved
<1>4. target \in Threads /\ T.state[target] = l
  <2>1. T.list[l] \in Seq(Threads)
    BY DEF Good, ThrType, Bookkeeping
  <2>2. target \in Threads
    BY <2>1, RangeOfSeq
  <2> QED BY <2>2 DEF Good, Agree
<1>5. r \in Threads /\ T.state[r] = "RUNNING"
  BY RunningFacts
<1>6. RunningThread(R) = target
  <2>1. target \in Range(R.list["RUNNING"])
    BY <1>1, <1>3, <1>4, ListIdxFacts DEF Good, Agree
  <2>2. R.list["RUNNING"] = <<RunningThread(R)>> /\ RunningThread(R) \in Threads
    BY <1>3, RunningFacts
  <2> QED BY <2>1, <2>2, SingletonFacts
<1> QED BY <1>1, <1>2, <1>3, <1>4, <1>5, <1>6 DEF Handed

-----------------------------------------------------------------------------
(***************************************************************************)
(* The three ways in which the processor changes hands here: a turn of     *)
(* round_robin or yield, a waiter that is resumed, and a thread that waits. *)
(***************************************************************************)

\* R is T after a switch of threads.  W is who waits in READLINE after it; a
\* thread that goes on waiting keeps its detail.
Switched(T, R, W) ==
  /\ Good(R, {})
  /\ R.pcb = T.pcb
  /\ R.list["SLEEP"] = T.list["SLEEP"]
  /\ \A t \in Threads : R.state[t] = "READLINE" <=> t \in W
  /\ \A t \in Threads : T.state[t] = "READLINE" /\ t \in W =>
       R.detail[t] = T.detail[t]

Waiting(T) == {t \in Threads : T.state[t] = "READLINE"}

\* A runnable thread takes over.
LEMMA TurnSwitched ==
  ASSUME NEW T, Good(T, {}), NEW target \in Range(T.list["READY"]),
         NEW R, R = SwitchContext(T, target, "READY", NoDetail)
  PROVE  /\ Switched(T, R, Waiting(T))
         /\ R.list["READLINE"] = T.list["READLINE"]
<1>1. PICK l \in ListIdx \ {"RUNNING", "TERMINATED"} : l = "READY"
  BY ListIdxFacts
<1>2. PICK r : r = RunningThread(T)
  OBVIOUS
<1>3. PICK d \in Details : d = NoDetail
  BY NoDetailType
<1>4. R = SwitchContext(T, target, l, d) /\ target \in Range(T.list[l])
  BY <1>1, <1>3
<1>5. Relisted(T, R, r, target, l, l, d)
  BY <1>2, <1>4, SwitchLists
<1>6. Handed(T, R, r, target, l, l)
  BY <1>2, <1>4, SwitchStates
<1>7. Good(R, {}) /\ R.pcb = T.pcb
  BY <1>6 DEF Handed
<1>10. \A t \in Threads : R.state[t] = "READLINE" <=> T.state[t] = "READLINE"
  BY <1>1, <1>6 DEF Handed
<1>11. {"SLEEP", "READLINE"} \subseteq ListIdx
  BY DEF ListIdx, Reasons
<1>12. R.list["SLEEP"] = T.list["SLEEP"] /\ R.list["READLINE"] = T.list["READLINE"]
  BY <1>1, <1>5, <1>11 DEF Relisted
<1>13. \A t \in Threads : T.state[t] = "READLINE" => R.detail[t] = T.detail[t]
  BY <1>1, <1>5, <1>6 DEF Relisted, Handed
<1> QED BY <1>7, <1>10, <1>12, <1>13 DEF Switched, Waiting

\* The first of READLINE is resumed.
LEMMA ResumeSwitched ==
  ASSUME NEW T, Good(T, {}), NEW h \in Range(T.list["READLINE"]),
         NEW R, R = SwitchContext(T, h, "READY", NoDetail)
  PROVE  /\ Switched(T, R, Waiting(T) \ {h})
         /\ RunningThread(R) = h /\ h \in Waiting(T)
<1>1. PICK l \in ListIdx \ {"RUNNING", "TERMINATED"} : l = "READLINE"
  BY DEF ListIdx, Reasons
<1>1a. PICK to \in ListIdx \ {"RUNNING"} : to = "READY"
  BY ListIdxFacts
<1>2. PICK r : r = RunningThread(T)
  OBVIOUS
<1>3. PICK d \in Details : d = NoDetail
  BY NoDetailType
<1>4. R = SwitchContext(T, h, to, d) /\ h \in Range(T.list[l])
  BY <1>1, <1>1a, <1>3
<1>5. Relisted(T, R, r, h, l, to, d)
  BY <1>2, <1>4, SwitchLists
<1>6. Handed(T, R, r, h, l, to)
  BY <1>2, <1>4, SwitchStates
<1>7. Good(R, {}) /\ R.pcb = T.pcb
  BY <1>6 DEF Handed
<1>10. \A t \in Threads : R.state[t] = "READLINE"
                            <=> T.state[t] = "READLINE" /\ t # h
  BY <1>1a, <1>6 DEF Handed
<1>11. "SLEEP" \in ListIdx
  BY DEF ListIdx, Reasons
<1>12. R.list["SLEEP"] = T.list["SLEEP"]
  BY <1>1, <1>1a, <1>5, <1>11 DEF Relisted
<1>13. \A t \in Threads : T.state[t] = "READLINE" /\ t # h => R.detail[t] = T.detail[t]
  BY <1>5, <1>6 DEF Relisted, Handed
<1>14. RunningThread(R) = h /\ T.state[h] = "READLINE" /\ h \in Threads
  BY <1>1, <1>6 DEF Handed
<1> QED BY <1>7, <1>10, <1>12, <1>13, <1>14 DEF Switched, Waiting

\* find_next_thread leaves everything but the order of READY alone.
LEMMA FindNextSame ==
  ASSUME NEW T, Good(T, {}), NEW s \in Seq(Threads),
         NEW F, F = FindNextRotate(T, s) \/ F = Rotate(T)
  PROVE  /\ Good(F, {}) /\ Reordered(T, F) /\ F.detail = T.detail
         /\ RunningThread(F) = RunningThread(T)
<1>1. Good(Rotate(T), {}) /\ Reordered(T, Rotate(T))
      /\ RunningThread(Rotate(T)) = RunningThread(T)
  BY RotateGood DEF Moved
<1>2. Rotate(T).detail = T.detail
  BY DEF Good, ThrType, Bookkeeping, Rotate
<1>3. Reordered(T, T)
  BY DEF Reordered
<1> QED BY <1>1, <1>2, <1>3 DEF FindNextRotate

\* R is T after thread r went to READLINE with detail d: at the front if it is
\* the first reader, else at the end.
WaitsIn(T, R, r, d) ==
  /\ Switched(T, R, Waiting(T) \cup {r})
  /\ R.detail[r] = d
  /\ R.list["READLINE"]
       = InsertAt(T.list["READLINE"],
                  IF d.first_reader THEN 1 ELSE Len(T.list["READLINE"]) + 1, r)

\* The running thread waits.
LEMMA WaitSwitched ==
  ASSUME NEW T, Good(T, {}), NEW s \in Seq(Threads),
         NEW next, next = FindNextThread(T, s), next # NoThread,
         NEW d \in Details, NEW r, r = RunningThread(T),
         NEW R, R = SwitchContext(FindNextRotate(T, s), next, "READLINE", d)
  PROVE  WaitsIn(T, R, r, d)
<1>1. PICK l \in ListIdx \ {"RUNNING", "TERMINATED"} : l = "READY"
  BY ListIdxFacts
<1>2. PICK to \in ListIdx \ {"RUNNING"} : to = "READLINE"
  BY DEF ListIdx, Reasons
<1>3. PICK F : F = FindNextRotate(T, s)
  OBVIOUS
<1>4. /\ Good(F, {}) /\ Reordered(T, F) /\ F.detail = T.detail
      /\ RunningThread(F) = r
  BY <1>3, FindNextSame
<1>5. next \in Range(T.list[l])
  <2>1. next \in Range(T.list["READY"])
    BY ThreadAssumption, FindNextThreadListed DEF Good, ThrType
  <2> QED BY <1>1, <2>1
<1>6. next \in Range(F.list[l]) /\ R = SwitchContext(F, next, to, d)
  BY <1>2, <1>3, <1>4, <1>5 DEF Reordered
<1>7. Relisted(F, R, r, next, l, to, d)
  BY <1>4, <1>6, SwitchLists
<1>8. Handed(F, R, r, next, l, to)
  BY <1>4, <1>6, SwitchStates
<1>9. Good(R, {}) /\ R.pcb = T.pcb
  BY <1>4, <1>8 DEF Handed, Reordered
<1>10. \A t \in Threads : R.state[t] = "READLINE"
                            <=> T.state[t] = "READLINE" \/ t = r
  BY <1>1, <1>2, <1>4, <1>8 DEF Handed, Reordered
<1>11. "SLEEP" \in ListIdx /\ "READLINE" \in Reasons
  BY DEF ListIdx, Reasons
<1>12. R.list["SLEEP"] = T.list["SLEEP"]
  BY <1>1, <1>2, <1>4, <1>7, <1>11 DEF Relisted, Reordered
<1>13. \A t \in Threads : T.state[t] = "READLINE" => R.detail[t] = T.detail[t]
  BY <1>1, <1>4, <1>7, <1>8 DEF Relisted, Handed, Reordered
<1>14. R.detail[r] = d
  BY <1>2, <1>7, <1>11 DEF Relisted
<1>15. R.list[to] = InsertAt(F.list[to], Slot(F, r, to, d), r)
  BY <1>1, <1>2, <1>7 DEF Relisted
<1>16. F.list[to] = T.list["READLINE"]
  BY <1>2, <1>4 DEF Reordered
<1>17. Slot(F, r, to, d) = IF d.first_reader THEN 1
                           ELSE Len(T.list["READLINE"]) + 1
  BY <1>2, <1>16 DEF Slot
<1>18. R.list["READLINE"]
         = InsertAt(T.list["READLINE"],
                    IF d.first_reader THEN 1
                    ELSE Len(T.list["READLINE"]) + 1, r)
  BY <1>2, <1>15, <1>16, <1>17
<1> QED BY <1>9, <1>10, <1>12, <1>13, <1>14, <1>18
        DEF Switched, Waiting, WaitsIn

LEMMA SwitchedSelf ==
  ASSUME NEW T, Good(T, {})
  PROVE  Switched(T, T, Waiting(T))
BY DEF Switched, Waiting

\* A turn: of round_robin, or of a yield to a thread; nothing happens when
\* nobody is there to run.
LEMMA TurnKeeps ==
  ASSUME NEW T, Good(T, {}), NEW t, NEW R, R = TakeTurn(T) \/ R = YieldTo(T, t)
  PROVE  /\ Switched(T, R, Waiting(T))
         /\ R.list["READLINE"] = T.list["READLINE"]
<1>1. PICK F : F = Rotate(T)
  OBVIOUS
<1>2. /\ Good(F, {}) /\ Reordered(T, F) /\ F.detail = T.detail
  <2>1. <<>> \in Seq(Threads)
    BY ShortSequences
  <2> QED BY <1>1, <2>1, FindNextSame
<1>3. Switched(T, F, Waiting(T)) /\ F.list["READLINE"] = T.list["READLINE"]
  <2>1. {"SLEEP", "READLINE"} \subseteq ListIdx
    BY DEF ListIdx, Reasons
  <2> QED BY <1>2, <2>1 DEF Switched, Waiting, Reordered
<1>4. \A S : Switched(F, S, Waiting(F)) => Switched(T, S, Waiting(T))
  <2>1. Waiting(F) = Waiting(T)
    BY <1>2 DEF Waiting, Reordered
  <2>2. F.list["SLEEP"] = T.list["SLEEP"] /\ F.state = T.state /\ F.pcb = T.pcb
        /\ F.detail = T.detail
    BY <1>2, <1>3 DEF Switched, Reordered
  <2> QED BY <2>1, <2>2 DEF Switched
<1>5. CASE R = TakeTurn(T)
  <2>1. R = SwitchContext(F, RoundRobin(T), "READY", NoDetail)
    BY <1>1, <1>5 DEF TakeTurn
  <2>2. CASE RoundRobin(T) = NoThread
    BY <1>3, <2>1, <2>2 DEF SwitchContext
  <2>3. CASE RoundRobin(T) # NoThread
    <3>1. RoundRobin(T) \in Range(T.list["READY"])
      <4>1. T.list["READY"] \in Seq(Threads)
        BY ListIdxFacts DEF Good, ThrType, Bookkeeping
      <4> QED BY <2>3, <4>1, HeadInRange DEF RoundRobin
    <3>2. RoundRobin(T) \in Range(F.list["READY"])
      BY <1>2, <3>1, ListIdxFacts DEF Reordered
    <3>3. Switched(F, R, Waiting(F)) /\ R.list["READLINE"] = F.list["READLINE"]
      BY <1>2, <2>1, <3>2, TurnSwitched
    <3> QED BY <1>3, <1>4, <3>3
  <2> QED BY <2>2, <2>3
<1>6. CASE R = YieldTo(T, t)
  <2>1. CASE t \in Range(T.list["READY"])
    BY <1>6, <2>1, TurnSwitched DEF YieldTo
  <2>2. CASE t \notin Range(T.list["READY"])
    BY <1>6, <2>2, SwitchedSelf DEF YieldTo
  <2> QED BY <2>1, <2>2
<1> QED BY <1>5, <1>6

-----------------------------------------------------------------------------
(***************************************************************************)
(* Steps preserve the invariant.                                           *)
(***************************************************************************)

LEMMA RdMeFacts ==
  ASSUME RdInv
  PROVE  /\ Me \in Threads /\ Mine \in Procs
         /\ thr.state[Me] = "RUNNING" /\ Me \notin Waiting(thr)
         /\ tcbs[Mine] \in Seq(Threads)
         /\ thr.list["READLINE"] \in Seq(Threads)
         /\ \A t \in Waiting(thr) : t \in Range(thr.list["READLINE"])
         /\ \A t \in Range(thr.list["READLINE"]) : t \in Waiting(thr)
<1>1. Me \in Threads /\ thr.state[Me] = "RUNNING"
  BY RunningFacts DEF RdInv, RdType, Me
<1>2. "READLINE" \in ListIdx
  BY DEF ListIdx, Reasons
<1>3. thr.list["READLINE"] \in Seq(Threads)
  BY <1>2 DEF RdInv, RdType, Good, ThrType, Bookkeeping
<1>4. \A t \in Waiting(thr) : t \in Range(thr.list["READLINE"])
  BY <1>2 DEF RdInv, RdType, Good, Agree, Waiting
<1>5. \A t \in Range(thr.list["READLINE"]) : t \in Waiting(thr)
  BY <1>2, <1>3, RangeOfSeq DEF RdInv, RdType, Good, Agree, Waiting
<1> QED BY <1>1, <1>3, <1>4, <1>5 DEF RdInv, RdType, Mine, Waiting

\* The part of the types that concerns the bookkeeping.
LEMMA TypeKept ==
  ASSUME RdInv, NEW W, Switched(thr, thr', W), NEW o \in RdOps,
         op' = [op EXCEPT ![Me] = o], tcbs' = tcbs,
         scancode_buf' \in Seq(Keys), ch_buf' \in Seq(Keys),
         ch' \in [Threads -> Keys]
  PROVE  RdType'
BY DEF RdInv, RdType, Switched

\* A step of the running thread that stays on the processor.
LEMMA LocalKeeps ==
  ASSUME RdInv, thr' = thr, tcbs' = tcbs, NEW o \in RdOps \ {"rl_granted"},
         op' = [op EXCEPT ![Me] = o],
         scancode_buf' \in Seq(Keys), ch_buf' \in Seq(Keys),
         ch' \in [Threads -> Keys],
         \/ scancode_buf' = scancode_buf
         \/ \A t \in Waiting(thr) : op[t] # "rl_read",
         OneReader', BufOneLine'
  PROVE  RdInv'
<1>1. RdType'
  <2>1. Switched(thr, thr', Waiting(thr))
    BY SwitchedSelf DEF RdInv, RdType
  <2> QED BY <2>1, TypeKept
<1>2. op \in [Threads -> RdOps] /\ Me \in Threads /\ thr.state[Me] = "RUNNING"
  BY RdMeFacts DEF RdInv, RdType
<1>3. \A t \in Threads : op'[t] = IF t = Me THEN o ELSE op[t]
  BY <1>2
<1>4. GrantInv'
  BY <1>2, <1>3 DEF RdInv, GrantInv, Me
<1>5. WaitInv'
  BY <1>2, <1>3 DEF RdInv, WaitInv
<1>6. NoLostKey'
  BY <1>2, <1>3 DEF RdInv, NoLostKey, Waiting
<1> QED BY <1>1, <1>4, <1>5, <1>6 DEF RdInv

\* A turn.
LEMMA TurnPreserves ==
  ASSUME RdInv, op[Me] # "rl_granted", NEW t,
         thr' = TakeTurn(thr) \/ thr' = YieldTo(thr, t),
         UNCHANGED <<tcbs, op, scancode_buf, ch_buf, input_lock, ch>>
  PROVE  RdInv'
<1>1. /\ Switched(thr, thr', Waiting(thr))
      /\ thr'.list["READLINE"] = thr.list["READLINE"]
  <2>1. Good(thr, {})
    BY DEF RdInv, RdType
  <2>2. PICK R : R = thr'
    OBVIOUS
  <2>3. R = TakeTurn(thr) \/ R = YieldTo(thr, t)
    BY <2>2
  <2>4. Switched(thr, R, Waiting(thr)) /\ R.list["READLINE"] = thr.list["READLINE"]
    BY ONLY <2>1, <2>3, TurnKeeps
  <2> QED BY <2>2, <2>4
<1>2. op \in [Threads -> RdOps] /\ Me \in Threads /\ op[Me] \in RdOps
      /\ op' = [op EXCEPT ![Me] = op[Me]]
  BY RdMeFacts DEF RdInv, RdType
<1>3. RdType'
  <2>1. scancode_buf' \in Seq(Keys) /\ ch_buf' \in Seq(Keys) /\ ch' \in [Threads -> Keys]
    BY DEF RdInv, RdType
  <2> QED BY <1>1, <1>2, <2>1, TypeKept
<1>4. \A u \in Threads : thr'.state[u] = "READLINE" <=> thr.state[u] = "READLINE"
  BY <1>1 DEF Switched, Waiting
<1>5. \A u \in Threads : thr.state[u] = "READLINE" => thr'.detail[u] = thr.detail[u]
  BY <1>1 DEF Switched, Waiting
<1>6. GrantInv'
  BY <1>4 DEF RdInv, GrantInv
<1>7. WaitInv'
  BY <1>4, <1>5 DEF RdInv, WaitInv
<1>8. NoLostKey'
  BY <1>1, <1>4, <1>5 DEF RdInv, NoLostKey
<1>9. OneReader' /\ BufOneLine'
  BY DEF RdInv, OneReader, BufOneLine
<1> QED BY <1>3, <1>6, <1>7, <1>8, <1>9 DEF RdInv

\* A waiter h is resumed: the first reader by a key, another one by Release.
LEMMA ResumePreserves ==
  ASSUME RdInv, thr.list["READLINE"] # <<>>,
         NEW h, h = Head(thr.list["READLINE"]),
         thr' = SwitchContext(thr, h, "READY", NoDetail),
         tcbs' = tcbs, NEW o \in RdOps \ {"rl_granted"}, op[Me] # "rl_granted",
         op' = [op EXCEPT ![Me] = o],
         scancode_buf' \in Seq(Keys), ch_buf' \in Seq(Keys),
         ch' \in [Threads -> Keys],
         op[h] = "rl_granted" => input_lock' = NoThread,
         \A t \in Waiting(thr) : op[t] = "rl_read" => t = h,
         OneReader', BufOneLine'
  PROVE  RdInv'
<1>1. h \in Range(thr.list["READLINE"]) /\ h \in Threads
  BY RdMeFacts, HeadInRange
<1>2. /\ Switched(thr, thr', Waiting(thr) \ {h})
      /\ RunningThread(thr') = h /\ h \in Waiting(thr)
  BY <1>1, ResumeSwitched DEF RdInv, RdType
<1>3. RdType'
  BY <1>2, TypeKept
<1>4. op \in [Threads -> RdOps] /\ Me \in Threads /\ thr.state[Me] = "RUNNING"
  BY RdMeFacts DEF RdInv, RdType
<1>5. \A t \in Threads : op'[t] = IF t = Me THEN o ELSE op[t]
  BY <1>4
<1>6. \A u \in Threads : thr'.state[u] = "READLINE"
                           <=> thr.state[u] = "READLINE" /\ u # h
  BY <1>2 DEF Switched, Waiting
<1>7. \A u \in Threads : thr.state[u] = "READLINE" /\ u # h =>
                           thr'.detail[u] = thr.detail[u]
  BY <1>2 DEF Switched, Waiting
<1>8. Me' = h
  BY <1>2 DEF Me
<1>9. GrantInv'
  <2> SUFFICES ASSUME NEW t \in Threads, op'[t] = "rl_granted"
               PROVE  \/ thr'.state[t] = "READLINE"
                      \/ t = Me' /\ input_lock' = NoThread
    BY DEF GrantInv
  <2>1. t # Me /\ op[t] = "rl_granted"
    BY <1>5
  <2>2. thr.state[t] = "READLINE"
    BY <2>1 DEF RdInv, GrantInv
  <2> QED BY <1>6, <1>8, <2>1, <2>2
<1>10. WaitInv'
  BY <1>4, <1>5, <1>6, <1>7 DEF RdInv, WaitInv
<1>11. NoLostKey'
  BY <1>4, <1>5, <1>6 DEF NoLostKey, Waiting
<1> QED BY <1>3, <1>9, <1>10, <1>11 DEF RdInv

\* The running thread waits, as the first reader or for input_lock.
LEMMA WaitPreserves ==
  ASSUME RdInv, NEW first \in BOOLEAN,
         NEW o, o = IF first THEN "rl_read" ELSE "rl_granted",
         WaitInput(first, o), tcbs' = tcbs,
         scancode_buf' = IF first THEN <<>> ELSE scancode_buf,
         first => op[Me] = "rl_read",
         UNCHANGED <<ch_buf, input_lock, ch>>
  PROVE  RdInv'
<1>1. PICK d : d = [wakeup_time |-> 0, first_reader |-> first]
  OBVIOUS
<1>2. d \in Details /\ d.first_reader = first
  <2>1. 0 \in 0..TickMod - 1
    BY TickAssumption
  <2> QED BY <1>1, <2>1 DEF Details
<1>3. PICK next : next = FindNextThread(thr, tcbs[Mine])
  OBVIOUS
<1>4. /\ next # NoThread
      /\ thr' = SwitchContext(FindNextRotate(thr, tcbs[Mine]), next, "READLINE", d)
      /\ op' = [op EXCEPT ![Me] = o]
  BY <1>1, <1>3 DEF WaitInput, Goto
<1>5. tcbs[Mine] \in Seq(Threads)
  BY RdMeFacts
<1>6. /\ Switched(thr, thr', Waiting(thr) \cup {Me})
      /\ thr'.detail[Me] = d
      /\ thr'.list["READLINE"]
              = InsertAt(thr.list["READLINE"],
                         IF d.first_reader THEN 1
                         ELSE Len(thr.list["READLINE"]) + 1, Me)
  <2>1. Good(thr, {})
    BY DEF RdInv, RdType
  <2>2. PICK R : R = thr'
    OBVIOUS
  <2>3. R = SwitchContext(FindNextRotate(thr, tcbs[Mine]), next, "READLINE", d)
        /\ Me = RunningThread(thr) /\ d \in Details
    BY <1>2, <1>4, <2>2 DEF Me
  <2>4. WaitsIn(thr, R, Me, d)
    BY ONLY <1>3, <1>4, <1>5, <2>1, <2>3, WaitSwitched
  <2> QED BY <2>2, <2>4 DEF WaitsIn
<1>7. op \in [Threads -> RdOps] /\ Me \in Threads /\ thr.state[Me] = "RUNNING"
      /\ o \in RdOps
  BY RdMeFacts DEF RdInv, RdType, RdOps, ReadPlaces
<1>8. RdType'
  <2>1. scancode_buf' \in Seq(Keys) /\ ch_buf' \in Seq(Keys) /\ ch' \in [Threads -> Keys]
    BY ShortSequences DEF RdInv, RdType
  <2> QED BY <1>4, <1>6, <1>7, <2>1, TypeKept
<1>9. \A t \in Threads : op'[t] = IF t = Me THEN o ELSE op[t]
  BY <1>4, <1>7
<1>10. \A u \in Threads : thr'.state[u] = "READLINE"
                           <=> thr.state[u] = "READLINE" \/ u = Me
  BY <1>6 DEF Switched, Waiting
<1>11. \A u \in Threads : thr.state[u] = "READLINE" =>
                           thr'.detail[u] = thr.detail[u]
  BY <1>6 DEF Switched, Waiting
<1>12. GrantInv'
  BY <1>9, <1>10 DEF RdInv, GrantInv
<1>13. WaitInv'
  <2> SUFFICES ASSUME NEW t \in Threads, thr'.state[t] = "READLINE"
               PROVE  /\ op'[t] \in {"rl_granted", "rl_read"}
                      /\ thr'.detail[t].first_reader <=> op'[t] = "rl_read"
    BY DEF WaitInv
  <2>1. CASE t = Me
    BY <1>2, <1>6, <1>9, <2>1
  <2>2. CASE t # Me
    <3>1. thr.state[t] = "READLINE" /\ op'[t] = op[t] /\ thr'.detail[t] = thr.detail[t]
      BY <1>9, <1>10, <1>11, <2>2
    <3> QED BY <3>1 DEF RdInv, WaitInv
  <2> QED BY <2>1, <2>2
<1>14. OneReader'
  BY <1>7, <1>9 DEF RdInv, OneReader, ReadPlaces
<1>15. BufOneLine'
  BY <1>7, <1>9 DEF RdInv, BufOneLine
<1>16. NoLostKey'
  <2> SUFFICES ASSUME NEW t \in Threads, thr'.state[t] = "READLINE", op'[t] = "rl_read"
               PROVE  /\ Head(thr'.list["READLINE"]) = t /\ thr'.detail[t].first_reader
                      /\ scancode_buf' = <<>>
    BY DEF NoLostKey
  <2>1. PICK s \in Seq(Threads) : s = thr.list["READLINE"]
    BY RdMeFacts
  <2>2. CASE t = Me
    <3>1. first
      BY <1>9, <2>2
    <3>2. thr'.list["READLINE"] = InsertAt(s, 1, Me)
      BY <1>2, <1>6, <2>1, <3>1
    <3>3. Head(InsertAt(s, 1, Me)) = Me
      <4>1. 1 \in 1..Len(s) + 1
        OBVIOUS
      <4>2. InsertAt(s, 1, Me) \in Seq(Threads) /\ Len(InsertAt(s, 1, Me)) = Len(s) + 1
            /\ InsertAt(s, 1, Me)[1] = Me
        BY <1>7, <4>1, InsertAtProperties
      <4> QED BY <4>2
    <3> QED BY <1>2, <1>6, <2>2, <3>1, <3>2, <3>3
  <2>3. CASE t # Me
    <3>1. thr.state[t] = "READLINE" /\ op[t] = "rl_read"
      BY <1>9, <1>10, <2>3
    <3>2. input_lock = t
      BY <3>1 DEF RdInv, OneReader, ReadPlaces
    <3>3. ~first
      BY <1>7, <2>3, <3>2 DEF RdInv, OneReader, ReadPlaces
    <3>4. Head(s) = t /\ thr.detail[t].first_reader /\ scancode_buf = <<>>
      BY <2>1, <3>1 DEF RdInv, NoLostKey
    <3>5. s # <<>>
      <4>1. t \in Range(s)
        BY <2>1, <3>1, RdMeFacts DEF Waiting
      <4> QED BY <4>1, ShortSequences
    <3>6. thr'.list["READLINE"] = InsertAt(s, Len(s) + 1, Me)
      BY <1>2, <1>6, <2>1, <3>3
    <3>7. Head(InsertAt(s, Len(s) + 1, Me)) = Head(s)
      <4>1. Len(s) + 1 \in 1..Len(s) + 1 /\ 1 \in 1..Len(s) + 1 /\ 1 < Len(s) + 1
        BY <3>5
      <4>2. InsertAt(s, Len(s) + 1, Me) \in Seq(Threads)
            /\ Len(InsertAt(s, Len(s) + 1, Me)) = Len(s) + 1
            /\ InsertAt(s, Len(s) + 1, Me)[1] = s[1]
        BY <1>7, <4>1, InsertAtProperties
      <4> QED BY <3>5, <4>1, <4>2
    <3> QED BY <1>11, <3>1, <3>3, <3>4, <3>6, <3>7
  <2> QED BY <2>2, <2>3
<1> QED BY <1>8, <1>12, <1>13, <1>14, <1>15, <1>16 DEF RdInv

-----------------------------------------------------------------------------
(***************************************************************************)
(* The buffers.                                                            *)
(***************************************************************************)

LEMMA PushTailKeys ==
  ASSUME NEW buf \in Seq(Keys), NEW e \in Keys
  PROVE  /\ PushTail(buf, e) \in Seq(Keys)
         /\ Len(PushTail(buf, e)) \in {Len(buf), Len(buf) + 1}
         /\ \A i \in 1..Len(PushTail(buf, e)) :
              IF i <= Len(buf) THEN PushTail(buf, e)[i] = buf[i]
              ELSE i = Len(PushTail(buf, e)) /\ PushTail(buf, e)[i] = e
BY DEF PushTail

LEMMA PopTailKeys ==
  ASSUME NEW buf \in Seq(Keys)
  PROVE  /\ PopTail(buf) \in Seq(Keys)
         /\ \A i \in 1..Len(PopTail(buf)) :
              i \in 1..Len(buf) /\ PopTail(buf)[i] = buf[i]
<1>1. CASE buf = <<>>
  BY <1>1 DEF PopTail
<1>2. CASE buf # <<>>
  <2>1. Len(buf) - 1 \in Nat
    BY <1>2
  <2>2. PopTail(buf) = SubSeq(buf, 1, Len(buf) - 1)
    BY <1>2 DEF PopTail, Front
  <2> QED BY <2>1, <2>2
<1> QED BY <1>1, <1>2

LEMMA PopHeadsKeys ==
  ASSUME NEW buf \in Seq(Keys), NEW n \in Nat
  PROVE  /\ PopHeads(buf, n) \in Seq(Keys)
         /\ n <= Len(buf) => Len(PopHeads(buf, n)) = Len(buf) - n
         /\ n > Len(buf) => Len(PopHeads(buf, n)) = 0
         /\ \A i \in 1..Len(PopHeads(buf, n)) :
              i + n \in 1..Len(buf) /\ PopHeads(buf, n)[i] = buf[i + n]
BY DEF PopHeads

\* extract_ch finds a key of the buffer.
LEMMA FirstCharKey ==
  ASSUME NEW buf \in Seq(Keys)
  PROVE  FirstChar(buf) \in 0..Len(buf)
<1> DEFINE I == {i \in 1..Len(buf) : buf[i] \in Chars}
<1>1. FirstChar(buf) = IF I # {} THEN Min(I) ELSE 0
  BY DEF FirstChar, SelectInSeq
<1>2. I \subseteq 1..Len(buf) /\ Len(buf) \in Nat
  OBVIOUS
<1> HIDE DEF I
<1> QED BY <1>1, <1>2, FirstMatch

-----------------------------------------------------------------------------
(***************************************************************************)
(* The actions.                                                            *)
(***************************************************************************)

LEMMA TypeFacts ==
  ASSUME RdInv
  PROVE  /\ op \in [Threads -> RdOps] /\ Me \in Threads /\ op[Me] \in RdOps
         /\ scancode_buf \in Seq(Keys) /\ ch_buf \in Seq(Keys)
         /\ ch \in [Threads -> Keys]
BY RdMeFacts DEF RdInv, RdType

LEMMA RdTimerPreserves ==
  ASSUME RdInv, RdTimer
  PROVE  RdInv'
<1>1. ~SleeperDue(NextTick)
  BY DEF RdInv, RdType, SleeperDue
<1>2. thr' = TakeTurn(thr)
  BY <1>1 DEF RdTimer, Timer
<1> QED BY <1>2, TurnPreserves DEF RdTimer, Timer, Interruptible, rdvars

LEMMA KeyboardPreserves ==
  ASSUME RdInv, NEW k \in Keys, Keyboard(k)
  PROVE  RdInv'
<1>1. PICK s \in Seq(Threads) : s = thr.list["READLINE"]
  BY RdMeFacts
<1>2. scancode_buf' \in Seq(Keys) /\ ch_buf' \in Seq(Keys)
      /\ ch' \in [Threads -> Keys]
  BY TypeFacts, PushTailKeys DEF Keyboard
<1>3. op' = [op EXCEPT ![Me] = op[Me]] /\ op[Me] \in RdOps \ {"rl_granted"}
      /\ tcbs' = tcbs /\ op' = op /\ input_lock' = input_lock /\ ch_buf' = ch_buf
  BY TypeFacts DEF Keyboard, Interruptible, kept
<1>4. OneReader' /\ BufOneLine'
  BY <1>3 DEF RdInv, OneReader, BufOneLine
<1>5. CASE s # <<>> /\ thr.detail[Head(s)].first_reader
  <2>1. PICK h : h = Head(s)
    OBVIOUS
  <2>2. thr' = SwitchContext(thr, h, "READY", NoDetail)
    BY <1>1, <1>5, <2>1 DEF Keyboard
  <2>3. h \in Waiting(thr) /\ h \in Threads
    BY <1>1, <1>5, <2>1, RdMeFacts, HeadInRange
  <2>4. op[h] = "rl_read"
    BY <1>5, <2>1, <2>3 DEF RdInv, WaitInv, Waiting
  <2>5. \A t \in Waiting(thr) : op[t] = "rl_read" => t = h
    BY <1>1, <2>1 DEF RdInv, NoLostKey, Waiting
  <2> QED BY <1>1, <1>2, <1>3, <1>4, <1>5, <2>1, <2>2, <2>4, <2>5,
             ResumePreserves
<1>6. CASE ~(s # <<>> /\ thr.detail[Head(s)].first_reader)
  <2>1. thr' = thr
    BY <1>1, <1>6 DEF Keyboard
  <2>2. \A t \in Waiting(thr) : op[t] # "rl_read"
    <3> SUFFICES ASSUME NEW t \in Waiting(thr), op[t] = "rl_read" PROVE FALSE
      OBVIOUS
    <3>1. t \in Range(s)
      BY <1>1, RdMeFacts
    <3>2. s # <<>>
      BY <3>1, ShortSequences
    <3> QED BY <1>1, <1>6, <3>2 DEF RdInv, NoLostKey, Waiting
  <2> QED BY <1>2, <1>3, <1>4, <2>1, <2>2, LocalKeeps
<1> QED BY <1>5, <1>6

\* A step of the running thread to place o that leaves the buffers and
\* input_lock alone, and enters readline's inner part only from there.
LEMMA PlaceStep ==
  ASSUME RdInv, thr' = thr, NEW o \in RdOps \ {"rl_granted"},
         op' = [op EXCEPT ![Me] = o],
         o \in ReadPlaces => op[Me] \in ReadPlaces,
         o \in {"rl_read", "rl_echo", "rl_put"} =>
           op[Me] \in {"rl_read", "rl_echo", "rl_put"},
         UNCHANGED <<tcbs, scancode_buf, ch_buf, input_lock, ch>>
  PROVE  RdInv'
<1>1. \A t \in Threads : op'[t] = IF t = Me THEN o ELSE op[t]
  BY TypeFacts
<1>2. OneReader'
  BY <1>1, TypeFacts DEF RdInv, OneReader
<1>3. BufOneLine'
  BY <1>1, TypeFacts DEF RdInv, BufOneLine
<1>4. scancode_buf' \in Seq(Keys) /\ ch_buf' \in Seq(Keys)
      /\ ch' \in [Threads -> Keys] /\ tcbs' = tcbs /\ scancode_buf' = scancode_buf
  BY TypeFacts
<1> QED BY <1>2, <1>3, <1>4, LocalKeeps

LEMMA RdMutexLockPreserves ==
  ASSUME RdInv, RdMutexLock
  PROVE  RdInv'
<1>1. op[Me] \in RdOps \ {"rl_granted"} /\ op' = [op EXCEPT ![Me] = op[Me]]
      /\ op[Me] # "rl_granted" /\ op' = op
  BY TypeFacts DEF RdMutexLock
<1>2. UNCHANGED <<tcbs, scancode_buf, ch_buf, input_lock, ch>>
  BY DEF RdMutexLock, kept, rdvars
<1>3. CASE thr' = thr
  BY <1>1, <1>2, <1>3, PlaceStep
<1>4. CASE thr' = YieldTo(thr, lock[Mine]) \/ thr' = TakeTurn(thr)
  BY <1>1, <1>2, <1>4, TurnPreserves
<1> QED BY <1>3, <1>4 DEF RdMutexLock, SpinLock

\* mutex_lock(&output_lock) of print and of readline's echo.
LEMMA LockOutputPreserves ==
  ASSUME RdInv, NEW o, LockOutput(o),
         \/ op[Me] = "print" /\ o = "pr_put"
         \/ op[Me] = "rl_echo" /\ o = "rl_put"
  PROVE  RdInv'
<1>1. o \in RdOps \ {"rl_granted"} /\ op[Me] # "rl_granted"
      /\ (o \in ReadPlaces => op[Me] \in ReadPlaces)
  BY DEF RdOps, ReadPlaces
<1>2. UNCHANGED <<tcbs, scancode_buf, ch_buf, input_lock, ch>>
  BY DEF LockOutput, kept
<1>3. CASE thr' = thr /\ op' = [op EXCEPT ![Me] = o]
  BY <1>1, <1>2, <1>3, PlaceStep
<1>4. CASE (thr' = YieldTo(thr, output_lock) \/ thr' = TakeTurn(thr)) /\ op' = op
  BY <1>1, <1>2, <1>4, TurnPreserves
<1> QED BY <1>3, <1>4 DEF LockOutput, Goto

\* print and readline are called, and print is done.
LEMMA PlacesPreserve ==
  ASSUME RdInv, PrintCall \/ PrintDone \/ ReadCall
  PROVE  RdInv'
<1>1. PICK o \in {"print", "user", "readline"} : op' = [op EXCEPT ![Me] = o]
  BY DEF PrintCall, PrintDone, ReadCall, Goto
<1>2. o \in RdOps \ {"rl_granted"} /\ o \notin ReadPlaces
  BY DEF RdOps, ReadPlaces
<1>3. thr' = thr /\ UNCHANGED <<tcbs, scancode_buf, ch_buf, input_lock, ch>>
  BY DEF PrintCall, PrintDone, ReadCall, kept, rdvars
<1> QED BY <1>1, <1>2, <1>3, PlaceStep DEF ReadPlaces

\* With input_lock taken by the running thread, which nobody had.
LEMMA StartPreserves ==
  ASSUME RdInv, input_lock = NoThread, input_lock' = Me, ReadStart, thr' = thr,
         UNCHANGED <<tcbs, scancode_buf, ch_buf, ch>>
  PROVE  RdInv'
<1>1. PICK o \in {"rl_read", "rl_copy"} :
        op' = [op EXCEPT ![Me] = o] /\ (o = "rl_read" => ch_buf = <<>>)
  BY DEF ReadStart, Goto
<1>2. o \in RdOps \ {"rl_granted"}
  BY DEF RdOps, ReadPlaces
<1>3. \A t \in Threads : op'[t] = IF t = Me THEN o ELSE op[t]
  BY <1>1, TypeFacts
<1>4. \A t \in Threads : op[t] \notin ReadPlaces
  BY ThreadAssumption DEF RdInv, OneReader
<1>5. OneReader'
  BY <1>3, <1>4 DEF OneReader
<1>6. BufOneLine'
  <2>1. \A t \in Threads : op'[t] \in {"rl_read", "rl_echo", "rl_put"} =>
          ch_buf = <<>>
    BY <1>1, <1>3, <1>4 DEF ReadPlaces
  <2>2. ch_buf = <<>> => DOMAIN ch_buf = {}
    OBVIOUS
  <2> QED BY <2>1, <2>2 DEF RdInv, BufOneLine
<1>7. scancode_buf' \in Seq(Keys) /\ ch_buf' \in Seq(Keys)
      /\ ch' \in [Threads -> Keys] /\ tcbs' = tcbs /\ scancode_buf' = scancode_buf
  BY TypeFacts
<1> QED BY <1>1, <1>2, <1>5, <1>6, <1>7, LocalKeeps

LEMMA TryInputPreserves ==
  ASSUME RdInv, TryInput
  PROVE  RdInv'
<1>1. UNCHANGED <<tcbs, scancode_buf, ch_buf, ch>>
  BY DEF TryInput, kept
<1>2. CASE input_lock = NoThread /\ input_lock' = Me /\ ReadStart /\ thr' = thr
  BY <1>1, <1>2, StartPreserves
<1>3. CASE WaitInput(FALSE, "rl_granted") /\ input_lock' = input_lock
  BY <1>1, <1>3, WaitPreserves
<1> QED BY <1>2, <1>3 DEF TryInput

\* Granted finds input_lock free.
LEMMA GrantedPreserves ==
  ASSUME RdInv, Granted
  PROVE  RdInv'
<1>1. input_lock = NoThread
  BY RdMeFacts DEF RdInv, GrantInv, Granted
<1> QED BY <1>1, StartPreserves DEF Granted, kept

\* The thread in rl_read, rl_echo, rl_put or rl_copy is the only one there.
LEMMA OnlyReader ==
  ASSUME RdInv, op[Me] \in ReadPlaces
  PROVE  /\ input_lock = Me
         /\ \A t \in Threads : op[t] \in ReadPlaces => t = Me
         /\ \A t \in Waiting(thr) : op[t] # "rl_read"
<1>1. input_lock = Me /\ \A t \in Threads : op[t] \in ReadPlaces => t = Me
  BY TypeFacts DEF RdInv, OneReader
<1> QED BY <1>1, RdMeFacts DEF Waiting, ReadPlaces

LEMMA ReadCharPreserves ==
  ASSUME RdInv, ReadChar
  PROVE  RdInv'
<1>1. PICK i : i = FirstChar(scancode_buf)
  OBVIOUS
<1>2. i \in 0..Len(scancode_buf)
  BY <1>1, TypeFacts, FirstCharKey
<1>3. op[Me] = "rl_read" /\ op[Me] \in ReadPlaces
      /\ tcbs' = tcbs /\ ch_buf' = ch_buf /\ input_lock' = input_lock
  BY DEF ReadChar, Holding, kept, ReadPlaces
<1>4. CASE scancode_buf' = <<>> /\ WaitInput(TRUE, "rl_read") /\ ch' = ch
  BY <1>3, <1>4, WaitPreserves
<1>5. CASE /\ i # 0 /\ scancode_buf' = PopHeads(scancode_buf, i)
           /\ ch' = [ch EXCEPT ![Me] = scancode_buf[i]]
           /\ Goto("rl_echo") /\ thr' = thr
  <2>1. scancode_buf' \in Seq(Keys)
    BY <1>2, <1>5, TypeFacts, PopHeadsKeys
  <2>2. scancode_buf[i] \in Keys
    BY <1>2, <1>5, TypeFacts
  <2>3. ch' \in [Threads -> Keys] /\ ch_buf' \in Seq(Keys)
    BY <1>3, <1>5, <2>2, TypeFacts
  <2>4. "rl_echo" \in RdOps \ {"rl_granted"}
    BY DEF RdOps, ReadPlaces
  <2>5. op' = [op EXCEPT ![Me] = "rl_echo"]
    BY <1>5 DEF Goto
  <2>6. \A t \in Threads : op'[t] = IF t = Me THEN "rl_echo" ELSE op[t]
    BY <2>5, TypeFacts
  <2>7. OneReader'
    BY <1>3, <2>6, OnlyReader DEF OneReader
  <2>8. BufOneLine'
    BY <1>3, <2>6, TypeFacts DEF RdInv, BufOneLine
  <2> QED BY <1>3, <1>5, <2>1, <2>3, <2>4, <2>5, <2>7, <2>8, OnlyReader,
             LocalKeeps
<1> QED BY <1>1, <1>4, <1>5 DEF ReadChar

LEMMA EditPreserves ==
  ASSUME RdInv, Edit
  PROVE  RdInv'
<1>1. op[Me] = "rl_put" /\ op[Me] \in ReadPlaces
      /\ tcbs' = tcbs /\ scancode_buf' = scancode_buf
      /\ input_lock' = input_lock /\ thr' = thr
  BY DEF Edit, kept, ReadPlaces
<1>2. PICK o \in {"rl_copy", "rl_read"} :
        /\ op' = [op EXCEPT ![Me] = o]
        /\ o = "rl_copy" <=> ch[Me] = "enter"
  BY DEF Edit, Goto
<1>3. o \in RdOps \ {"rl_granted"} /\ o \in ReadPlaces
  BY DEF RdOps, ReadPlaces
<1>4. \A t \in Threads : op'[t] = IF t = Me THEN o ELSE op[t]
  BY <1>2, TypeFacts
<1>5. OneReader'
  BY <1>1, <1>4, OnlyReader DEF OneReader
<1>6. "nothing" \in Keys /\ ch[Me] \in Keys
  BY TypeFacts DEF Keys
<1>7. ch' \in [Threads -> Keys] /\ scancode_buf' \in Seq(Keys)
  BY <1>1, <1>6, TypeFacts DEF Edit
<1>8. \A i \in 1..Len(ch_buf) : ch_buf[i] # "enter"
  BY <1>1, TypeFacts DEF RdInv, BufOneLine
<1>9. \A t \in Threads : op'[t] \in {"rl_read", "rl_echo", "rl_put"} =>
        t = Me /\ ch[Me] # "enter"
  BY <1>1, <1>2, <1>4, OnlyReader DEF ReadPlaces
<1>10. ch_buf' \in Seq(Keys) /\ BufOneLine'
  <2>1. CASE ch[Me] = "backspace"
    <3>1. ch_buf' = PopTail(ch_buf)
      BY <2>1 DEF Edit
    <3>2. ch_buf' \in Seq(Keys)
          /\ \A i \in 1..Len(ch_buf') : i \in 1..Len(ch_buf) /\ ch_buf'[i] = ch_buf[i]
      BY <3>1, TypeFacts, PopTailKeys
    <3>3. \A i \in DOMAIN ch_buf' : ch_buf'[i] # "enter"
      BY <1>8, <3>2
    <3> QED BY <3>2, <3>3 DEF BufOneLine
  <2>2. CASE ch[Me] # "backspace"
    <3>1. ch_buf' = PushTail(ch_buf, ch[Me])
      BY <2>2 DEF Edit
    <3>2. ch_buf' \in Seq(Keys)
          /\ \A i \in 1..Len(ch_buf') :
               IF i <= Len(ch_buf) THEN ch_buf'[i] = ch_buf[i]
               ELSE i = Len(ch_buf') /\ ch_buf'[i] = ch[Me]
      BY <1>6, <3>1, TypeFacts, PushTailKeys, ZenonT(30)
    <3>3. \A i \in 1..Len(ch_buf') : ch_buf'[i] = "enter" =>
            i = Len(ch_buf') /\ ch[Me] = "enter"
      BY <1>8, <3>2, TypeFacts
    <3>4. DOMAIN ch_buf' = 1..Len(ch_buf')
      BY <3>2
    <3> QED BY <1>9, <3>2, <3>3, <3>4 DEF BufOneLine
  <2> QED BY <2>1, <2>2
<1> QED BY <1>1, <1>2, <1>3, <1>5, <1>7, <1>10, LocalKeeps

LEMMA ReleasePreserves ==
  ASSUME RdInv, NEW len \in Lens, Release(len)
  PROVE  RdInv'
<1>1. op[Me] = "rl_copy" /\ op[Me] \in ReadPlaces /\ op[Me] # "rl_granted"
      /\ tcbs' = tcbs /\ scancode_buf' = scancode_buf
      /\ input_lock' = NoThread /\ ch' = ch /\ ch_buf' = PopHeads(ch_buf, len)
      /\ op' = [op EXCEPT ![Me] = "user"]
  BY DEF Release, kept, ReadPlaces, Goto
<1>2. len \in Nat
  BY ReadlineAssumption
<1>3. \A t \in Threads : op'[t] = IF t = Me THEN "user" ELSE op[t]
  BY <1>1, TypeFacts
<1>4. \A t \in Threads : op'[t] \notin ReadPlaces
  BY <1>1, <1>3, OnlyReader DEF ReadPlaces
<1>5. OneReader'
  BY <1>4 DEF OneReader
<1>6. /\ ch_buf' \in Seq(Keys)
      /\ len <= Len(ch_buf) => Len(ch_buf') = Len(ch_buf) - len
      /\ len > Len(ch_buf) => Len(ch_buf') = 0
      /\ \A i \in 1..Len(ch_buf') :
           i + len \in 1..Len(ch_buf) /\ ch_buf'[i] = ch_buf[i + len]
  BY <1>1, <1>2, TypeFacts, PopHeadsKeys
<1>7. BufOneLine'
  <2>1. \A i \in 1..Len(ch_buf) : ch_buf[i] = "enter" => i = Len(ch_buf)
    BY TypeFacts DEF RdInv, BufOneLine
  <2>2. \A i \in 1..Len(ch_buf') : ch_buf'[i] = "enter" => i = Len(ch_buf')
    BY <1>2, <1>6, <2>1, TypeFacts
  <2>3. DOMAIN ch_buf' = 1..Len(ch_buf')
    BY <1>6
  <2> QED BY <1>4, <2>2, <2>3 DEF BufOneLine, ReadPlaces
<1>8. scancode_buf' \in Seq(Keys) /\ ch' \in [Threads -> Keys]
      /\ "user" \in RdOps \ {"rl_granted"}
  BY <1>1, TypeFacts DEF RdOps
<1>9. \A t \in Waiting(thr) : op[t] # "rl_read"
  BY <1>1, OnlyReader
<1>10. CASE thr.list["READLINE"] = <<>>
  <2>1. thr' = thr
    BY <1>10 DEF Release
  <2> QED BY <1>1, <1>5, <1>6, <1>7, <1>8, <2>1, LocalKeeps
<1>11. CASE thr.list["READLINE"] # <<>>
  <2>1. PICK h : h = Head(thr.list["READLINE"])
    OBVIOUS
  <2>2. thr' = SwitchContext(thr, h, "READY", NoDetail)
    BY <1>11, <2>1 DEF Release
  <2> QED BY <1>1, <1>5, <1>6, <1>7, <1>8, <1>9, <1>11, <2>1, <2>2,
             ResumePreserves
<1> QED BY <1>10, <1>11

\* Every step.
LEMMA RdNextPreserves ==
  ASSUME RdInv, [RdNext]_rvars
  PROVE  RdInv'
<1>1. CASE UNCHANGED rvars
  <2>1. UNCHANGED <<thr, tcbs, op, scancode_buf, ch_buf, input_lock, ch>>
    BY <1>1 DEF rvars, vars, rdvars
  <2>2. RdType' /\ OneReader' /\ BufOneLine' /\ WaitInv'
    BY <2>1 DEF RdInv, RdType, OneReader, BufOneLine, WaitInv
  <2>3. GrantInv' /\ NoLostKey'
    BY <2>1 DEF RdInv, GrantInv, NoLostKey, Me
  <2> QED BY <2>2, <2>3 DEF RdInv
<1>2. CASE PrintLock
  <2>1. PICK o : o = "pr_put"
    OBVIOUS
  <2>2. LockOutput(o) /\ op[Me] = "print"
    BY <1>2, <2>1 DEF PrintLock
  <2> QED BY <2>1, <2>2, LockOutputPreserves
<1>3. CASE Echo
  <2>1. PICK o : o = "rl_put"
    OBVIOUS
  <2>2. LockOutput(o) /\ op[Me] = "rl_echo"
    BY <1>3, <2>1 DEF Echo
  <2> QED BY <2>1, <2>2, LockOutputPreserves
<1>4. CASE RdStep /\ ~PrintLock /\ ~Echo
  BY <1>4, RdMutexLockPreserves, TryInputPreserves, GrantedPreserves,
     ReadCharPreserves, EditPreserves, ReleasePreserves, PlacesPreserve
     DEF RdStep
<1>5. CASE RdNext /\ ~RdStep
  BY <1>5, RdTimerPreserves, KeyboardPreserves, PlacesPreserve DEF RdNext
<1> QED BY <1>1, <1>2, <1>3, <1>4, <1>5

-----------------------------------------------------------------------------
(***************************************************************************)
(* The initial states, and the theorems.                                   *)
(***************************************************************************)

\* An enumeration of a finite set holds every element once.
LEMMA EnumerationFacts ==
  ASSUME NEW S, IsFiniteSet(S), NEW s \in SetToSeqs(S)
  PROVE  s \in Seq(S) /\ IsInjective(s) /\ Range(s) = S
<1>1. Cardinality(S) \in Nat
  BY FS_CardinalityType
<1>2. s \in [1..Cardinality(S) -> S]
      /\ \A i, j \in 1..Cardinality(S) : i # j => s[i] # s[j]
  BY DEF SetToSeqs
<1>3. s \in Seq(S) /\ Len(s) = Cardinality(S)
  BY <1>1, <1>2
<1>4. IsInjective(s)
  BY <1>2 DEF IsInjective
<1>5. IsFiniteSet(Range(s)) /\ Cardinality(Range(s)) = Cardinality(S)
  BY <1>3, <1>4, RangeCardinality
<1>6. Range(s) \in SUBSET S
  BY <1>3, RangeSubset
<1> QED BY <1>3, <1>4, <1>5, <1>6, FS_Subset

LEMMA EnumerationType ==
  ASSUME NEW S, IsFiniteSet(S)
  PROVE  SetToSeq(S) \in Seq(S)
<1>1. Cardinality(S) \in Nat /\ ExistsBijection(1..Cardinality(S), S)
  BY FS_CardinalityType
<1>2. PICK f : f \in Bijection(1..Cardinality(S), S)
  BY <1>1 DEF ExistsBijection
<1>3. f \in [1..Cardinality(S) -> S] /\ IsInjective(f)
  BY <1>2 DEF Bijection, Injection
<1>4. SetToSeq(S) \in [1..Cardinality(S) -> S]
  BY <1>3 DEF SetToSeq
<1> QED BY <1>1, <1>4

LEMMA RdInitInv ==
  ASSUME RdInit
  PROVE  RdInv
<1>1. PICK ready \in ReadyOrders :
       thr = [list   |-> [l \in ListIdx |->
                            CASE l = "RUNNING" -> <<IdleThread>>
                              [] l = "READY"   -> ready
                              [] OTHER         -> <<>>],
              state  |-> [t \in Threads |->
                            IF t = IdleThread THEN "RUNNING" ELSE "READY"],
              detail |-> [t \in Threads |-> NoDetail],
              pcb    |-> ProcOf]
  BY DEF RdInit
<1>2. IsFiniteSet(Threads \ {IdleThread})
  BY FS_Subset, ReadlineAssumption
<1>3. /\ ready \in Seq(Threads \ {IdleThread}) /\ IsInjective(ready)
      /\ Range(ready) = Threads \ {IdleThread}
  BY <1>2, EnumerationFacts DEF ReadyOrders
<1>4. ready \in Seq(Threads) /\ IdleThread \in Threads
  BY <1>3, ThreadAssumption
<1>5. /\ <<IdleThread>> \in Seq(Threads) /\ <<>> \in Seq(Threads)
      /\ IsInjective(<<IdleThread>>) /\ Range(<<IdleThread>>) = {IdleThread}
      /\ IsInjective(<<>>) /\ Range(<<>>) = {}
  BY <1>4, ShortSequences
<1>6. /\ thr.list \in [ListIdx -> Seq(Threads)]
      /\ thr.list["RUNNING"] = <<IdleThread>> /\ thr.list["READY"] = ready
      /\ \A l \in ListIdx \ {"RUNNING", "READY"} : thr.list[l] = <<>>
  BY <1>1, <1>4, <1>5, ListIdxFacts
<1>7. /\ thr.state \in [Threads -> ListIdx \cup {"NEW"}]
      /\ \A t \in Threads :
           thr.state[t] = IF t = IdleThread THEN "RUNNING" ELSE "READY"
  BY <1>1, ListIdxFacts
<1>8. thr.detail \in [Threads -> Details] /\ thr.pcb \in [Threads -> Procs]
  BY <1>1, NoDetailType, ReadlineAssumption
<1>9. thr \in ThrType
  <2>1. thr.pcb \in [Threads -> Procs \cup {NoProc}]
    BY <1>8
  <2>2. thr = [list |-> thr.list, state |-> thr.state, detail |-> thr.detail,
               pcb |-> thr.pcb]
    BY <1>1
  <2> QED BY <1>6, <1>7, <1>8, <2>1, <2>2 DEF ThrType, Bookkeeping
<1>10. Agree(thr, {}, Threads)
  <2>1. \A l \in ListIdx : IsInjective(thr.list[l])
    BY <1>3, <1>5, <1>6
  <2>2. \A l \in ListIdx, t \in Threads : t \in Range(thr.list[l]) => thr.state[t] = l
    BY <1>3, <1>5, <1>6, <1>7
  <2>3. \A l \in ListIdx, t \in Threads : thr.state[t] = l => t \in Range(thr.list[l])
    BY <1>3, <1>5, <1>6, <1>7
  <2> QED BY <2>1, <2>2, <2>3 DEF Agree
<1>11. Good(thr, {})
  BY <1>4, <1>6, <1>9, <1>10 DEF Good
<1>12. tcbs \in [Procs -> Seq(Threads)]
  <2> SUFFICES ASSUME NEW p \in Procs
               PROVE  SetToSeq({t \in Threads : ProcOf[t] = p}) \in Seq(Threads)
    BY DEF RdInit
  <2>1. PICK S : S = {t \in Threads : ProcOf[t] = p}
    OBVIOUS
  <2>2. S \in SUBSET Threads
    BY <2>1
  <2>3. IsFiniteSet(S)
    BY <2>2, FS_Subset, ReadlineAssumption
  <2>4. SetToSeq(S) \in Seq(S)
    BY <2>3, EnumerationType
  <2>5. SetToSeq(S) \in Seq(Threads)
    BY <2>2, <2>4
  <2> QED BY <2>1, <2>5
<1>13. thr.list["SLEEP"] = <<>>
  BY <1>6, ListIdxFacts
<1>14. /\ op = [t \in Threads |-> "user"] /\ scancode_buf = <<>> /\ ch_buf = <<>>
       /\ ch = [t \in Threads |-> "nothing"]
  BY DEF RdInit
<1>15. op \in [Threads -> RdOps] /\ ch \in [Threads -> Keys]
       /\ scancode_buf \in Seq(Keys) /\ ch_buf \in Seq(Keys)
  BY <1>14 DEF RdOps, Keys
<1>16. RdType
  BY <1>8, <1>11, <1>12, <1>13, <1>15 DEF RdType
<1>17. OneReader /\ GrantInv /\ NoLostKey
  BY <1>14 DEF OneReader, GrantInv, NoLostKey, ReadPlaces
<1>18. WaitInv
  BY <1>7 DEF WaitInv
<1>19. BufOneLine
  BY <1>14 DEF BufOneLine
<1> QED BY <1>16, <1>17, <1>18, <1>19 DEF RdInv

\* The inductive invariant of readline, print and the keyboard driver.
THEOREM ReadlineInvariant == RdSpec => []RdInv
<1>1. RdInit => RdInv
  BY RdInitInv
<1>2. RdInv /\ [RdNext]_rvars => RdInv'
  BY RdNextPreserves
<1> QED BY <1>1, <1>2, PTL DEF RdSpec

\* At most one thread edits the line, and it owns input_lock, although
\* handle_readline ignores the result of the second mutex_try_lock.
THEOREM OneReaderAlways == RdSpec => []OneReader
<1>1. RdInv => OneReader
  BY DEF RdInv
<1> QED BY <1>1, ReadlineInvariant, PTL

\* The owner of input_lock that sleeps is where handle_keyboard looks for it,
\* and no key is left to be read.
THEOREM KeysReachReader == RdSpec => []NoLostKey
<1>1. RdInv => NoLostKey
  BY DEF RdInv
<1> QED BY <1>1, ReadlineInvariant, PTL

\* ch_buf never holds more than one line, and nobody adds to a finished one.
THEOREM OneLineBuffered == RdSpec => []BufOneLine
<1>1. RdInv => BufOneLine
  BY DEF RdInv
<1> QED BY <1>1, ReadlineInvariant, PTL
===============================================================================
