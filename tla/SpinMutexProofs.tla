---------------------------- MODULE SpinMutexProofs ----------------------------
(***************************************************************************)
(* The mutex excludes, and it implements the abstract lock, for any number *)
(* of threads.                                                             *)
(***************************************************************************)
EXTENDS SpinMutex, TLAPS

\* The word and the tid together are inductive: a release leaves the mutex
\* free only because nobody else owns it, and the tid goes with the owner.
Inv == TypeOK /\ WordOK /\ TidNamesOwner

\* A thread that goes from one place to another changes its own place only.
LEMMA GotoFacts ==
  ASSUME pc \in [Threads -> Places], NEW t \in Threads, NEW to \in Places,
         Goto(t, to)
  PROVE  /\ pc' \in [Threads -> Places]
         /\ pc'[t] = to
         /\ \A u \in Threads \ {t} : pc'[u] = pc[u]
BY DEF Goto

\* Which threads own the mutex after such a step.
LEMMA GotoOwners ==
  ASSUME pc \in [Threads -> Places], NEW t \in Threads, NEW to \in Places,
         Goto(t, to)
  PROVE  Owners' = IF to \in {"store", "in", "clear", "release"}
                   THEN Owners \cup {t} ELSE Owners \ {t}
BY GotoFacts DEF Owners

\* Initially the mutex is free.
LEMMA InitInv == Init => Inv
BY TidAssumption DEF Init, Inv, TypeOK, WordOK, TidNamesOwner, Owners, Places

\* Every step preserves the invariant.
LEMMA StepInv == Inv /\ [Next]_vars => Inv'
<1> SUFFICES ASSUME Inv, [Next]_vars
             PROVE  Inv'
  OBVIOUS
<1> USE TidAssumption DEF Inv
<1>1. CASE UNCHANGED vars
  BY <1>1 DEF vars, TypeOK, WordOK, TidNamesOwner, Owners
<1>2. ASSUME NEW t \in Threads, Preempt(t)
      PROVE  Inv'
  BY <1>2 DEF Preempt, TypeOK, WordOK, TidNamesOwner, Owners
<1>3. ASSUME NEW t \in Threads, NEW to \in {"lock", "try"}, Call(t, to)
      PROVE  Inv'
  <2>1. pc[t] = "out" /\ t \notin Owners
    BY <1>3 DEF Call, At, Owners
  <2>2. Owners' = Owners
    BY <1>3, <2>1, GotoOwners DEF Call, TypeOK, Places
  <2>3. TypeOK'
    BY <1>3, GotoFacts DEF Call, TypeOK, Places
  <2>4. WordOK'
    BY <1>3, <2>2 DEF Call, WordOK
  <2>5. TidNamesOwner'
    BY <1>3, <2>1, GotoFacts DEF Call, TidNamesOwner, TypeOK, Places
  <2> QED BY <2>3, <2>4, <2>5
<1>4. ASSUME NEW t \in Threads, ExchangeLock(t)
      PROVE  Inv'
  <2>1. PICK to \in {"store", "read"} :
          Goto(t, to) /\ (to = "store" <=> lock_state = "UNLOCKED")
    BY <1>4 DEF ExchangeLock
  <2>2. pc[t] = "lock" /\ t \notin Owners
    BY <1>4 DEF ExchangeLock, At, Owners
  <2>3. Owners' = IF to = "store" THEN {t} ELSE Owners
    BY <2>1, <2>2, GotoOwners DEF TypeOK, Places, WordOK
  <2>4. TypeOK'
    BY <1>4, <2>1, GotoFacts DEF ExchangeLock, TypeOK, Places
  <2>5. WordOK'
    BY <1>4, <2>1, <2>3 DEF ExchangeLock, WordOK, TypeOK
  <2>6. TidNamesOwner'
    BY <1>4, <2>1, <2>2, GotoFacts DEF ExchangeLock, TidNamesOwner, TypeOK,
       Places
  <2> QED BY <2>4, <2>5, <2>6
<1>5. ASSUME NEW t \in Threads, ReadTid(t) \/ Yield(t) \/ Leave(t)
      PROVE  Inv'
  <2>1. PICK to \in {"yield", "lock", "clear"} :
          /\ Goto(t, to)
          /\ to = "clear" => pc[t] = "in"
          /\ to # "clear" => pc[t] \in {"read", "yield"}
    BY <1>5 DEF ReadTid, Yield, Leave, At
  <2>2. Owners' = Owners
    BY <2>1, GotoOwners DEF Owners, TypeOK, Places
  <2>3. lock_state' = lock_state /\ tid' = tid
    BY <1>5 DEF ReadTid, Yield, Leave
  <2>4. TypeOK'
    <3>1. running' \in Threads
      BY <1>5 DEF ReadTid, Yield, Leave, TypeOK
    <3>2. esi' \in [Threads -> Threads \cup {NoTid}]
      BY <1>5 DEF ReadTid, Yield, Leave, TypeOK
    <3> QED BY <2>1, <2>3, <3>1, <3>2, GotoFacts DEF TypeOK, Places
  <2>5. WordOK'
    BY <2>2, <2>3 DEF WordOK
  <2>6. TidNamesOwner'
    BY <2>1, <2>3, GotoFacts DEF TidNamesOwner, TypeOK, Places
  <2> QED BY <2>4, <2>5, <2>6
<1>6. ASSUME NEW t \in Threads, ExchangeTry(t)
      PROVE  Inv'
  <2>1. PICK to \in {"store", "out"} :
          Goto(t, to) /\ (to = "store" <=> lock_state = "UNLOCKED")
    BY <1>6 DEF ExchangeTry
  <2>2. pc[t] = "try" /\ t \notin Owners
    BY <1>6 DEF ExchangeTry, At, Owners
  <2>3. Owners' = IF to = "store" THEN {t} ELSE Owners
    BY <2>1, <2>2, GotoOwners DEF TypeOK, Places, WordOK
  <2>4. TypeOK'
    BY <1>6, <2>1, GotoFacts DEF ExchangeTry, TypeOK, Places
  <2>5. WordOK'
    BY <1>6, <2>1, <2>3 DEF ExchangeTry, WordOK, TypeOK
  <2>6. TidNamesOwner'
    BY <1>6, <2>1, <2>2, GotoFacts DEF ExchangeTry, TidNamesOwner, TypeOK,
       Places
  <2> QED BY <2>4, <2>5, <2>6
<1>7. ASSUME NEW t \in Threads, StoreTid(t)
      PROVE  Inv'
  <2>1. pc[t] = "store" /\ t \in Owners /\ Goto(t, "in")
    BY <1>7 DEF StoreTid, At, Owners
  <2>2. Owners' = Owners
    BY <2>1, GotoOwners DEF TypeOK, Places
  <2>3. TypeOK'
    BY <1>7, GotoFacts DEF StoreTid, TypeOK, Places
  <2>4. WordOK'
    BY <1>7, <2>2 DEF StoreTid, WordOK
  <2>5. \A u \in Threads \ {t} : pc'[u] \notin {"in", "clear"}
    BY <2>1, GotoFacts DEF WordOK, Owners, TypeOK, Places
  <2>6. TidNamesOwner'
    BY <1>7, <2>1, <2>5, GotoFacts DEF StoreTid, TidNamesOwner, TypeOK, Places
  <2> QED BY <2>3, <2>4, <2>6
<1>8. ASSUME NEW t \in Threads, ClearTid(t)
      PROVE  Inv'
  <2>1. pc[t] = "clear" /\ t \in Owners /\ Goto(t, "release")
    BY <1>8 DEF ClearTid, At, Owners
  <2>2. Owners' = Owners
    BY <2>1, GotoOwners DEF TypeOK, Places
  <2>3. TypeOK'
    BY <1>8, GotoFacts DEF ClearTid, TypeOK, Places
  <2>4. WordOK'
    BY <1>8, <2>2 DEF ClearTid, WordOK
  <2>5. \A u \in Threads \ {t} : pc'[u] \notin {"in", "clear"}
    BY <2>1, GotoFacts DEF WordOK, Owners, TypeOK, Places
  <2>6. TidNamesOwner'
    BY <1>8, <2>1, <2>5, GotoFacts DEF ClearTid, TidNamesOwner, TypeOK, Places
  <2> QED BY <2>3, <2>4, <2>6
<1>9. ASSUME NEW t \in Threads, ReleaseWord(t)
      PROVE  Inv'
  <2>1. pc[t] = "release" /\ t \in Owners /\ Goto(t, "out")
    BY <1>9 DEF ReleaseWord, At, Owners
  <2>2. Owners' = {}
    BY <2>1, GotoOwners DEF TypeOK, Places, WordOK
  <2>3. TypeOK'
    BY <1>9, GotoFacts DEF ReleaseWord, TypeOK, Places
  <2>4. WordOK'
    BY <1>9, <2>2 DEF ReleaseWord, WordOK
  <2>5. TidNamesOwner'
    BY <1>9, <2>1, GotoFacts DEF ReleaseWord, TidNamesOwner, TypeOK, Places
  <2> QED BY <2>3, <2>4, <2>5
<1> QED
  BY <1>1, <1>2, <1>3, <1>4, <1>5, <1>6, <1>7, <1>8, <1>9 DEF Next, Step

\* The word, the owner and the tid agree in every reachable state.
THEOREM MutexInvariance == Spec => []Inv
BY InitInv, StepInv, PTL DEF Spec

\* At most one thread is between its successful exchange and the release of
\* the word, and the word says whether one is (mutex_lock, mutex_try_lock,
\* mutex_unlock).
THEOREM WordOKAlways == Spec => []WordOK
BY MutexInvariance, PTL DEF Inv

\* The tid that spinning threads yield to is the owner's, or -1.
THEOREM TidNamesOwnerAlways == Spec => []TidNamesOwner
BY MutexInvariance, PTL DEF Inv

-----------------------------------------------------------------------------
(***************************************************************************)
(* Refinement.                                                             *)
(***************************************************************************)

\* What a step of one thread is for the abstract lock.
LEMMA PhaseStep ==
  ASSUME pc \in [Threads -> Places], NEW t \in Threads, NEW to \in Places,
         Goto(t, to)
  PROVE  /\ Phase[t] = PhaseAt(pc[t])
         /\ Phase' = [Phase EXCEPT ![t] = PhaseAt(to)]
BY DEF Goto, Phase

\* The abstract lock is free exactly when the word is UNLOCKED.
LEMMA FreeIsUnlocked ==
  ASSUME TypeOK, WordOK
  PROVE  Abstract!Free <=> lock_state = "UNLOCKED"
<1>1. \A t \in Threads : Phase[t] = "in" <=> t \in Owners
  <2> TAKE t \in Threads
  <2>1. pc[t] \in Places
    BY DEF TypeOK
  <2> QED BY <2>1 DEF Phase, PhaseAt, Owners, Places
<1>2. Owners \subseteq Threads
  BY DEF Owners
<1> QED BY <1>1, <1>2 DEF Abstract!Free, WordOK, TypeOK

\* A step that does not change the abstract place of the thread is a stutter.
LEMMA PhaseStutter ==
  ASSUME pc \in [Threads -> Places], NEW t \in Threads, NEW to \in Places,
         Goto(t, to), PhaseAt(pc[t]) = PhaseAt(to)
  PROVE  Phase' = Phase
<1>1. Phase' = [Phase EXCEPT ![t] = PhaseAt(to)] /\ Phase[t] = PhaseAt(to)
  BY PhaseStep
<1>2. DOMAIN Phase = Threads /\ Phase = [u \in Threads |-> Phase[u]]
  BY DEF Phase
<1> QED BY <1>1, <1>2

\* Every step of the mutex is a step of the abstract lock or a stutter.
LEMMA StepRefines ==
  ASSUME Inv, [Next]_vars
  PROVE  [Abstract!Next]_Phase
<1> USE DEF Inv
<1>0. pc \in [Threads -> Places]
  BY DEF TypeOK
<1>1. CASE UNCHANGED vars
  BY <1>1 DEF vars, Phase
<1>2. ASSUME NEW t \in Threads, Preempt(t)
      PROVE  Phase' = Phase
  BY <1>2 DEF Preempt, Phase
<1>3. ASSUME NEW t \in Threads, NEW to \in {"lock", "try"}, Call(t, to)
      PROVE  Abstract!Request(t)
  <2>1. pc[t] = "out" /\ Goto(t, to)
    BY <1>3 DEF Call, At
  <2>2. to \in Places /\ PhaseAt("out") = "out" /\ PhaseAt(to) = to
    BY DEF Places, PhaseAt
  <2> QED BY <1>0, <2>1, <2>2, PhaseStep DEF Abstract!Request, Abstract!Move
<1>4. ASSUME NEW t \in Threads, ExchangeLock(t)
      PROVE  Abstract!Acquire(t) \/ Phase' = Phase
  <2>1. pc[t] = "lock" /\ PhaseAt("lock") = "lock" /\ PhaseAt("read") = "lock"
        /\ PhaseAt("store") = "in" /\ {"read", "store"} \subseteq Places
    BY <1>4 DEF ExchangeLock, At, PhaseAt, Places
  <2>2. CASE lock_state = "UNLOCKED"
    <3>1. Goto(t, "store") /\ Abstract!Free
      BY <1>4, <2>2, FreeIsUnlocked DEF ExchangeLock
    <3> QED BY <1>0, <2>1, <3>1, PhaseStep DEF Abstract!Acquire, Abstract!Move
  <2>3. CASE lock_state # "UNLOCKED"
    BY <1>0, <1>4, <2>1, <2>3, PhaseStutter DEF ExchangeLock
  <2> QED BY <2>2, <2>3
<1>5. ASSUME NEW t \in Threads, ExchangeTry(t)
      PROVE  Abstract!Acquire(t) \/ Abstract!TryFail(t)
  <2>1. pc[t] = "try" /\ PhaseAt("try") = "try" /\ PhaseAt("out") = "out"
        /\ PhaseAt("store") = "in" /\ {"out", "store"} \subseteq Places
    BY <1>5 DEF ExchangeTry, At, PhaseAt, Places
  <2>2. CASE lock_state = "UNLOCKED"
    <3>1. Goto(t, "store") /\ Abstract!Free
      BY <1>5, <2>2, FreeIsUnlocked DEF ExchangeTry
    <3> QED BY <1>0, <2>1, <3>1, PhaseStep DEF Abstract!Acquire, Abstract!Move
  <2>3. CASE lock_state # "UNLOCKED"
    <3>1. Goto(t, "out") /\ ~Abstract!Free
      BY <1>5, <2>3, FreeIsUnlocked DEF ExchangeTry
    <3> QED BY <1>0, <2>1, <3>1, PhaseStep DEF Abstract!TryFail, Abstract!Move
  <2> QED BY <2>2, <2>3
<1>6. ASSUME NEW t \in Threads, ReleaseWord(t)
      PROVE  Abstract!Release(t)
  <2>1. pc[t] = "release" /\ Goto(t, "out")
    BY <1>6 DEF ReleaseWord, At
  <2>2. "out" \in Places /\ PhaseAt("release") = "in" /\ PhaseAt("out") = "out"
    BY DEF Places, PhaseAt
  <2> QED BY <1>0, <2>1, <2>2, PhaseStep DEF Abstract!Release, Abstract!Move
<1>7. ASSUME NEW t \in Threads,
             \/ ReadTid(t) \/ Yield(t) \/ StoreTid(t) \/ Leave(t) \/ ClearTid(t)
      PROVE  Phase' = Phase
  <2>1. PICK to \in Places : Goto(t, to) /\ PhaseAt(pc[t]) = PhaseAt(to)
    BY <1>7 DEF ReadTid, Yield, StoreTid, Leave, ClearTid, At, Places, PhaseAt
  <2> QED BY <1>0, <2>1, PhaseStutter
<1> QED
  BY <1>1, <1>2, <1>3, <1>4, <1>5, <1>6, <1>7
     DEF Next, Step, Abstract!Next

\* The initial state is one of the abstract lock.
LEMMA InitRefines == Init => Abstract!Init
BY DEF Init, Abstract!Init, Phase, PhaseAt

\* mutex_lock, mutex_try_lock and mutex_unlock implement the abstract lock,
\* for any number of threads.
THEOREM MutexImplementsLock == Spec => ImplementsLock
<1>1. Inv /\ [Next]_vars => [Abstract!Next]_Phase
  BY StepRefines
<1> QED
  BY <1>1, InitRefines, MutexInvariance, PTL
     DEF Spec, ImplementsLock, Abstract!Spec
================================================================================
