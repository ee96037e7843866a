---------------------------- MODULE UserLibProofs ----------------------------
(***************************************************************************)
(* Proofs about the thread library, for any number of threads.             *)
(***************************************************************************)
EXTENDS UserLib, SequenceLemmas

-----------------------------------------------------------------------------
(***************************************************************************)
(* Condition variables.                                                    *)
(***************************************************************************)

\* The places inside cond_wait, cond_signal and cond_broadcast.
WaitPlaces == {"cw_enqueue", "cw_unlock", "cw_sleep", "cw_lock"}
SigPlaces  == {"cs_take", "cb_take", "cs_wake"}
CallPlaces == WaitPlaces \cup SigPlaces
EntryPlaces == {"cw_enqueue", "cs_take", "cb_take"}

\* t is descheduled, or about to be.
Pending(t) == t \in asleep \/ at[t] \in {"cw_unlock", "cw_sleep"}

CondType ==
  /\ held \in [Mutexes -> Threads \cup {NoThread}]
  /\ waiting \in [Conds -> Seq(Threads)]
  /\ asleep \subseteq Threads
  /\ DOMAIN at = Threads /\ DOMAIN frame = Threads
  /\ waking \in [Threads -> Seq(Threads)]

\* Who is in a list, and who is being woken.
Listed ==
  \A c \in Conds :
    /\ IsInjective(waiting[c])
    /\ \A t \in Range(waiting[c]) : Pending(t) /\ frame[t].cv = c

Woken ==
  \A u \in Threads :
    /\ IsInjective(waking[u])
    /\ \A t \in Range(waking[u]) :
         /\ Pending(t) /\ at[u] = "cs_wake"
         /\ t \notin Range(waiting[frame[t].cv])
         /\ \A v \in Threads : t \in Range(waking[v]) => u = v

\* A thread that waits is in one of the two.
Claimed ==
  \A t \in Threads :
    Pending(t) => \/ t \in Range(waiting[frame[t].cv])
                  \/ \E u \in Threads : t \in Range(waking[u])

Called ==
  /\ \A t \in asleep : at[t] = "cw_lock"
  /\ \A t \in Threads :
       at[t] \in CallPlaces =>
         frame[t].cv \in Conds /\ frame[t].back \notin CallPlaces

CondInv == CondType /\ Listed /\ Woken /\ Claimed /\ Called

\* A step that leaves the lists alone, and the threads that wait or wake:
\* the threads it moves are in no call afterwards, or at the entry of one.
Aside ==
  /\ held' \in [Mutexes -> Threads \cup {NoThread}]
  /\ UNCHANGED <<waiting, asleep, waking>>
  /\ DOMAIN at' = Threads /\ DOMAIN frame' = Threads
  /\ \A u \in Threads :
       \/ at'[u] = at[u] /\ frame'[u] = frame[u]
       \/ /\ ~Pending(u) /\ (at[u] = "cs_wake" => waking[u] = <<>>)
          /\ at'[u] \notin CallPlaces \ EntryPlaces
          /\ at'[u] \in EntryPlaces =>
               frame'[u].cv \in Conds /\ frame'[u].back \notin CallPlaces

\* What is in a list or is being woken is a thread.
LEMMA ListedThreads ==
  ASSUME CondType
  PROVE  /\ \A c \in Conds : Range(waiting[c]) \subseteq Threads
         /\ \A u \in Threads : Range(waking[u]) \subseteq Threads
BY RangeSubset DEF CondType

\* Steps outside of cond.c keep the invariant of condition variables.
LEMMA AsideKeeps ==
  ASSUME CondInv, Aside
  PROVE  CondInv'
<1> USE DEF CondInv
<1>0. /\ \A c \in Conds : Range(waiting[c]) \subseteq Threads
      /\ \A u \in Threads : Range(waking[u]) \subseteq Threads
  BY ListedThreads
<1>1. CondType'
  BY DEF CondType, Aside
<1>2. \A u \in Threads : Pending(u) => /\ at'[u] = at[u] /\ frame'[u] = frame[u]
                                       /\ Pending(u)'
  BY DEF Aside, Pending
<1>3. \A u \in Threads : Pending(u)' => Pending(u)
  BY DEF Aside, Pending, CallPlaces, WaitPlaces, SigPlaces, EntryPlaces
<1>4. Listed'
  <2> SUFFICES ASSUME NEW c \in Conds
               PROVE  /\ IsInjective(waiting[c])
                      /\ \A t \in Range(waiting[c]) :
                           Pending(t)' /\ frame'[t].cv = c
    BY DEF Listed, Aside
  <2> QED BY <1>0, <1>2 DEF Listed
<1>5. Woken'
  <2> SUFFICES ASSUME NEW u \in Threads
               PROVE  /\ IsInjective(waking[u])
                      /\ \A t \in Range(waking[u]) :
                          /\ Pending(t)' /\ at'[u] = "cs_wake"
                          /\ t \notin Range(waiting[frame'[t].cv])
                          /\ \A v \in Threads : t \in Range(waking[v]) => u = v
    BY DEF Woken, Aside
  <2>1. IsInjective(waking[u])
    BY DEF Woken
  <2>2. ASSUME NEW t \in Range(waking[u]) PROVE at'[u] = "cs_wake"
    <3>1. waking[u] # <<>> /\ at[u] = "cs_wake"
      BY ShortSequences DEF Woken
    <3> QED BY <3>1 DEF Aside
  <2>3. ASSUME NEW t \in Range(waking[u])
        PROVE  /\ Pending(t)' /\ t \notin Range(waiting[frame'[t].cv])
               /\ \A v \in Threads : t \in Range(waking[v]) => u = v
    BY <1>0, <1>2 DEF Woken
  <2> QED BY <2>1, <2>2, <2>3
<1>6. Claimed'
  <2> SUFFICES ASSUME NEW t \in Threads, Pending(t)'
               PROVE  \/ t \in Range(waiting[frame'[t].cv])
                      \/ \E u \in Threads : t \in Range(waking[u])
    BY DEF Claimed, Aside
  <2> QED BY <1>2, <1>3 DEF Claimed
<1>7. Called'
  <2>1. \A t \in asleep : at'[t] = "cw_lock"
    BY <1>2 DEF Called, Pending, CondType
  <2>2. \A t \in Threads : at'[t] \in CallPlaces =>
          frame'[t].cv \in Conds /\ frame'[t].back \notin CallPlaces
    BY DEF Called, Aside
  <2> QED BY <2>1, <2>2 DEF Called, Aside
<1> QED BY <1>1, <1>4, <1>5, <1>6, <1>7

\* cond_wait puts the thread in the list: it was in none, and woken by none.
LEMMA CwEnqueueKeeps ==
  ASSUME CondInv, NEW t \in Threads, CwEnqueue(t)
  PROVE  CondInv'
<1> USE DEF CondInv
<1> DEFINE c == frame[t].cv
<1>0. /\ \A d \in Conds : Range(waiting[d]) \subseteq Threads
      /\ \A u \in Threads : Range(waking[u]) \subseteq Threads
  BY ListedThreads
<1>1. /\ at[t] = "cw_enqueue" /\ t \notin asleep
      /\ at' = [at EXCEPT ![t] = "cw_unlock"]
      /\ waiting' = [waiting EXCEPT ![c] = Append(waiting[c], t)]
      /\ UNCHANGED <<held, asleep, frame, waking>>
  BY DEF CwEnqueue, Here, Goto
<1>2. c \in Conds /\ c = frame'[t].cv
  BY <1>1 DEF Called, CallPlaces, WaitPlaces
<1>3. ~Pending(t)
  BY <1>1 DEF Pending
<1>4. /\ \A d \in Conds : t \notin Range(waiting[d])
      /\ \A u \in Threads : t \notin Range(waking[u])
  BY <1>3 DEF Listed, Woken
<1>5. /\ Append(waiting[c], t) \in Seq(Threads)
      /\ IsInjective(Append(waiting[c], t))
      /\ Range(Append(waiting[c], t)) = Range(waiting[c]) \cup {t}
  BY <1>2, <1>4, AppendNew DEF CondType, Listed
<1> HIDE DEF c
<1>6. CondType'
  BY <1>1, <1>2, <1>5 DEF CondType
<1>7. \A u \in Threads : Pending(u)' <=> Pending(u) \/ u = t
  BY <1>1 DEF Pending, CondType
<1>8. /\ \A d \in Conds \ {c} : waiting'[d] = waiting[d]
      /\ waiting'[c] = Append(waiting[c], t)
  BY <1>1, <1>2 DEF CondType
<1>9. Listed'
  <2> SUFFICES ASSUME NEW d \in Conds
               PROVE  /\ IsInjective(waiting'[d])
                      /\ \A u \in Range(waiting'[d]) :
                           Pending(u)' /\ frame[u].cv = d
    BY <1>1 DEF Listed
  <2>1. CASE d = c
    <3>1. IsInjective(waiting'[d]) /\ Range(waiting'[d]) = Range(waiting[c]) \cup {t}
      BY <2>1, <1>5, <1>8
    <3>2. frame[t].cv = c
      BY DEF c
    <3>3. \A u \in Range(waiting[c]) : Pending(u)' /\ frame[u].cv = c
      BY <1>0, <1>2, <1>7 DEF Listed
    <3> QED BY <2>1, <3>1, <3>2, <3>3, <1>7
  <2>2. CASE d # c
    BY <2>2, <1>0, <1>7, <1>8 DEF Listed
  <2> QED BY <2>1, <2>2
<1>10. Woken'
  <2> SUFFICES ASSUME NEW u \in Threads
               PROVE  /\ IsInjective(waking[u])
                      /\ \A v \in Range(waking[u]) :
                          /\ Pending(v)' /\ at'[u] = "cs_wake"
                          /\ v \notin Range(waiting'[frame[v].cv])
                          /\ \A w \in Threads : v \in Range(waking[w]) => u = w
    BY <1>1 DEF Woken
  <2>1. IsInjective(waking[u])
    BY DEF Woken
  <2>2. ASSUME NEW v \in Range(waking[u])
        PROVE  /\ Pending(v)' /\ at'[u] = "cs_wake"
               /\ \A w \in Threads : v \in Range(waking[w]) => u = w
    BY <1>0, <1>1, <1>7 DEF Woken, CondType
  <2>3. ASSUME NEW v \in Range(waking[u])
        PROVE  v \notin Range(waiting'[frame[v].cv])
    <3>1. v \notin Range(waiting[frame[v].cv]) /\ v # t /\ v \in Threads
      BY <1>0, <1>4 DEF Woken
    <3>2. frame[v].cv \in Conds
      <4>1. Pending(v)
        BY DEF Woken
      <4> QED BY <4>1, <3>1 DEF Pending, Called, CallPlaces, WaitPlaces
    <3> QED BY <3>1, <3>2, <1>5, <1>8
  <2> QED BY <2>1, <2>2, <2>3
<1>11. Claimed'
  <2> SUFFICES ASSUME NEW u \in Threads, Pending(u)'
               PROVE  \/ u \in Range(waiting'[frame[u].cv])
                      \/ \E v \in Threads : u \in Range(waking[v])
    BY <1>1 DEF Claimed
  <2>1. CASE u = t
    BY <2>1, <1>1, <1>2, <1>5, <1>8
  <2>2. CASE u # t
    <3>1. Pending(u)
      BY <2>2, <1>7
    <3>2. frame[u].cv \in Conds
      BY <3>1 DEF Pending, Called, CallPlaces, WaitPlaces
    <3> QED BY <3>1, <3>2, <1>5, <1>8 DEF Claimed
  <2> QED BY <2>1, <2>2
<1>12. Called'
  BY <1>1, <1>2 DEF Called, CondType, CallPlaces, WaitPlaces
<1> QED BY <1>6, <1>9, <1>10, <1>11, <1>12

\* The steps of cond_wait between the list and deschedule.
LEMMA CwSleepKeeps ==
  ASSUME CondInv, NEW t \in Threads, CwUnlock(t) \/ CwSleep(t)
  PROVE  CondInv'
<1> USE DEF CondInv
<1>0. /\ \A d \in Conds : Range(waiting[d]) \subseteq Threads
      /\ \A u \in Threads : Range(waking[u]) \subseteq Threads
  BY ListedThreads
<1>1. /\ UNCHANGED <<waiting, frame, waking>>
      /\ t \notin asleep
      /\ \/ /\ at[t] = "cw_unlock" /\ at' = [at EXCEPT ![t] = "cw_sleep"]
            /\ UNCHANGED asleep
         \/ /\ at[t] = "cw_sleep" /\ at' = [at EXCEPT ![t] = "cw_lock"]
            /\ asleep' = asleep \cup {t}
  BY DEF CwUnlock, CwSleep, Here, Goto
<1>2. held' \in [Mutexes -> Threads \cup {NoThread}]
  BY DEF CwUnlock, CwSleep, Drop, CondType
<1>3. CondType'
  BY <1>1, <1>2 DEF CondType
<1>4. \A u \in Threads : Pending(u)' <=> Pending(u)
  BY <1>1 DEF Pending, CondType
<1>5. Listed'
  BY <1>0, <1>1, <1>4 DEF Listed
<1>6. Woken'
  BY <1>0, <1>1, <1>4 DEF Woken, CondType
<1>7. Claimed'
  BY <1>1, <1>4 DEF Claimed
<1>8. Called'
  BY <1>1 DEF Called, CondType, CallPlaces, WaitPlaces, SigPlaces
<1> QED BY <1>3, <1>5, <1>6, <1>7, <1>8

\* cond_wait returns with the mutex: nothing knows of the thread any more.
LEMMA CwLockAside ==
  ASSUME CondInv, NEW t \in Threads, CwLock(t)
  PROVE  Aside
<1>1. /\ at[t] = "cw_lock" /\ t \notin asleep
      /\ held' = [held EXCEPT ![frame[t].mp] = t]
      /\ at' = [at EXCEPT ![t] = frame[t].back]
      /\ frame' = [frame EXCEPT ![t] = NoFrame]
      /\ UNCHANGED <<waiting, asleep, waking>>
  BY DEF CwLock, Here, Take, Return, Goto
<1>2. frame[t].back \notin CallPlaces
  BY <1>1 DEF CondInv, Called, CallPlaces, WaitPlaces
<1>4. held' \in [Mutexes -> Threads \cup {NoThread}]
  BY <1>1 DEF CondInv, CondType
<1>5. DOMAIN frame' = Threads /\ DOMAIN at' = Threads
  BY <1>1 DEF CondInv, CondType
<1>6. \A u \in Threads \ {t} : at'[u] = at[u] /\ frame'[u] = frame[u]
  BY <1>1 DEF CondInv, CondType
<1>7. at'[t] \notin CallPlaces
  BY <1>1, <1>2 DEF CondInv, CondType
<1>8. at'[t] \notin EntryPlaces /\ ~Pending(t) /\ at[t] # "cs_wake"
  BY <1>1, <1>7 DEF Pending, CallPlaces, EntryPlaces, WaitPlaces, SigPlaces
<1> QED BY <1>1, <1>4, <1>5, <1>6, <1>7, <1>8 DEF Aside

\* cond_signal finds no waiter, or cond_signal or cond_broadcast returns.
LEMMA ReturnAside ==
  ASSUME CondInv, NEW t \in Threads, t \notin asleep,
         at[t] = "cs_take" \/ (at[t] = "cs_wake" /\ waking[t] = <<>>),
         Return(t), UNCHANGED <<held, waiting, asleep, waking>>
  PROVE  Aside
<1>1. /\ at' = [at EXCEPT ![t] = frame[t].back]
      /\ frame' = [frame EXCEPT ![t] = NoFrame]
  BY DEF Return, Goto
<1>2. frame[t].back \notin CallPlaces
  BY DEF CondInv, Called, CallPlaces, SigPlaces
<1>3. DOMAIN frame' = Threads /\ DOMAIN at' = Threads
  BY <1>1 DEF CondInv, CondType
<1>4. \A u \in Threads \ {t} : at'[u] = at[u] /\ frame'[u] = frame[u]
  BY <1>1 DEF CondInv, CondType
<1>5. at'[t] \notin CallPlaces
  BY <1>1, <1>2 DEF CondInv, CondType
<1>6. at'[t] \notin EntryPlaces /\ ~Pending(t)
  BY <1>5 DEF Pending, CallPlaces, EntryPlaces, WaitPlaces, SigPlaces
<1>7. held' \in [Mutexes -> Threads \cup {NoThread}]
  BY DEF CondInv, CondType
<1> QED BY <1>3, <1>4, <1>5, <1>6, <1>7 DEF Aside

\* cond_signal and cond_broadcast move waiters from the list to the caller,
\* who had none.
LEMMA TakeKeeps ==
  ASSUME CondInv, NEW t \in Threads, t \notin asleep,
         at[t] \in {"cs_take", "cb_take"},
         NEW q \in Seq(Threads), NEW w \in Seq(Threads),
         IsInjective(q), IsInjective(w),
         Range(waiting[frame[t].cv]) = Range(q) \cup Range(w),
         Range(q) \cap Range(w) = {},
         waiting' = [waiting EXCEPT ![frame[t].cv] = q],
         waking' = [waking EXCEPT ![t] = w],
         at' = [at EXCEPT ![t] = "cs_wake"],
         UNCHANGED <<held, asleep, frame>>
  PROVE  CondInv'
<1> USE DEF CondInv
<1>0. /\ \A d \in Conds : Range(waiting[d]) \subseteq Threads
      /\ \A u \in Threads : Range(waking[u]) \subseteq Threads
  BY ListedThreads
<1>1. PICK c \in Conds : c = frame[t].cv
  BY DEF Called, CallPlaces, SigPlaces
<1>2. /\ waiting'[c] = q /\ waking'[t] = w
      /\ \A d \in Conds \ {c} : waiting'[d] = waiting[d]
      /\ \A u \in Threads \ {t} : waking'[u] = waking[u] /\ at'[u] = at[u]
      /\ at'[t] = "cs_wake"
  BY <1>1 DEF CondType
<1>3. \A u \in Threads : u \notin Range(waking[t])
  BY DEF Woken
<1>4. \A u \in Threads : Pending(u)' <=> Pending(u)
  BY <1>2 DEF Pending
<1>5. CondType'
  BY <1>1 DEF CondType
<1>6. /\ \A u \in Range(q) : u \in Range(waiting[c])
      /\ \A u \in Range(w) : u \in Range(waiting[c])
      /\ \A u \in Range(waiting[c]) : u \in Threads /\ Pending(u) /\ frame[u].cv = c
  BY <1>0, <1>1 DEF Listed
<1>7. Listed'
  <2> SUFFICES ASSUME NEW d \in Conds
               PROVE  /\ IsInjective(waiting'[d])
                      /\ \A u \in Range(waiting'[d]) :
                           Pending(u)' /\ frame[u].cv = d
    BY DEF Listed
  <2>1. CASE d = c
    BY <2>1, <1>2, <1>4, <1>6
  <2>2. CASE d # c
    BY <2>2, <1>0, <1>2, <1>4 DEF Listed
  <2> QED BY <2>1, <2>2
<1>8. Woken'
  <2> SUFFICES ASSUME NEW u \in Threads
               PROVE  /\ IsInjective(waking'[u])
                      /\ \A v \in Range(waking'[u]) :
                          /\ Pending(v)' /\ at'[u] = "cs_wake"
                          /\ v \notin Range(waiting'[frame[v].cv])
                          /\ \A x \in Threads : v \in Range(waking'[x]) => u = x
    BY DEF Woken
  <2>1. IsInjective(waking'[u])
    BY <1>2 DEF Woken
  <2>2. ASSUME NEW v \in Range(waking'[u]), u = t
        PROVE  /\ Pending(v)' /\ at'[u] = "cs_wake"
               /\ v \notin Range(waiting'[frame[v].cv])
               /\ \A x \in Threads : v \in Range(waking'[x]) => u = x
    <3>1. v \in Range(w)
      BY <2>2, <1>2
    <3>2. v \in Range(waiting[c]) /\ frame[v].cv = c /\ Pending(v)' /\ v \in Threads
      BY <3>1, <1>6, <1>4
    <3>3. v \notin Range(waiting'[frame[v].cv])
      BY <3>1, <3>2, <1>2
    <3>4. \A x \in Threads : v \notin Range(waking[x])
      BY <3>2 DEF Woken
    <3> QED BY <3>2, <3>3, <3>4, <2>2, <1>2
  <2>3. ASSUME NEW v \in Range(waking'[u]), u # t
        PROVE  /\ Pending(v)' /\ at'[u] = "cs_wake"
               /\ v \notin Range(waiting'[frame[v].cv])
               /\ \A x \in Threads : v \in Range(waking'[x]) => u = x
    <3>1. v \in Range(waking[u]) /\ v \in Threads
      BY <2>3, <1>2, <1>0
    <3>2. /\ Pending(v)' /\ at'[u] = "cs_wake"
          /\ v \notin Range(waiting[frame[v].cv])
          /\ \A x \in Threads : v \in Range(waking[x]) => u = x
      BY <3>1, <2>3, <1>2, <1>4 DEF Woken
    <3>3. frame[v].cv \in Conds
      <4>1. Pending(v)
        BY <3>2, <3>1, <1>4
      <4> QED BY <4>1, <3>1 DEF Pending, Called, CallPlaces, WaitPlaces
    <3>4. v \notin Range(waiting'[frame[v].cv])
      BY <3>2, <3>3, <1>2, <1>6
    <3>5. v \notin Range(waking'[t])
      BY <3>1, <3>2, <1>2, <1>6
    <3> QED BY <3>2, <3>4, <3>5, <1>2
  <2> QED BY <2>1, <2>2, <2>3
<1>9. Claimed'
  <2> SUFFICES ASSUME NEW u \in Threads, Pending(u)'
               PROVE  \/ u \in Range(waiting'[frame[u].cv])
                      \/ \E v \in Threads : u \in Range(waking'[v])
    BY DEF Claimed
  <2>1. Pending(u) /\ frame[u].cv \in Conds
    BY <1>4 DEF Pending, Called, CallPlaces, WaitPlaces
  <2>2. CASE u \in Range(waiting[frame[u].cv])
    <3>1. CASE frame[u].cv = c
      BY <3>1, <2>2, <1>1, <1>2
    <3>2. CASE frame[u].cv # c
      BY <3>2, <2>1, <2>2, <1>2
    <3> QED BY <3>1, <3>2
  <2>3. CASE \E v \in Threads : u \in Range(waking[v])
    BY <2>3, <1>2, <1>3
  <2> QED BY <2>1, <2>2, <2>3 DEF Claimed
<1>10. Called'
  <2>1. \A u \in asleep : at'[u] = "cw_lock"
    BY <1>2 DEF Called, CondType
  <2>2. \A u \in Threads : at'[u] \in CallPlaces => at[u] \in CallPlaces
    BY <1>2 DEF CallPlaces, SigPlaces
  <2> QED BY <2>1, <2>2 DEF Called
<1> QED BY <1>5, <1>7, <1>8, <1>9, <1>10

\* make_runnable: the waiter is in no list and with nobody afterwards.
LEMMA CsWakeKeeps ==
  ASSUME CondInv, NEW t \in Threads, CsWake(t)
  PROVE  CondInv'
<1> USE DEF CondInv
<1>0. /\ \A d \in Conds : Range(waiting[d]) \subseteq Threads
      /\ \A u \in Threads : Range(waking[u]) \subseteq Threads
  BY ListedThreads
<1>1. PICK h : h = Head(waking[t])
  OBVIOUS
<1>2. /\ at[t] = "cs_wake" /\ waking[t] # <<>> /\ h \in asleep
      /\ asleep' = asleep \ {h}
      /\ waking' = [waking EXCEPT ![t] = Tail(waking[t])]
      /\ UNCHANGED <<held, waiting, at, frame>>
  BY <1>1 DEF CsWake, Here
<1>3. /\ h \in Range(waking[t]) /\ h \in Threads
      /\ Tail(waking[t]) \in Seq(Threads)
      /\ IsInjective(Tail(waking[t]))
      /\ Range(Tail(waking[t])) = Range(waking[t]) \ {h}
  BY <1>1, <1>2, DropFirst DEF CondType, Woken
<1>4. /\ waking'[t] = Tail(waking[t])
      /\ \A u \in Threads \ {t} : waking'[u] = waking[u]
  BY <1>2 DEF CondType
<1>5. at[h] = "cw_lock" /\ ~Pending(h)'
  BY <1>2 DEF Called, Pending
<1>6. \A u \in Threads : Pending(u)' <=> Pending(u) /\ u # h
  BY <1>2, <1>5 DEF Pending
<1>7. CondType'
  BY <1>2, <1>3 DEF CondType
<1>8. \A d \in Conds : h \notin Range(waiting[d])
  BY <1>3 DEF Listed, Woken
<1>9. Listed'
  BY <1>0, <1>2, <1>6, <1>8 DEF Listed
<1>10. \A u \in Threads : \A v \in Range(waking'[u]) :
         v \in Range(waking[u]) /\ v # h /\ v \in Threads
  BY <1>0, <1>3, <1>4, SMTT(20) DEF Woken
<1>11. Woken'
  <2> SUFFICES ASSUME NEW u \in Threads
               PROVE  /\ IsInjective(waking'[u])
                      /\ \A v \in Range(waking'[u]) :
                          /\ Pending(v)' /\ at[u] = "cs_wake"
                          /\ v \notin Range(waiting[frame[v].cv])
                          /\ \A x \in Threads : v \in Range(waking'[x]) => u = x
    BY <1>2 DEF Woken
  <2>1. IsInjective(waking'[u])
    BY <1>3, <1>4 DEF Woken
  <2> QED BY <2>1, <1>6, <1>10 DEF Woken
<1>12. Claimed'
  <2> SUFFICES ASSUME NEW u \in Threads, Pending(u)'
               PROVE  \/ u \in Range(waiting[frame[u].cv])
                      \/ \E v \in Threads : u \in Range(waking'[v])
    BY <1>2 DEF Claimed
  <2> QED BY <1>3, <1>4, <1>6 DEF Claimed
<1>13. Called'
  BY <1>2 DEF Called
<1> QED BY <1>7, <1>9, <1>11, <1>12, <1>13

\* Every step of cond.c keeps the invariant.
LEMMA CondStepKeeps ==
  ASSUME CondInv, NEW t \in Threads, CondStep(t)
  PROVE  CondInv'
<1>0. at[t] \in SigPlaces => waiting[frame[t].cv] \in Seq(Threads) /\ IsInjective(waiting[frame[t].cv])
  BY DEF CondInv, CondType, Called, CallPlaces, Listed
<1>1. CASE CwEnqueue(t)
  BY <1>1, CwEnqueueKeeps
<1>2. CASE CwUnlock(t) \/ CwSleep(t)
  BY <1>2, CwSleepKeeps
<1>3. CASE CwLock(t)
  BY <1>3, CwLockAside, AsideKeeps
<1>4. CASE CsTake(t)
  <2>1. PICK q : q = waiting[frame[t].cv]
    OBVIOUS
  <2>2. at[t] = "cs_take" /\ t \notin asleep /\ UNCHANGED <<held, asleep>>
    BY <1>4 DEF CsTake, Here
  <2>3. q \in Seq(Threads) /\ IsInjective(q)
    BY <2>1, <2>2, <1>0 DEF SigPlaces
  <2>4. CASE q = <<>>
    <3>1. Return(t) /\ UNCHANGED <<waiting, waking>>
      BY <1>4, <2>1, <2>4 DEF CsTake
    <3> QED BY <2>2, <3>1, ReturnAside, AsideKeeps
  <2>5. CASE q # <<>>
    <3>1. /\ waiting' = [waiting EXCEPT ![frame[t].cv] = Tail(q)]
          /\ waking' = [waking EXCEPT ![t] = <<Head(q)>>]
          /\ at' = [at EXCEPT ![t] = "cs_wake"]
          /\ UNCHANGED frame
      BY <1>4, <2>1, <2>5 DEF CsTake, Goto
    <3>2. PICK r, w : r = Tail(q) /\ w = <<Head(q)>>
      OBVIOUS
    <3>3. /\ r \in Seq(Threads) /\ IsInjective(r)
          /\ Range(q) = Range(r) \cup {Head(q)} /\ Head(q) \in Threads
          /\ Head(q) \notin Range(r)
      BY <2>3, <2>5, <3>2, DropFirst
    <3>4. w \in Seq(Threads) /\ IsInjective(w) /\ Range(w) = {Head(q)}
      BY <3>2, <3>3, ShortSequences, Zenon
    <3>5. Range(waiting[frame[t].cv]) = Range(r) \cup Range(w)
          /\ Range(r) \cap Range(w) = {}
      BY <3>3, <3>4, <2>1
    <3>6. /\ waiting' = [waiting EXCEPT ![frame[t].cv] = r]
          /\ waking' = [waking EXCEPT ![t] = w]
      BY <3>1, <3>2, Zenon
    <3>7. at[t] \in {"cs_take", "cb_take"}
      BY <2>2
    <3> QED BY <2>2, <3>1, <3>3, <3>4, <3>5, <3>6, <3>7, TakeKeeps, Zenon
  <2> QED BY <2>4, <2>5
<1>5. CASE CbTake(t)
  <2>1. PICK r, w : r = <<>> /\ w = waiting[frame[t].cv]
    OBVIOUS
  <2>2. /\ at[t] = "cb_take" /\ t \notin asleep /\ UNCHANGED <<held, asleep, frame>>
        /\ waiting' = [waiting EXCEPT ![frame[t].cv] = r]
        /\ waking' = [waking EXCEPT ![t] = w]
        /\ at' = [at EXCEPT ![t] = "cs_wake"]
    BY <1>5, <2>1, Zenon DEF CbTake, Here, Goto
  <2>3. w \in Seq(Threads) /\ IsInjective(w)
    BY <2>1, <2>2, <1>0 DEF SigPlaces
  <2>4. r \in Seq(Threads) /\ IsInjective(r) /\ Range(r) = {}
    BY <2>1, ShortSequences, Zenon
  <2>5. Range(waiting[frame[t].cv]) = Range(r) \cup Range(w)
        /\ Range(r) \cap Range(w) = {}
    BY <2>1, <2>4
  <2>6. at[t] \in {"cs_take", "cb_take"}
    BY <2>2
  <2> QED BY <2>2, <2>3, <2>4, <2>5, <2>6, TakeKeeps, Zenon
<1>6. CASE CsWake(t)
  BY <1>6, CsWakeKeeps
<1>7. CASE CsDone(t)
  BY <1>7, ReturnAside, AsideKeeps DEF CsDone, Here
<1> QED BY <1>1, <1>2, <1>3, <1>4, <1>5, <1>6, <1>7 DEF CondStep

\* The invariant says what NoLostWaiter says: a waiter is claimed once.
LEMMA ClaimedOnce ==
  ASSUME CondInv
  PROVE  NoLostWaiter
<1> USE DEF CondInv
<1> SUFFICES ASSUME NEW t \in Threads
             PROVE  Claims(t) = IF Pending(t) THEN 1 ELSE 0
  BY DEF NoLostWaiter, Pending
<1> DEFINE A == {c \in Conds : t \in Range(waiting[c])}
           B == {u \in Threads : t \in Range(waking[u])}
<1>1. Claims(t) = Cardinality(A) + Cardinality(B)
  BY DEF Claims
<1>2. CASE ~Pending(t)
  <2>1. A = {} /\ B = {}
    BY <1>2 DEF Listed, Woken
  <2> QED BY <2>1, <1>1, <1>2, FS_EmptySet, SMTT(20)
<1>3. CASE Pending(t) /\ t \in Range(waiting[frame[t].cv])
  <2>1. frame[t].cv \in Conds
    BY <1>3 DEF Pending, Called, CallPlaces, WaitPlaces
  <2>2. A = {frame[t].cv}
    BY <1>3, <2>1 DEF Listed
  <2>3. B = {}
    BY <1>3 DEF Woken
  <2> HIDE DEF A, B
  <2>4. Cardinality(A) = 1 /\ Cardinality(B) = 0
    BY <2>2, <2>3, FS_EmptySet, FS_Singleton
  <2> QED BY <2>4, <1>1, <1>3
<1>4. CASE Pending(t) /\ t \notin Range(waiting[frame[t].cv])
  <2>1. PICK u \in Threads : t \in Range(waking[u])
    BY <1>4 DEF Claimed
  <2>2. A = {}
    BY <1>4 DEF Listed
  <2>3. B = {u}
    BY <2>1 DEF Woken
  <2> HIDE DEF A, B
  <2>4. Cardinality(A) = 0 /\ Cardinality(B) = 1
    BY <2>2, <2>3, FS_EmptySet, FS_Singleton
  <2> QED BY <2>4, <1>1, <1>4
<1> QED BY <1>2, <1>3, <1>4

-----------------------------------------------------------------------------
(***************************************************************************)
(* Who is where, and who holds the lock.                                   *)
(*                                                                         *)
(* A program of the library has its own places S, and calls cond.c from    *)
(* them.  Semaphores, reader/writer locks and threads each keep one mutex  *)
(* L at the places H among them, and at these places of cond.c.            *)
(***************************************************************************)
Inside == {"cw_enqueue", "cw_unlock", "cs_take", "cs_wake"}

Placed(S) ==
  \A t \in Threads :
    /\ at[t] \in S \cup CallPlaces
    /\ at[t] \in CallPlaces => frame[t].back \in S

Guarded(L, S, H) ==
  \A t \in Threads :
    /\ at[t] \in S \cup (CallPlaces \ {"cb_take"})
    /\ at[t] \in CallPlaces => frame[t].back \in H
    /\ at[t] \in WaitPlaces => frame[t].mp = L
    /\ at[t] \in H \cup Inside => held[L] = t

\* Thread t goes on, alone, or with threads that have nothing to do with L.
Moves(t, L, S, H) ==
  /\ \A u \in Threads \ {t} :
       \/ at'[u] = at[u] /\ frame'[u] = frame[u]
       \/ at[u] \notin H \cup CallPlaces /\ at'[u] \in S \ H
  /\ at'[t] \in S \/ /\ at'[t] \in {"cw_enqueue", "cs_take"}
                     /\ frame'[t].back \in H
                     /\ at'[t] = "cw_enqueue" => frame'[t].mp = L
  /\ \/ held[L] = NoThread /\ held'[L] = t
     \/ held'[L] = held[L] /\ (at'[t] \in H \cup Inside => at[t] \in H)
     \/ at[t] \in H /\ held'[L] = NoThread /\ at'[t] \notin H \cup Inside

\* Such a step keeps to the discipline.
LEMMA MovesKeeps ==
  ASSUME NEW L \in Mutexes, NEW S, NEW H \in SUBSET S, S \cap CallPlaces = {},
         Guarded(L, S, H), NEW t \in Threads, Moves(t, L, S, H)
  PROVE  Guarded(L, S, H)'
<1>0. NoThread \notin Threads
  BY CondAssumption
<1> SUFFICES ASSUME NEW u \in Threads
             PROVE  /\ at'[u] \in S \cup (CallPlaces \ {"cb_take"})
                    /\ at'[u] \in CallPlaces => frame'[u].back \in H
                    /\ at'[u] \in WaitPlaces => frame'[u].mp = L
                    /\ at'[u] \in H \cup Inside => held'[L] = u
  BY DEF Guarded
<1>1. CASE u = t
  <2>1. CASE at'[t] \in S
    <3>1. at'[t] \notin CallPlaces /\ at'[t] \notin WaitPlaces
      BY <2>1 DEF CallPlaces
    <3>2. at'[t] \in H \cup Inside => held'[L] = t
      BY DEF Guarded, Moves
    <3> QED BY <1>1, <2>1, <3>1, <3>2
  <2>2. CASE at'[t] \notin S
    <3>1. at'[t] \in {"cw_enqueue", "cs_take"} /\ frame'[t].back \in H
          /\ (at'[t] = "cw_enqueue" => frame'[t].mp = L)
      BY <2>2 DEF Moves
    <3>2. held'[L] = t
      BY <3>1 DEF Guarded, Moves, Inside
    <3> QED BY <1>1, <3>1, <3>2 DEF CallPlaces, WaitPlaces, SigPlaces
  <2> QED BY <2>1, <2>2
<1>2. CASE u # t /\ at'[u] = at[u] /\ frame'[u] = frame[u]
  <2>1. at[u] \in H \cup Inside => held'[L] = u
    BY <1>0, <1>2 DEF Guarded, Moves
  <2> QED BY <1>2, <2>1 DEF Guarded
<1>3. CASE u # t /\ at[u] \notin H \cup CallPlaces /\ at'[u] \in S \ H
  <2>1. at'[u] \notin CallPlaces
    BY <1>3
  <2>2. at'[u] \notin Inside /\ at'[u] \notin WaitPlaces
    BY <2>1 DEF Inside, CallPlaces, WaitPlaces, SigPlaces
  <2> QED BY <1>3, <2>1, <2>2
<1> QED BY <1>1, <1>2, <1>3 DEF Moves

\* Where a step of cond.c takes a thread, and what it does to mutexes.
LEMMA CondStepMoves ==
  ASSUME CondInv, NEW t \in Threads, CondStep(t)
  PROVE  /\ \A u \in Threads \ {t} : at'[u] = at[u] /\ frame'[u] = frame[u]
         /\ t \notin asleep /\ at[t] \in CallPlaces
         /\ \/ at'[t] = frame[t].back
            \/ at'[t] \in CallPlaces \ EntryPlaces /\ frame'[t] = frame[t]
         /\ \/ /\ at[t] = "cw_unlock" /\ at'[t] = "cw_sleep"
               /\ held' = [held EXCEPT ![frame[t].mp] = NoThread]
            \/ /\ at[t] = "cw_lock" /\ at'[t] = frame[t].back
               /\ held[frame[t].mp] = NoThread
               /\ held' = [held EXCEPT ![frame[t].mp] = t]
            \/ /\ held' = held
               /\ \/ at[t] = "cw_enqueue" /\ at'[t] = "cw_unlock"
                  \/ at[t] = "cw_sleep" /\ at'[t] = "cw_lock"
                  \/ at[t] \in SigPlaces
                     /\ (at'[t] = "cs_wake" \/ at'[t] = frame[t].back)
<1> USE DEF CondInv, CondType
<1>0. UNCHANGED at => at'[t] = at[t]
  OBVIOUS
<1>1. CASE CwEnqueue(t)
  BY <1>1 DEF CwEnqueue, Here, Goto, CallPlaces, WaitPlaces, SigPlaces, EntryPlaces
<1>2. CASE CwUnlock(t)
  BY <1>2 DEF CwUnlock, Here, Goto, Drop, CallPlaces, WaitPlaces, SigPlaces, EntryPlaces
<1>3. CASE CwSleep(t)
  BY <1>3 DEF CwSleep, Here, Goto, CallPlaces, WaitPlaces, SigPlaces, EntryPlaces
<1>4. CASE CwLock(t)
  BY <1>4 DEF CwLock, Here, Take, Return, Goto, CallPlaces, WaitPlaces
<1>5. CASE CsTake(t)
  <2>1. at[t] = "cs_take" /\ t \notin asleep /\ held' = held
    BY <1>5 DEF CsTake, Here
  <2>2. CASE waiting[frame[t].cv] = <<>>
    <3>1. Return(t)
      BY <2>2, <1>5 DEF CsTake
    <3> QED BY <2>1, <3>1 DEF Return, Goto, CallPlaces, SigPlaces
  <2>3. CASE waiting[frame[t].cv] # <<>>
    <3>1. at' = [at EXCEPT ![t] = "cs_wake"] /\ frame' = frame
      BY <2>3, <1>5 DEF CsTake, Goto
    <3> QED BY <2>1, <3>1 DEF CallPlaces, SigPlaces, WaitPlaces, EntryPlaces
  <2> QED BY <2>2, <2>3
<1>6. CASE CbTake(t)
  BY <1>6 DEF CbTake, Here, Goto, CallPlaces, WaitPlaces, SigPlaces, EntryPlaces
<1>7. CASE CsWake(t)
  BY <1>7 DEF CsWake, Here, CallPlaces, WaitPlaces, SigPlaces, EntryPlaces
<1>8. CASE CsDone(t)
  BY <1>8 DEF CsDone, Here, Return, Goto, CallPlaces, SigPlaces
<1> QED BY <1>1, <1>2, <1>3, <1>4, <1>5, <1>6, <1>7, <1>8 DEF CondStep

\* The steps of cond.c keep to the places of the program, ...
LEMMA CondStepPlaced ==
  ASSUME NEW S, S \cap CallPlaces = {}, CondInv, Placed(S),
         NEW t \in Threads, CondStep(t)
  PROVE  Placed(S)'
<1> SUFFICES ASSUME NEW u \in Threads
             PROVE  /\ at'[u] \in S \cup CallPlaces
                    /\ at'[u] \in CallPlaces => frame'[u].back \in S
  BY DEF Placed
<1>1. CASE u # t
  BY <1>1, CondStepMoves DEF Placed
<1>2. CASE u = t
  BY <1>2, CondStepMoves DEF Placed
<1> QED BY <1>1, <1>2

\* ... and to the discipline of its lock.
LEMMA CondStepGuarded ==
  ASSUME NEW L \in Mutexes, NEW S, NEW H \in SUBSET S, S \cap CallPlaces = {},
         CondInv, Guarded(L, S, H), NEW t \in Threads, CondStep(t)
  PROVE  Guarded(L, S, H)'
<1>0. NoThread \notin Threads
  BY CondAssumption
<1>1. /\ at[t] \in CallPlaces \ {"cb_take"} /\ frame[t].back \in H
      /\ at[t] \in WaitPlaces => frame[t].mp = L
      /\ at[t] \in Inside => held[L] = t
      /\ frame[t].back \notin CallPlaces
  BY CondStepMoves DEF Guarded
<1>2. \/ /\ at[t] = "cw_unlock" /\ at'[t] = "cw_sleep" /\ held'[L] = NoThread
      \/ /\ at[t] = "cw_lock" /\ at'[t] = frame[t].back
         /\ held[L] = NoThread /\ held'[L] = t
      \/ /\ held'[L] = held[L] /\ at'[t] = "cw_lock" /\ at[t] = "cw_sleep"
      \/ /\ held'[L] = held[L] /\ at[t] \in Inside
         /\ (at'[t] \in {"cw_unlock", "cs_wake"} \/ at'[t] = frame[t].back)
  BY <1>1, CondStepMoves DEF CondInv, CondType, WaitPlaces, SigPlaces, Inside
<1> SUFFICES ASSUME NEW u \in Threads
             PROVE  /\ at'[u] \in S \cup (CallPlaces \ {"cb_take"})
                    /\ at'[u] \in CallPlaces => frame'[u].back \in H
                    /\ at'[u] \in WaitPlaces => frame'[u].mp = L
                    /\ at'[u] \in H \cup Inside => held'[L] = u
  BY DEF Guarded
<1>3. CASE u # t
  <2>1. at'[u] = at[u] /\ frame'[u] = frame[u]
    BY <1>3, CondStepMoves
  <2>2. at[u] \in H \cup Inside => held[L] = u
    BY DEF Guarded
  <2>3. at[u] \in H \cup Inside => held'[L] = u
    BY <2>2, <1>0, <1>1, <1>2, <1>3 DEF Inside
  <2> QED BY <2>1, <2>3 DEF Guarded
<1>4. CASE u = t /\ at'[t] = frame[t].back
  <2>1. at'[t] \notin CallPlaces /\ at'[t] \notin WaitPlaces /\ at'[t] \in H
    BY <1>1, <1>4 DEF CallPlaces
  <2>2. held'[L] = t
    BY <1>1, <1>2, <1>4 DEF CallPlaces, WaitPlaces, SigPlaces
  <2> QED BY <1>4, <2>1, <2>2
<1>5. CASE u = t /\ at'[t] # frame[t].back
  <2>1. at'[t] \in CallPlaces \ EntryPlaces /\ frame'[t] = frame[t]
    BY <1>5, CondStepMoves
  <2>2. at'[t] \in WaitPlaces => at[t] \in WaitPlaces
    BY <1>2, <1>5, <2>1, CondStepMoves DEF WaitPlaces, SigPlaces, CallPlaces
  <2>3. at'[t] \in Inside => held'[L] = t
    BY <1>1, <1>2, <1>5 DEF Inside
  <2>4. at'[t] \notin H
    BY <2>1
  <2>5. at'[t] # "cb_take"
    BY <2>1 DEF EntryPlaces
  <2> QED BY <1>1, <1>5, <2>1, <2>2, <2>3, <2>4, <2>5
<1> QED BY <1>3, <1>4, <1>5

\* A step of a program that keeps to the discipline leaves cond.c alone.
LEMMA MovesAside ==
  ASSUME CondInv, NEW L \in Mutexes, NEW S, NEW H \in SUBSET S,
         S \cap CallPlaces = {}, NEW t \in Threads, at[t] \in S,
         Moves(t, L, S, H),
         at'[t] \in {"cw_enqueue", "cs_take"} => frame'[t].cv \in Conds,
         UNCHANGED <<waiting, asleep, waking>>,
         DOMAIN at' = Threads, DOMAIN frame' = Threads,
         held' \in [Mutexes -> Threads \cup {NoThread}]
  PROVE  Aside
<1>1. \A u \in Threads : at[u] \notin CallPlaces => ~Pending(u)
  BY DEF Pending, CondInv, Called, CallPlaces, WaitPlaces
<1> SUFFICES ASSUME NEW u \in Threads,
                    ~(at'[u] = at[u] /\ frame'[u] = frame[u])
             PROVE  /\ ~Pending(u) /\ (at[u] = "cs_wake" => waking[u] = <<>>)
                    /\ at'[u] \notin CallPlaces \ EntryPlaces
                    /\ at'[u] \in EntryPlaces =>
                         frame'[u].cv \in Conds /\ frame'[u].back \notin CallPlaces
  BY DEF Aside
<1>2. at[u] \notin CallPlaces
  BY DEF Moves
<1>3. ~Pending(u) /\ at[u] # "cs_wake"
  BY <1>1, <1>2 DEF CallPlaces, SigPlaces
<1>4. \/ at'[u] \in S
      \/ u = t /\ at'[t] \in {"cw_enqueue", "cs_take"} /\ frame'[t].back \in H
  BY DEF Moves
<1>5. CASE at'[u] \in S
  <2>1. at'[u] \notin CallPlaces
    BY <1>5
  <2>2. at'[u] \notin EntryPlaces
    BY <2>1 DEF CallPlaces, WaitPlaces, SigPlaces, EntryPlaces
  <2> QED BY <1>3, <2>1, <2>2
<1>6. CASE u = t /\ at'[t] \in {"cw_enqueue", "cs_take"} /\ frame'[t].back \in H
  BY <1>3, <1>6 DEF EntryPlaces
<1> QED BY <1>4, <1>5, <1>6

\* What the calls of cond.c do to the places and the frames.
LEMMA CallEffects ==
  ASSUME CondInv, NEW t \in Threads
  PROVE  /\ \A p : Goto(t, p) =>
              /\ DOMAIN at' = Threads /\ at'[t] = p
              /\ \A u \in Threads \ {t} : at'[u] = at[u]
         /\ \A c, m, p : CallWait(t, c, m, p) =>
              /\ DOMAIN at' = Threads /\ DOMAIN frame' = Threads
              /\ at'[t] = "cw_enqueue" /\ frame'[t].cv = c
              /\ frame'[t].mp = m /\ frame'[t].back = p
              /\ \A u \in Threads \ {t} : at'[u] = at[u] /\ frame'[u] = frame[u]
         /\ \A q, c, p : CallSignal(t, q, c, p) =>
              /\ DOMAIN at' = Threads /\ DOMAIN frame' = Threads
              /\ at'[t] = q /\ frame'[t].cv = c
              /\ frame'[t].mp = NoThread /\ frame'[t].back = p
              /\ \A u \in Threads \ {t} : at'[u] = at[u] /\ frame'[u] = frame[u]
         /\ UNCHANGED frame => DOMAIN frame' = Threads
         /\ \A m \in Mutexes : Take(t, m) =>
              /\ held[m] = NoThread /\ held'[m] = t
              /\ held' \in [Mutexes -> Threads \cup {NoThread}]
         /\ \A m \in Mutexes : Drop(m) =>
              /\ held'[m] = NoThread
              /\ held' \in [Mutexes -> Threads \cup {NoThread}]
         /\ UNCHANGED held => held' \in [Mutexes -> Threads \cup {NoThread}]
<1> USE DEF CondInv, CondType
<1>1. ASSUME NEW p, Goto(t, p)
      PROVE  /\ DOMAIN at' = Threads /\ at'[t] = p
             /\ \A u \in Threads \ {t} : at'[u] = at[u]
  BY <1>1 DEF Goto
<1>2. ASSUME NEW c, NEW m, NEW p, CallWait(t, c, m, p)
      PROVE  /\ DOMAIN at' = Threads /\ DOMAIN frame' = Threads
             /\ at'[t] = "cw_enqueue" /\ frame'[t].cv = c
             /\ frame'[t].mp = m /\ frame'[t].back = p
             /\ \A u \in Threads \ {t} : at'[u] = at[u] /\ frame'[u] = frame[u]
  BY <1>2 DEF CallWait, Goto
<1>3. ASSUME NEW q, NEW c, NEW p, CallSignal(t, q, c, p)
      PROVE  /\ DOMAIN at' = Threads /\ DOMAIN frame' = Threads
             /\ at'[t] = q /\ frame'[t].cv = c
             /\ frame'[t].mp = NoThread /\ frame'[t].back = p
             /\ \A u \in Threads \ {t} : at'[u] = at[u] /\ frame'[u] = frame[u]
  BY <1>3 DEF CallSignal, Goto
<1>4. ASSUME NEW m \in Mutexes, Take(t, m)
      PROVE  /\ held[m] = NoThread /\ held'[m] = t
             /\ held' \in [Mutexes -> Threads \cup {NoThread}]
  BY <1>4 DEF Take
<1>5. ASSUME NEW m \in Mutexes, Drop(m)
      PROVE  /\ held'[m] = NoThread
             /\ held' \in [Mutexes -> Threads \cup {NoThread}]
  BY <1>5 DEF Drop
<1> QED BY <1>1, <1>2, <1>3, <1>4, <1>5

-----------------------------------------------------------------------------
(***************************************************************************)
(* Programs of condition variables, and of semaphores.                     *)
(***************************************************************************)
MonPlaces == {"cond_out", "cond_back"}

\* The steps of a program of condition variables.
LEMMA MonitorStepKeeps ==
  ASSUME CondInv, Placed(MonPlaces), NEW t \in Threads, MonitorStep(t)
  PROVE  CondInv' /\ Placed(MonPlaces)'
<1>0. MonLock \in Mutexes /\ MonCond \in Conds
  BY UseAssumption
<1>1. /\ t \notin asleep /\ at[t] \in MonPlaces
      /\ UNCHANGED <<waiting, asleep, waking>>
  BY DEF MonitorStep, MonitorWait, MonitorBack, MonitorSignal, Here, MonPlaces
<1>2. /\ DOMAIN at' = Threads /\ DOMAIN frame' = Threads
      /\ held' \in [Mutexes -> Threads \cup {NoThread}]
      /\ \A u \in Threads \ {t} : at'[u] = at[u] /\ frame'[u] = frame[u]
      /\ \/ at'[t] \in MonPlaces
         \/ /\ at'[t] \in EntryPlaces /\ frame'[t].cv \in Conds
            /\ frame'[t].back \in MonPlaces
  <2>1. CASE MonitorWait(t)
    BY <2>1, <1>0, CallEffects DEF MonitorWait, MonPlaces, EntryPlaces
  <2>2. CASE MonitorBack(t)
    BY <2>2, <1>0, CallEffects DEF MonitorBack, MonPlaces
  <2>3. CASE MonitorSignal(t, "cs_take")
    BY <2>3, <1>0, CallEffects DEF MonitorSignal, MonPlaces, EntryPlaces
  <2>4. CASE MonitorSignal(t, "cb_take")
    BY <2>4, <1>0, CallEffects DEF MonitorSignal, MonPlaces, EntryPlaces
  <2> QED BY <2>1, <2>2, <2>3, <2>4 DEF MonitorStep
<1>3. MonPlaces \cap CallPlaces = {} /\ EntryPlaces \subseteq CallPlaces
  BY DEF MonPlaces, CallPlaces, WaitPlaces, SigPlaces, EntryPlaces
<1>4. ~Pending(t) /\ at[t] # "cs_wake"
  BY <1>1 DEF Pending, MonPlaces
<1>5. Aside
  <2>1. /\ at'[t] \notin CallPlaces \ EntryPlaces
        /\ at'[t] \in EntryPlaces =>
             frame'[t].cv \in Conds /\ frame'[t].back \notin CallPlaces
    BY <1>2, <1>3
  <2> QED BY <1>1, <1>2, <1>4, <2>1 DEF Aside
<1>6. Placed(MonPlaces)'
  BY <1>2, <1>3 DEF Placed
<1> QED BY <1>5, <1>6, AsideKeeps

SemPlaces == {"sem_out", "sw_done", "sem_in", "ss_count"}
SemHold   == {"sw_done", "ss_count"}

\* The places of a program of a semaphore are its own.
LEMMA SemSets ==
  /\ SemLock \in Mutexes /\ SemCond \in Conds
  /\ SemHold \in SUBSET SemPlaces /\ SemPlaces \cap CallPlaces = {}
BY SemAssumption DEF SemPlaces, SemHold, CallPlaces, WaitPlaces, SigPlaces

\* The steps of a program of semaphores keep to the discipline.
LEMMA SemStepMoves ==
  ASSUME CondInv, NEW t \in Threads, SemStep(t)
  PROVE  /\ t \notin asleep /\ at[t] \in SemPlaces /\ Aside
         /\ Moves(t, SemLock, SemPlaces, SemHold)
<1>1. /\ t \notin asleep /\ at[t] \in SemPlaces
      /\ UNCHANGED <<waiting, asleep, waking>>
  BY DEF SemStep, SemWait, SwDone, SemSignal, SsCount, Here, SemPlaces
<1>2. /\ DOMAIN at' = Threads /\ DOMAIN frame' = Threads
      /\ held' \in [Mutexes -> Threads \cup {NoThread}]
      /\ Moves(t, SemLock, SemPlaces, SemHold)
      /\ at'[t] \in {"cw_enqueue", "cs_take"} => frame'[t].cv \in Conds
  <2> USE SemSets DEF SemPlaces, SemHold, Moves, Inside
  <2>1. CASE SemWait(t) /\ count' < 0
    BY <2>1, CallEffects DEF SemWait
  <2>2. CASE SemWait(t) /\ ~(count' < 0)
    BY <2>2, CallEffects DEF SemWait
  <2>3. CASE SwDone(t)
    BY <2>3, CallEffects DEF SwDone, Here
  <2>4. CASE SemSignal(t) /\ count < 0
    BY <2>4, CallEffects DEF SemSignal
  <2>5. CASE SemSignal(t) /\ ~(count < 0)
    BY <2>5, CallEffects DEF SemSignal
  <2>6. CASE SsCount(t)
    BY <2>6, CallEffects DEF SsCount, Here
  <2> QED BY <2>1, <2>2, <2>3, <2>4, <2>5, <2>6 DEF SemStep
<1> QED BY <1>1, <1>2, SemSets, MovesAside

\* Every call of cond.c is on the semaphore's condition variable, and the
\* one of cond_signal is made only when the count says that a thread waits.
SemFrames ==
  \A t \in Threads :
    /\ at[t] \in CallPlaces => frame[t].cv = SemCond
    /\ at[t] \in WaitPlaces => frame[t].back = "sw_done"
    /\ at[t] \in SigPlaces => frame[t].back = "ss_count"
    /\ at[t] = "cs_take" => count < 0

\* The threads that wait for a unit, or are about to.
SemWaiters ==
  {t \in Threads : t \in Range(waiting[SemCond]) \/ at[t] = "cw_enqueue"}

\* The threads that have called sem_wait.
SemUsers == {t \in Threads : at[t] # "sem_out"}

\* A waiter has been taken off the list, and the count is still to go up.
Signalled == \E t \in Threads : at[t] \in {"cs_wake", "ss_count"}

SemQueue ==
  Cardinality(SemWaiters) =
    LET d == IF Signalled THEN -count - 1 ELSE -count
    IN  IF d > 0 THEN d ELSE 0

SemCounts ==
  /\ units \in Nat
  /\ count = units - Cardinality(SemUsers)
  /\ SemQueue

SemInv ==
  use = "sem" =>
    Guarded(SemLock, SemPlaces, SemHold) /\ SemFrames /\ SemCounts

\* Sets of threads are finite.
LEMMA ThreadSetsFinite ==
  ASSUME NEW X, X \subseteq Threads
  PROVE  IsFiniteSet(X) /\ Cardinality(X) \in Nat
BY CondAssumption, FS_Subset, FS_CardinalityType

\* With the lock taken by t nobody else is inside.
LEMMA OneInside ==
  ASSUME NEW L, NEW S, NEW H, Guarded(L, S, H), NEW t \in Threads,
         at[t] \in H \cup Inside, NEW u \in Threads, at[u] \in H \cup Inside
  PROVE  u = t
BY DEF Guarded

\* With the lock free nobody is inside.
LEMMA NobodyInside ==
  ASSUME NEW L, NEW S, NEW H, Guarded(L, S, H), held[L] = NoThread,
         NEW t \in Threads
  PROVE  at[t] \notin H \cup Inside
BY CondAssumption DEF Guarded

\* sem_wait and sem_signal keep the count right.
LEMMA SemStepCounts ==
  ASSUME CondInv, Guarded(SemLock, SemPlaces, SemHold), SemFrames, SemCounts,
         NEW t \in Threads, SemStep(t)
  PROVE  SemFrames' /\ SemCounts'
<1>0. /\ t \notin asleep /\ at[t] \in SemPlaces
      /\ UNCHANGED <<waiting, asleep, waking, units>>
  BY DEF SemStep, SemWait, SwDone, SemSignal, SsCount, Here, SemPlaces, svars
<1>1. Cardinality(SemUsers) \in Nat /\ Cardinality(SemWaiters) \in Nat
      /\ IsFiniteSet(SemUsers) /\ IsFiniteSet(SemWaiters)
  BY ThreadSetsFinite DEF SemUsers, SemWaiters
<1>2. units \in Nat /\ count \in Int /\ count = units - Cardinality(SemUsers)
  BY <1>1 DEF SemCounts
<1>3. t \notin Range(waiting[SemCond])
  BY <1>0, SemSets DEF CondInv, Listed, Pending, SemPlaces
<1>a. /\ DOMAIN at = Threads /\ DOMAIN frame = Threads
  BY DEF CondInv, CondType
<1>4. CASE SemWait(t)
  <2>1. /\ at[t] = "sem_out" /\ held[SemLock] = NoThread /\ count' = count - 1
        /\ \/ count' < 0 /\ CallWait(t, SemCond, SemLock, "sw_done")
           \/ ~(count' < 0) /\ Goto(t, "sw_done") /\ UNCHANGED frame
    BY <1>4 DEF SemWait, Here, Take
  <2>2. \A u \in Threads : at[u] \notin SemHold \cup Inside
    BY <2>1, NobodyInside
  <2>3. /\ \A u \in Threads \ {t} : at'[u] = at[u] /\ frame'[u] = frame[u]
        /\ \/ /\ count' < 0 /\ at'[t] = "cw_enqueue"
              /\ frame'[t].cv = SemCond /\ frame'[t].back = "sw_done"
           \/ ~(count' < 0) /\ at'[t] = "sw_done"
    BY <2>1, CallEffects
  <2>4. SemFrames'
    BY <2>2, <2>3 DEF SemFrames, CallPlaces, WaitPlaces, SigPlaces, Inside
  <2>5. SemUsers' = SemUsers \cup {t} /\ t \notin SemUsers
    BY <2>1, <2>3 DEF SemUsers
  <2>6. Cardinality(SemUsers') = Cardinality(SemUsers) + 1
    BY <1>1, <2>5, FS_AddElement
  <2>7. ~Signalled /\ ~Signalled'
    BY <2>2, <2>3 DEF Signalled, SemHold, Inside
  <2>8. Cardinality(SemWaiters) = IF -count > 0 THEN -count ELSE 0
    BY <2>7 DEF SemCounts, SemQueue
  <2>9. Cardinality(SemWaiters') = IF -count' > 0 THEN -count' ELSE 0
    <3>1. CASE count' < 0
      <4>1. SemWaiters' = SemWaiters \cup {t}
        BY <3>1, <2>3, <1>0 DEF SemWaiters
      <4>2. t \notin SemWaiters
        BY <1>3, <2>1 DEF SemWaiters
      <4>3. Cardinality(SemWaiters') = Cardinality(SemWaiters) + 1
        BY <1>1, <4>1, <4>2, FS_AddElement
      <4> QED BY <1>2, <2>1, <2>8, <3>1, <4>3
    <3>2. CASE ~(count' < 0)
      <4>1. SemWaiters' = SemWaiters
        BY <3>2, <2>1, <2>3, <1>0 DEF SemWaiters
      <4> QED BY <1>2, <2>1, <2>8, <3>2, <4>1
    <3> QED BY <3>1, <3>2
  <2>10. SemQueue'
    BY <2>7, <2>9 DEF SemQueue
  <2>11. SemCounts'
    BY <1>0, <1>1, <1>2, <2>1, <2>6, <2>10 DEF SemCounts
  <2> QED BY <2>4, <2>11
<1>5. CASE SwDone(t)
  <2>1. at[t] = "sw_done" /\ Goto(t, "sem_in") /\ UNCHANGED <<frame, svars>>
    BY <1>5 DEF SwDone, Here
  <2>2. at'[t] = "sem_in" /\ \A u \in Threads \ {t} : at'[u] = at[u]
    BY <2>1, CallEffects
  <2>3. SemFrames'
    BY <2>1, <2>2 DEF SemFrames, CallPlaces, WaitPlaces, SigPlaces, svars
  <2>4. SemUsers' = SemUsers /\ SemWaiters' = SemWaiters
    BY <1>0, <2>1, <2>2 DEF SemUsers, SemWaiters
  <2>5. Signalled' <=> Signalled
    BY <2>1, <2>2 DEF Signalled
  <2>6. SemCounts'
    BY <2>1, <2>4, <2>5 DEF SemCounts, SemQueue, svars
  <2> QED BY <2>3, <2>6
<1>6. CASE SemSignal(t)
  <2>1. /\ at[t] = "sem_in" /\ held[SemLock] = NoThread /\ UNCHANGED svars
        /\ \/ count < 0 /\ CallSignal(t, "cs_take", SemCond, "ss_count")
           \/ ~(count < 0) /\ Goto(t, "ss_count") /\ UNCHANGED frame
    BY <1>6 DEF SemSignal, Here, Take
  <2>2. \A u \in Threads : at[u] \notin SemHold \cup Inside
    BY <2>1, NobodyInside
  <2>3. /\ \A u \in Threads \ {t} : at'[u] = at[u] /\ frame'[u] = frame[u]
        /\ \/ /\ count < 0 /\ at'[t] = "cs_take"
              /\ frame'[t].cv = SemCond /\ frame'[t].back = "ss_count"
           \/ ~(count < 0) /\ at'[t] = "ss_count"
    BY <2>1, CallEffects
  <2>4. SemFrames'
    BY <2>1, <2>2, <2>3 DEF SemFrames, CallPlaces, WaitPlaces, SigPlaces, Inside, svars
  <2>5. SemUsers' = SemUsers /\ SemWaiters' = SemWaiters
    BY <1>0, <2>1, <2>3 DEF SemUsers, SemWaiters
  <2>6. ~Signalled
    BY <2>2 DEF Signalled, SemHold, Inside
  <2>7. Cardinality(SemWaiters) = IF -count > 0 THEN -count ELSE 0
    BY <2>6 DEF SemCounts, SemQueue
  <2>8. count < 0 => ~Signalled'
    BY <2>2, <2>3 DEF Signalled, SemHold, Inside
  <2>9. SemQueue'
    BY <1>2, <2>1, <2>5, <2>7, <2>8 DEF SemQueue, svars
  <2>10. SemCounts'
    BY <2>1, <2>5, <2>9 DEF SemCounts, svars
  <2> QED BY <2>4, <2>10
<1>7. CASE SsCount(t)
  <2>1. /\ at[t] = "ss_count" /\ count' = count + 1
        /\ Goto(t, "sem_out") /\ UNCHANGED frame
    BY <1>7 DEF SsCount, Here
  <2>2. at'[t] = "sem_out" /\ \A u \in Threads \ {t} : at'[u] = at[u]
    BY <2>1, CallEffects
  <2>3. \A u \in Threads \ {t} : at[u] \notin SemHold \cup Inside
    BY <2>1, OneInside DEF SemHold
  <2>4. SemFrames'
    BY <2>1, <2>2, <2>3 DEF SemFrames, CallPlaces, WaitPlaces, SigPlaces, Inside
  <2>5. SemUsers' = SemUsers \ {t} /\ t \in SemUsers
    BY <2>1, <2>2 DEF SemUsers
  <2>6. Cardinality(SemUsers') = Cardinality(SemUsers) - 1
    BY <1>1, <2>5, FS_RemoveElement
  <2>7. SemWaiters' = SemWaiters
    BY <1>0, <2>1, <2>2 DEF SemWaiters
  <2>8. Signalled /\ ~Signalled'
    BY <2>1, <2>2, <2>3 DEF Signalled, SemHold, Inside
  <2>9. Cardinality(SemWaiters) = IF -count - 1 > 0 THEN -count - 1 ELSE 0
    BY <2>8 DEF SemCounts, SemQueue
  <2>10. SemQueue'
    BY <1>2, <2>1, <2>7, <2>8, <2>9 DEF SemQueue
  <2>11. SemCounts'
    BY <1>0, <1>1, <1>2, <2>1, <2>6, <2>10 DEF SemCounts
  <2> QED BY <2>4, <2>11
<1> QED BY <1>4, <1>5, <1>6, <1>7 DEF SemStep

\* Steps of cond.c keep the count right.
LEMMA CondStepCounts ==
  ASSUME CondInv, CondInv', Guarded(SemLock, SemPlaces, SemHold), SemFrames,
         SemCounts, NEW t \in Threads, CondStep(t), UNCHANGED svars
  PROVE  SemFrames' /\ SemCounts'
<1>1. /\ \A u \in Threads \ {t} : at'[u] = at[u] /\ frame'[u] = frame[u]
      /\ t \notin asleep /\ at[t] \in CallPlaces
      /\ \/ at'[t] = frame[t].back
         \/ at'[t] \in CallPlaces \ EntryPlaces /\ frame'[t] = frame[t]
  BY CondStepMoves
<1>2. frame[t].cv = SemCond /\ frame[t].back \in SemHold
  BY <1>1 DEF SemFrames, Guarded
<1>a. SemHold \cap CallPlaces = {}
  BY SemSets
<1>3. SemUsers' = SemUsers
  <2>1. at[t] # "sem_out" /\ at'[t] # "sem_out"
    BY <1>1, <1>2 DEF CallPlaces, WaitPlaces, SigPlaces, SemHold
  <2> QED BY <1>1, <2>1 DEF SemUsers
<1>4. SemFrames'
  <2>1. at'[t] \in CallPlaces =>
          /\ frame'[t] = frame[t] /\ at'[t] # "cs_take"
          /\ at'[t] \in WaitPlaces <=> at[t] \in WaitPlaces
          /\ at'[t] \in SigPlaces <=> at[t] \in SigPlaces
    BY <1>1, <1>2, <1>a, CondStepMoves DEF CallPlaces, WaitPlaces, SigPlaces, EntryPlaces
  <2>2. count' = count
    BY DEF svars
  <2>3. at'[t] \notin CallPlaces => at'[t] \notin WaitPlaces /\ at'[t] \notin SigPlaces
                                   /\ at'[t] # "cs_take"
    BY DEF CallPlaces, WaitPlaces, SigPlaces
  <2> QED BY <1>1, <2>1, <2>2, <2>3 DEF SemFrames
<1>5. CASE CsTake(t)
  <2>1. PICK q : q = waiting[SemCond]
    OBVIOUS
  <2>2. /\ at[t] = "cs_take"
        /\ IF q = <<>> THEN TRUE
           ELSE /\ waiting' = [waiting EXCEPT ![SemCond] = Tail(q)]
                /\ Goto(t, "cs_wake")
    BY <1>2, <1>5, <2>1 DEF CsTake, Here
  <2>3. q \in Seq(Threads) /\ IsInjective(q)
    BY <2>1, SemSets DEF CondInv, CondType, Listed
  <2>4. \A u \in Threads \ {t} : at[u] \notin SemHold \cup Inside
    BY <2>2, OneInside DEF Inside
  <2>5. ~Signalled
    BY <2>2, <2>4 DEF Signalled, SemHold, Inside
  <2>6. SemWaiters = Range(q)
    <3>1. \A u \in Threads : at[u] # "cw_enqueue"
      BY <2>2, <2>4 DEF Inside
    <3> QED BY <2>1, <2>3, <3>1, RangeSubset DEF SemWaiters
  <2>7. count < 0 /\ count \in Int
    <3>1. Cardinality(SemUsers) \in Nat
      BY ThreadSetsFinite DEF SemUsers
    <3> QED BY <2>2, <3>1 DEF SemFrames, SemCounts
  <2>8. Cardinality(Range(q)) = -count
    BY <2>5, <2>6, <2>7 DEF SemCounts, SemQueue
  <2>9. q # <<>>
    BY <2>7, <2>8, FS_EmptySet, ShortSequences
  <2>10. /\ waiting'[SemCond] = Tail(q) /\ at'[t] = "cs_wake"
    BY <2>2, <2>9, SemSets, CallEffects DEF CondInv, CondType
  <2>11. /\ Range(Tail(q)) = Range(q) \ {Head(q)} /\ Head(q) \in Range(q)
    BY <2>3, <2>9, DropFirst
  <2>12. SemWaiters' = SemWaiters \ {Head(q)} /\ Head(q) \in SemWaiters
    <3>1. \A u \in Threads : at'[u] # "cw_enqueue"
      BY <1>1, <2>4, <2>10 DEF Inside
    <3> QED BY <2>3, <2>6, <2>10, <2>11, <3>1, RangeSubset DEF SemWaiters
  <2>13. Cardinality(SemWaiters') = -count - 1
    BY <2>6, <2>8, <2>12, ThreadSetsFinite, FS_RemoveElement DEF SemWaiters
  <2>14. Signalled'
    BY <2>10 DEF Signalled
  <2>15. SemQueue'
    BY <2>7, <2>13, <2>14 DEF SemQueue, svars
  <2> QED BY <1>3, <1>4, <2>15 DEF SemCounts, svars
<1>6. CASE ~CsTake(t)
  <2>1. Signalled' <=> Signalled
    <3>1. at'[t] \in {"cs_wake", "ss_count"} <=> at[t] \in {"cs_wake", "ss_count"}
      <4>1. CASE at[t] \in WaitPlaces
        <5>1. frame[t].back = "sw_done"
          BY <4>1 DEF SemFrames
        <5> QED BY <4>1, <5>1, CondStepMoves DEF WaitPlaces, SigPlaces
      <4>2. CASE at[t] \in SigPlaces
        <5>1. frame[t].back = "ss_count" /\ at[t] # "cb_take"
          BY <4>2 DEF SemFrames, Guarded, SemPlaces, CallPlaces, WaitPlaces, SigPlaces
        <5>2. at[t] # "cs_take"
          BY <1>6 DEF CondStep, CwEnqueue, CwUnlock, CwSleep, CwLock, CbTake, CsWake,
                      CsDone, Here
        <5> QED BY <4>2, <5>1, <5>2, CondStepMoves DEF SigPlaces
      <4> QED BY <1>1, <4>1, <4>2 DEF CallPlaces
    <3> QED BY <1>1, <3>1 DEF Signalled
  <2>2. SemWaiters' = SemWaiters
    <3>1. CASE CwEnqueue(t)
      <4>1. /\ at[t] = "cw_enqueue" /\ t \notin asleep
            /\ waiting' = [waiting EXCEPT ![SemCond] = Append(waiting[SemCond], t)]
            /\ Goto(t, "cw_unlock")
        BY <3>1, <1>2 DEF CwEnqueue, Here
      <4>2. t \notin Range(waiting[SemCond])
        BY <4>1, SemSets DEF CondInv, Listed, Pending
      <4>3. Range(waiting'[SemCond]) = Range(waiting[SemCond]) \cup {t}
        BY <4>1, <4>2, SemSets, AppendNew DEF CondInv, CondType, Listed
      <4>4. at'[t] = "cw_unlock"
        BY <4>1, CallEffects
      <4> QED BY <1>1, <4>1, <4>3, <4>4 DEF SemWaiters
    <3>2. CASE ~CwEnqueue(t)
      <4>1. ~CbTake(t)
        <5> SUFFICES ASSUME CbTake(t) PROVE FALSE
          OBVIOUS
        <5>1. at[t] = "cb_take"
          BY DEF CbTake, Here
        <5> QED BY <5>1 DEF Guarded, SemPlaces
      <4>2. waiting' = waiting /\ at[t] # "cw_enqueue"
        BY <1>6, <3>2, <4>1 DEF CondStep, CwUnlock, CwSleep, CwLock, CsWake, CsDone, Here
      <4>3. at'[t] # "cw_enqueue"
        BY <1>1, <1>2, <1>a DEF EntryPlaces, CallPlaces, WaitPlaces, SigPlaces
      <4> QED BY <1>1, <4>2, <4>3 DEF SemWaiters
    <3> QED BY <3>1, <3>2
  <2> QED BY <1>3, <1>4, <2>1, <2>2 DEF SemCounts, SemQueue, svars
<1> QED BY <1>5, <1>6

\* The counts say that no more threads have a unit than there are.
LEMMA CountsKeepUnits ==
  ASSUME CondInv, Guarded(SemLock, SemPlaces, SemHold), SemCounts
  PROVE  UnitsKept
<1> DEFINE In == {t \in Threads : at[t] \in {"sem_in", "sw_done"}}
<1>1. /\ Cardinality(SemUsers) \in Nat /\ IsFiniteSet(SemUsers)
      /\ Cardinality(SemWaiters) \in Nat /\ IsFiniteSet(SemWaiters)
      /\ Cardinality(In) \in Nat /\ IsFiniteSet(In)
  BY ThreadSetsFinite DEF SemUsers, SemWaiters
<1>2. units \in Nat /\ count \in Int /\ count = units - Cardinality(SemUsers)
  BY <1>1 DEF SemCounts
<1>3. In \cap SemWaiters = {} /\ In \cup SemWaiters \subseteq SemUsers
  <2>1. \A t \in Range(waiting[SemCond]) : at[t] \in WaitPlaces
    BY SemSets DEF CondInv, Listed, Pending, Called, WaitPlaces
  <2> QED BY <2>1 DEF SemUsers, SemWaiters, WaitPlaces
<1>4. Cardinality(In \cup SemWaiters) = Cardinality(In) + Cardinality(SemWaiters)
      /\ IsFiniteSet(In \cup SemWaiters)
  <2>1. Cardinality(In \cap SemWaiters) = 0
    BY <1>3, FS_EmptySet
  <2> HIDE DEF In
  <2>2. /\ IsFiniteSet(In \cup SemWaiters)
        /\ Cardinality(In \cup SemWaiters) =
             Cardinality(In) + Cardinality(SemWaiters) - Cardinality(In \cap SemWaiters)
    BY <1>1, FS_Union, Zenon
  <2> QED BY <1>1, <2>1, <2>2
<1>5. Cardinality(In) <= units
  <2>1. CASE ~Signalled
    <3>1. Cardinality(SemWaiters) = IF -count > 0 THEN -count ELSE 0
      BY <2>1 DEF SemCounts, SemQueue
    <3>2. Cardinality(In) + Cardinality(SemWaiters) <= Cardinality(SemUsers)
      BY <1>1, <1>3, <1>4, FS_Subset
    <3> HIDE DEF In
    <3> QED BY <1>1, <1>2, <3>1, <3>2
  <2>2. CASE Signalled
    <3>1. PICK h \in Threads : at[h] \in {"cs_wake", "ss_count"}
      BY <2>2 DEF Signalled
    <3>2. h \notin In \cup SemWaiters /\ h \in SemUsers
      <4>1. \A t \in Range(waiting[SemCond]) : at[t] \in WaitPlaces
        BY SemSets DEF CondInv, Listed, Pending, Called, WaitPlaces
      <4> QED BY <3>1, <4>1 DEF SemUsers, SemWaiters, WaitPlaces
    <3>3. Cardinality(SemWaiters) = IF -count - 1 > 0 THEN -count - 1 ELSE 0
      BY <2>2 DEF SemCounts, SemQueue
    <3> HIDE DEF In
    <3>4. Cardinality(In) + Cardinality(SemWaiters) + 1 <= Cardinality(SemUsers)
      <4>1. /\ IsFiniteSet((In \cup SemWaiters) \cup {h})
            /\ Cardinality((In \cup SemWaiters) \cup {h}) =
                 Cardinality(In \cup SemWaiters) + 1
        BY <1>4, <3>2, FS_AddElement
      <4>2. (In \cup SemWaiters) \cup {h} \in SUBSET SemUsers
        BY <1>3, <3>2
      <4>3. Cardinality((In \cup SemWaiters) \cup {h}) <= Cardinality(SemUsers)
        BY <1>1, <4>2, FS_Subset
      <4> QED BY <1>4, <4>1, <4>3
    <3> QED BY <1>1, <1>2, <3>3, <3>4
  <2> QED BY <2>1, <2>2
<1>6. held[SemLock] = NoThread =>
        Len(waiting[SemCond]) = IF count < 0 THEN -count ELSE 0
  <2> SUFFICES ASSUME held[SemLock] = NoThread
               PROVE  Len(waiting[SemCond]) = IF count < 0 THEN -count ELSE 0
    OBVIOUS
  <2>1. \A u \in Threads : at[u] \notin SemHold \cup Inside
    BY NobodyInside
  <2>2. ~Signalled
    BY <2>1 DEF Signalled, SemHold, Inside
  <2>3. SemWaiters = Range(waiting[SemCond])
    <3>1. \A u \in Threads : at[u] # "cw_enqueue"
      BY <2>1 DEF Inside
    <3> QED BY <3>1, SemSets, ListedThreads DEF SemWaiters, CondInv
  <2>4. Len(waiting[SemCond]) = Cardinality(SemWaiters)
    BY <2>3, SemSets, RangeCardinality DEF CondInv, CondType, Listed
  <2> QED BY <1>2, <2>2, <2>4 DEF SemCounts, SemQueue
<1> QED BY <1>5, <1>6 DEF UnitsKept

-----------------------------------------------------------------------------
(***************************************************************************)
(* Programs of reader/writer locks.                                        *)
(***************************************************************************)
RwPlaces == {"rw_out", "rl_done", "rw_in", "ru_signal", "rd_signal", "rd_stuck"}
RwHold   == {"rl_done", "ru_signal", "rd_signal", "rd_stuck"}

\* The places of a program of a reader/writer lock are its own.
LEMMA RwSets ==
  /\ RwLock \in Mutexes /\ Threads \subseteq Conds
  /\ RwHold \in SUBSET RwPlaces /\ RwPlaces \cap CallPlaces = {}
BY RwAssumption DEF RwPlaces, RwHold, CallPlaces, WaitPlaces, SigPlaces

RwType ==
  /\ rw_list \in Seq(Threads)
  /\ rw_lock_type \in [Threads -> {"READ", "WRITE"}]
  /\ granting \in [Threads -> Seq(Threads)]

\* A thread that is on its way out of rwlock_unlock, or outside.
Leaving(t) ==
  \/ at[t] \in {"rw_out", "ru_signal"}
  \/ at[t] \in SigPlaces /\ frame[t].back = "ru_signal"

\* Every other thread has one record in the list.
RwListed ==
  /\ IsInjective(rw_list)
  /\ \A t \in Threads : t \in Range(rw_list) <=> ~Leaving(t)

\* A thread waits on the condition variable of its own record.
RwFrames ==
  \A t \in Threads :
    /\ at[t] \in WaitPlaces => frame[t].cv = t /\ frame[t].back = "rl_done"
    /\ at[t] \in SigPlaces => frame[t].back \in {"ru_signal", "rd_signal"}

\* find_by_rw_lock_type returns the first record of the type.
LEMMA FindByTypeProperties ==
  ASSUME NEW s \in Seq(Threads), NEW type
  PROVE  /\ FindByType(s, type) \in 0..Len(s)
         /\ FindByType(s, type) = 0 =>
              \A j \in 1..Len(s) : rw_lock_type[s[j]] # type
         /\ FindByType(s, type) # 0 =>
              /\ rw_lock_type[s[FindByType(s, type)]] = type
              /\ \A j \in 1..FindByType(s, type) - 1 : rw_lock_type[s[j]] # type
<1> DEFINE I == {i \in 1..Len(s) : rw_lock_type[s[i]] = type}
           k == FindByType(s, type)
<1>0. Len(s) \in Nat
  BY LenProperties
<1>1. k = IF I # {} THEN Min(I) ELSE 0
  BY DEF FindByType, SelectInSeq
<1>2. I \subseteq 1..Len(s) /\ I \subseteq Nat
  OBVIOUS
<1>3. \A i \in 1..Len(s) : i \in I <=> rw_lock_type[s[i]] = type
  OBVIOUS
<1> HIDE DEF I, k
<1>4. I # {} => Min(I) \in I /\ \A y \in I : Min(I) <= y
  BY <1>2, MinProperties
<1>5. k \in 0..Len(s)
  <2>1. CASE I = {}
    BY <2>1, <1>0, <1>1
  <2>2. CASE I # {}
    <3>1. k \in I
      BY <2>2, <1>1, <1>4
    <3> QED BY <3>1, <1>0, <1>2
  <2> QED BY <2>1, <2>2
<1>6. k = 0 => \A j \in 1..Len(s) : rw_lock_type[s[j]] # type
  BY <1>0, <1>1, <1>2, <1>3, <1>4
<1>7. ASSUME k # 0 PROVE rw_lock_type[s[k]] = type
  BY <1>7, <1>1, <1>2, <1>3, <1>4
<1>8. ASSUME k # 0, NEW j \in 1..k - 1 PROVE rw_lock_type[s[j]] # type
  <2>1. k = Min(I) /\ j \in 1..Len(s) /\ j < k
    BY <1>8, <1>0, <1>1, <1>5
  <2>2. I # {} /\ (j \in I => k <= j)
    BY <2>1, <1>1, <1>4, <1>8
  <2>3. j \notin I
    BY <2>1, <2>2, <1>5
  <2> QED BY <2>1, <2>3, <1>3
<1> QED BY <1>5, <1>6, <1>7, <1>8 DEF k

\* The readers before the first writer.
LEMMA ReadersProperties ==
  ASSUME RwType, NEW s \in Seq(Threads)
  PROVE  /\ Readers(s) \in Seq(Threads)
         /\ Len(Readers(s)) \in 0..Len(s)
         /\ \A j \in 1..Len(Readers(s)) :
              Readers(s)[j] = s[j] /\ rw_lock_type[s[j]] = "READ"
         /\ Len(Readers(s)) < Len(s) =>
              rw_lock_type[s[Len(Readers(s)) + 1]] = "WRITE"
<1> DEFINE w == FindByType(s, "WRITE")
<1>0. Len(s) \in Nat /\ \A j \in 1..Len(s) : s[j] \in Threads
  BY LenProperties, ElementOfSeq
<1>1. /\ w \in 0..Len(s)
      /\ w = 0 => \A j \in 1..Len(s) : rw_lock_type[s[j]] # "WRITE"
      /\ w # 0 => /\ rw_lock_type[s[w]] = "WRITE"
                  /\ \A j \in 1..w - 1 : rw_lock_type[s[j]] # "WRITE"
  BY FindByTypeProperties
<1>2. Readers(s) = IF w = 0 THEN s ELSE SubSeq(s, 1, w - 1)
  BY DEF Readers
<1> HIDE DEF w
<1>3. \A j \in 1..Len(s) :
        rw_lock_type[s[j]] # "WRITE" => rw_lock_type[s[j]] = "READ"
  BY <1>0 DEF RwType
<1>4. CASE w = 0
  BY <1>4, <1>0, <1>1, <1>2, <1>3
<1>5. CASE w # 0
  <2> DEFINE r == SubSeq(s, 1, w - 1)
  <2>1. /\ r \in Seq(Threads) /\ Len(r) = w - 1
        /\ \A j \in 1..w - 1 : r[j] = s[j]
    <3>1. \A j \in 1..w - 1 : s[j] \in Threads
      BY <1>0, <1>1
    <3> QED BY <1>0, <1>1, <1>5, <3>1, SubSeqProperties
  <2>2. Readers(s) = r
    BY <1>2, <1>5
  <2> HIDE DEF r
  <2>3. \A j \in 1..w - 1 : rw_lock_type[s[j]] = "READ"
    BY <1>0, <1>1, <1>3, <1>5
  <2>4. Len(r) + 1 = w
    BY <2>1, <1>1
  <2> QED BY <2>1, <2>2, <2>3, <2>4, <1>0, <1>1, <1>5
<1> QED BY <1>4, <1>5

\* Whom rwlock_unlock signals.
LEMMA ToGrantType ==
  ASSUME RwType, NEW s \in Seq(Threads), NEW type
  PROVE  ToGrant(s, type) \in Seq(Threads)
<1>1. CASE s = <<>>
  BY <1>1 DEF ToGrant
<1>2. CASE s # <<>>
  <2>1. Head(s) \in Threads
    BY <1>2, HeadInRange
  <2>2. <<Head(s), Head(s)>> \in Seq(Threads) /\ <<Head(s)>> \in Seq(Threads)
    BY <2>1
  <2>3. Readers(s) \in Seq(Threads)
    BY ReadersProperties
  <2> QED BY <1>2, <2>2, <2>3 DEF ToGrant
<1> QED BY <1>1, <1>2

\* Where a new writer goes is a place of the list.
LEMMA WriterSlotProperties ==
  ASSUME RwType, NEW s \in Seq(Threads)
  PROVE  /\ WriterSlot(s) \in 1..Len(s) + 1
         /\ s # <<>> => WriterSlot(s) # 1
         /\ WriterSlot(s) <= Len(s) => rw_lock_type[s[1]] = "WRITE"
<1> DEFINE r == FindByType(s, "READ")
<1>0. Len(s) \in Nat /\ \A j \in 1..Len(s) : s[j] \in Threads
  BY LenProperties, ElementOfSeq
<1>1. /\ r \in 0..Len(s)
      /\ r # 0 => \A j \in 1..r - 1 : rw_lock_type[s[j]] # "READ"
  BY FindByTypeProperties
<1>2. WriterSlot(s) = IF FindByType(s, "WRITE") = 0 \/ r <= 1
                      THEN Len(s) + 1 ELSE r
  BY DEF WriterSlot
<1> HIDE DEF r
<1>3. s # <<>> => Len(s) # 0
  BY EmptySeq
<1>4. WriterSlot(s) \in 1..Len(s) + 1 /\ (s # <<>> => WriterSlot(s) # 1)
  BY <1>0, <1>1, <1>2, <1>3
<1>5. WriterSlot(s) <= Len(s) => rw_lock_type[s[1]] = "WRITE"
  BY <1>0, <1>1, <1>2 DEF RwType
<1> QED BY <1>4, <1>5

\* The steps of a program of reader/writer locks keep to the discipline.
LEMMA RwStepMoves ==
  ASSUME CondInv, RwType, NEW t \in Threads, RwStep(t)
  PROVE  /\ at[t] \in RwPlaces /\ Aside
         /\ Moves(t, RwLock, RwPlaces, RwHold)
<1>1. at[t] \in RwPlaces /\ UNCHANGED <<waiting, asleep, waking>>
  BY DEF RwStep, RwLockCall, RwLockDone, RwUnlock, RwGrant, RwUnlockDone,
         RwDowngrade, RwDowngradeDone, Here, RwPlaces
<1>2. /\ DOMAIN at' = Threads /\ DOMAIN frame' = Threads
      /\ held' \in [Mutexes -> Threads \cup {NoThread}]
      /\ Moves(t, RwLock, RwPlaces, RwHold)
      /\ at'[t] \in {"cw_enqueue", "cs_take"} => frame'[t].cv \in Conds
  <2> USE RwSets DEF RwPlaces, RwHold, Moves, Inside
  <2>1. ASSUME NEW type, RwLockCall(t, type)
        PROVE  /\ Take(t, RwLock)
               /\ \/ Goto(t, "rl_done") /\ UNCHANGED frame
                  \/ CallWait(t, t, RwLock, "rl_done")
    BY <2>1 DEF RwLockCall, LockRead, LockWrite
  <2>2. CASE \E type \in {"READ", "WRITE"} : RwLockCall(t, type)
    BY <2>1, <2>2, CallEffects
  <2>3. CASE RwLockDone(t)
    BY <2>3, CallEffects DEF RwLockDone, Here
  <2>4. CASE RwUnlock(t)
    BY <2>4, CallEffects DEF RwUnlock
  <2>5. CASE RwGrant(t)
    <3>1. Head(granting[t]) \in Conds
      BY <2>5, HeadInRange DEF RwGrant, RwType
    <3> QED BY <2>5, <3>1, CallEffects DEF RwGrant
  <2>6. CASE RwUnlockDone(t)
    BY <2>6, CallEffects DEF RwUnlockDone, Here
  <2>7. CASE RwDowngrade(t)
    BY <2>7, CallEffects DEF RwDowngrade
  <2>8. CASE RwDowngradeDone(t)
    <3>1. /\ at[t] = "rd_signal" /\ UNCHANGED frame
          /\ \/ Goto(t, "rd_stuck") /\ UNCHANGED held
             \/ Drop(RwLock) /\ Goto(t, "rw_in")
      BY <2>8 DEF RwDowngradeDone, Here
    <3> QED BY <3>1, CallEffects
  <2> QED BY <2>2, <2>3, <2>4, <2>5, <2>6, <2>7, <2>8 DEF RwStep
<1> QED BY <1>1, <1>2, RwSets, MovesAside

\* The list keeps one record per thread that has or wants the lock.
LEMMA RwStepListed ==
  ASSUME CondInv, RwType, RwListed, RwFrames, NEW t \in Threads, RwStep(t)
  PROVE  RwType' /\ RwListed' /\ RwFrames'
<1>0. \A u \in Threads \ {t} : at'[u] = at[u] /\ frame'[u] = frame[u]
  <2>1. ASSUME NEW type, RwLockCall(t, type)
        PROVE  \/ Goto(t, "rl_done") /\ UNCHANGED frame
               \/ CallWait(t, t, RwLock, "rl_done")
    BY <2>1 DEF RwLockCall, LockRead, LockWrite
  <2>2. CASE \E type \in {"READ", "WRITE"} : RwLockCall(t, type)
    BY <2>1, <2>2, CallEffects
  <2>3. CASE RwGrant(t)
    BY <2>3, CallEffects DEF RwGrant
  <2>4. CASE RwLockDone(t) \/ RwUnlock(t) \/ RwUnlockDone(t) \/ RwDowngrade(t)
             \/ RwDowngradeDone(t)
    <3>1. UNCHANGED frame /\ \E p : Goto(t, p)
      BY <2>4 DEF RwLockDone, RwUnlock, RwUnlockDone, RwDowngrade, RwDowngradeDone
    <3> QED BY <3>1, CallEffects
  <2> QED BY <2>2, <2>3, <2>4 DEF RwStep
<1>1. \A u \in Threads \ {t} : Leaving(u)' <=> Leaving(u)
  BY <1>0 DEF Leaving
<1>2. ASSUME NEW type \in {"READ", "WRITE"}, RwLockCall(t, type)
      PROVE  RwType' /\ RwListed' /\ RwFrames'
  <2>1. /\ at[t] = "rw_out" /\ UNCHANGED granting
        /\ rw_lock_type' = [rw_lock_type EXCEPT ![t] = type]
        /\ \/ rw_list' = Append(rw_list, t)
           \/ rw_list' = InsertAt(rw_list, WriterSlot(rw_list), t)
        /\ \/ Goto(t, "rl_done") /\ UNCHANGED frame
           \/ CallWait(t, t, RwLock, "rl_done")
    BY <1>2 DEF RwLockCall, LockRead, LockWrite, Here
  <2>2. t \notin Range(rw_list)
    BY <2>1 DEF RwListed, Leaving
  <2>3. /\ rw_list' \in Seq(Threads) /\ IsInjective(rw_list')
        /\ Range(rw_list') = Range(rw_list) \cup {t}
    <3>1. rw_list \in Seq(Threads) /\ IsInjective(rw_list)
          /\ WriterSlot(rw_list) \in 1..Len(rw_list) + 1
      BY WriterSlotProperties DEF RwType, RwListed
    <3>2. CASE rw_list' = Append(rw_list, t)
      BY <2>2, <3>1, <3>2, AppendNew
    <3>3. CASE rw_list' = InsertAt(rw_list, WriterSlot(rw_list), t)
      BY <2>2, <3>1, <3>3, InsertAtProperties, InsertAtInjective
    <3> QED BY <2>1, <3>2, <3>3
  <2>4. /\ at'[t] \in {"rl_done", "cw_enqueue"}
        /\ at'[t] = "cw_enqueue" => frame'[t].cv = t /\ frame'[t].back = "rl_done"
    BY <2>1, CallEffects
  <2>5. ~Leaving(t)'
    BY <2>4 DEF Leaving, SigPlaces
  <2>6. RwType'
    BY <2>1, <2>3 DEF RwType
  <2>7. RwListed'
    BY <1>1, <2>3, <2>5 DEF RwListed
  <2>8. RwFrames'
    BY <1>0, <2>4 DEF RwFrames, WaitPlaces, SigPlaces
  <2> QED BY <2>6, <2>7, <2>8
<1>3. CASE RwUnlock(t)
  <2>1. PICK s : s = RemoveFirst(rw_list, t)
    OBVIOUS
  <2>2. /\ at[t] = "rw_in" /\ rw_list' = s /\ UNCHANGED <<rw_lock_type, frame>>
        /\ granting' = [granting EXCEPT ![t] = ToGrant(s, rw_lock_type[t])]
        /\ Goto(t, "ru_signal")
    BY <2>1, <1>3 DEF RwUnlock, Here
  <2>3. t \in Range(rw_list)
    BY <2>2 DEF RwListed, Leaving, SigPlaces
  <2>4. s \in Seq(Threads) /\ IsInjective(s) /\ Range(s) = Range(rw_list) \ {t}
    BY <2>1, <2>3, RemoveFirstProperties DEF RwType, RwListed
  <2>5. RwType'
    BY <2>2, <2>4, ToGrantType DEF RwType
  <2>6. at'[t] = "ru_signal"
    BY <2>2, CallEffects
  <2>7. Leaving(t)'
    BY <2>6 DEF Leaving
  <2>8. RwListed'
    BY <1>1, <2>2, <2>4, <2>7 DEF RwListed
  <2>9. RwFrames'
    BY <1>0, <2>6 DEF RwFrames, WaitPlaces, SigPlaces
  <2> QED BY <2>5, <2>8, <2>9
<1>4. CASE RwGrant(t)
  <2>1. /\ at[t] \in {"ru_signal", "rd_signal"} /\ granting[t] # <<>>
        /\ CallSignal(t, "cs_take", Head(granting[t]), at[t])
        /\ granting' = [granting EXCEPT ![t] = Tail(granting[t])]
        /\ UNCHANGED <<rw_list, rw_lock_type>>
    BY <1>4 DEF RwGrant
  <2>2. Tail(granting[t]) \in Seq(Threads)
    BY <2>1, HeadTailProperties DEF RwType
  <2>3. RwType'
    BY <2>1, <2>2 DEF RwType
  <2>4. at'[t] = "cs_take" /\ frame'[t].back = at[t]
    BY <2>1, CallEffects
  <2>5. Leaving(t)' <=> Leaving(t)
    BY <2>1, <2>4 DEF Leaving, SigPlaces
  <2>6. RwListed'
    BY <1>1, <2>1, <2>5 DEF RwListed
  <2>7. RwFrames'
    BY <1>0, <2>1, <2>4 DEF RwFrames, WaitPlaces, SigPlaces
  <2> QED BY <2>3, <2>6, <2>7
<1>5. CASE RwLockDone(t) \/ RwUnlockDone(t)
  <2>1. /\ UNCHANGED <<rvars, frame>>
        /\ \/ at[t] = "rl_done" /\ Goto(t, "rw_in")
           \/ at[t] = "ru_signal" /\ Goto(t, "rw_out")
    BY <1>5 DEF RwLockDone, RwUnlockDone, Here
  <2>2. at'[t] \notin CallPlaces /\ (Leaving(t)' <=> Leaving(t))
    BY <2>1, CallEffects DEF Leaving, CallPlaces, SigPlaces, WaitPlaces
  <2>3. RwType' /\ RwListed'
    BY <1>1, <2>1, <2>2 DEF RwType, RwListed, rvars
  <2>4. RwFrames'
    BY <1>0, <2>1, <2>2 DEF RwFrames, CallPlaces
  <2> QED BY <2>3, <2>4
<1>6. CASE RwDowngrade(t) \/ RwDowngradeDone(t)
  <2>1. /\ UNCHANGED <<rw_list, frame>>
        /\ at[t] \in {"rw_in", "rd_signal"}
        /\ \E p \in {"rd_signal", "rd_stuck", "rw_in"} : Goto(t, p)
    BY <1>6 DEF RwDowngrade, RwDowngradeDone, Here
  <2>2. at'[t] \notin CallPlaces /\ (Leaving(t)' <=> Leaving(t))
    BY <2>1, CallEffects DEF Leaving, CallPlaces, SigPlaces, WaitPlaces
  <2>3. rw_lock_type' \in [Threads -> {"READ", "WRITE"}]
    BY <1>6 DEF RwDowngrade, RwDowngradeDone, RwType
  <2>4. granting' \in [Threads -> Seq(Threads)]
    <3> DEFINE r == FindByType(rw_list, "READ")
    <3>1. r \in 0..Len(rw_list) /\ Len(rw_list) \in Nat
          /\ \A j \in 1..Len(rw_list) : rw_list[j] \in Threads
      BY FindByTypeProperties, LenProperties, ElementOfSeq DEF RwType
    <3>2. CASE RwDowngradeDone(t)
      BY <3>2 DEF RwDowngradeDone, RwType
    <3>3. CASE RwDowngrade(t)
      <4>1. granting' = [granting EXCEPT ![t] =
                           IF r = 0 THEN <<>>
                           ELSE SubSeq(rw_list, r, Len(rw_list))]
        BY <3>3 DEF RwDowngrade
      <4> HIDE DEF r
      <4>2. r # 0 => SubSeq(rw_list, r, Len(rw_list)) \in Seq(Threads)
        <5> SUFFICES ASSUME r # 0
                     PROVE  SubSeq(rw_list, r, Len(rw_list)) \in Seq(Threads)
          OBVIOUS
        <5>1. \A j \in r..Len(rw_list) : rw_list[j] \in Threads
          BY <3>1
        <5> QED BY <3>1, <5>1, SubSeqProperties DEF RwType
      <4>3. <<>> \in Seq(Threads)
        OBVIOUS
      <4> QED BY <4>1, <4>2, <4>3 DEF RwType
    <3> QED BY <1>6, <3>2, <3>3
  <2>5. RwType' /\ RwListed'
    BY <1>1, <2>1, <2>2, <2>3, <2>4 DEF RwType, RwListed
  <2>6. RwFrames'
    BY <1>0, <2>1, <2>2 DEF RwFrames, CallPlaces
  <2> QED BY <2>5, <2>6
<1> QED BY <1>2, <1>3, <1>4, <1>5, <1>6 DEF RwStep

\* Steps of cond.c do not touch the list, nor who has a record.
LEMMA CondStepListed ==
  ASSUME CondInv, Guarded(RwLock, RwPlaces, RwHold), RwType, RwListed, RwFrames,
         NEW t \in Threads, CondStep(t), UNCHANGED rvars
  PROVE  RwType' /\ RwListed' /\ RwFrames'
<1>1. \A u \in Threads \ {t} : at'[u] = at[u] /\ frame'[u] = frame[u]
  BY CondStepMoves
<1>2. at[t] \in CallPlaces /\ frame[t].back \in RwHold
  BY CondStepMoves DEF Guarded
<1>3. CASE at'[t] = frame[t].back
  <2>1. at'[t] \notin CallPlaces
    BY <1>2, <1>3, RwSets
  <2>2. Leaving(t)' <=> Leaving(t)
    BY <1>2, <1>3, <2>1 DEF Leaving, RwFrames, CallPlaces, RwHold, WaitPlaces, SigPlaces
  <2> QED BY <1>1, <2>1, <2>2 DEF RwType, RwListed, RwFrames, rvars, Leaving, CallPlaces
<1>4. CASE at'[t] # frame[t].back
  <2>1. frame'[t] = frame[t] /\ at'[t] \in CallPlaces
        /\ (at'[t] \in WaitPlaces <=> at[t] \in WaitPlaces)
        /\ (at'[t] \in SigPlaces <=> at[t] \in SigPlaces)
    BY <1>4, CondStepMoves DEF CallPlaces, WaitPlaces, SigPlaces
  <2>2. Leaving(t)' <=> Leaving(t)
    BY <1>2, <2>1 DEF Leaving, CallPlaces, WaitPlaces, SigPlaces
  <2>3. \A u \in Threads : Leaving(u)' <=> Leaving(u)
    BY <1>1, <2>2 DEF Leaving
  <2>4. RwType' /\ RwListed'
    BY <2>3 DEF RwType, RwListed, rvars
  <2>5. RwFrames'
    BY <1>1, <2>1 DEF RwFrames
  <2> QED BY <2>4, <2>5
<1> QED BY <1>3, <1>4

\* The record at place i of s may have the lock: it is the writer at the head,
\* or a reader before the first writer.
MayHaveIn(types, s, i) ==
  IF types[s[1]] = "WRITE" THEN i = 1
  ELSE \A j \in 1..i : types[s[j]] = "READ"

\* t is in rwlock_downgrade.
Downgrading(t) ==
  at[t] = "rd_signal" \/ (at[t] \in SigPlaces /\ frame[t].back = "rd_signal")

\* A writer that downgrades counts as a reader.
Types == [t \in Threads |-> IF Downgrading(t) THEN "READ" ELSE rw_lock_type[t]]

MayHave(s, i) == MayHaveIn(Types, s, i)

\* t waits for its record to be signalled, or is about to.
Ungranted(t) == at[t] = "cw_enqueue" \/ waiting[t] # <<>>

\* h is signalling records, x is one of those left.
Signalling(h) == at[h] \in {"ru_signal", "rd_signal"} \cup SigPlaces
ToSignal(h, x) ==
  /\ Signalling(h)
  /\ x \in Range(granting[h]) \/ (at[h] = "cs_take" /\ frame[h].cv = x)

\* The programs in which rwlock_downgrade is right: nobody calls it, or there is
\* at most one writer.
Downgradable ==
  role.downgraders = {} \/ \E w \in Threads : role.writers \subseteq {w}

\* The records of writers are those of the program's writers.
RwWriters == \A t \in Threads : rw_lock_type[t] = "WRITE" => t \in role.writers

\* In such programs: a record that was signalled may have the lock; one that may
\* have it was signalled, or is going to be; and no other is.  Who downgrades is
\* the only writer.
RwGranted ==
  /\ \A i \in 1..Len(rw_list) :
       ~Ungranted(rw_list[i]) => MayHave(rw_list, i)
  /\ \A i \in 1..Len(rw_list) :
       MayHave(rw_list, i) /\ Ungranted(rw_list[i]) =>
         \E h \in Threads : ToSignal(h, rw_list[i])
  /\ \A h \in Threads : \A x : ToSignal(h, x) =>
       \E i \in 1..Len(rw_list) : rw_list[i] = x /\ MayHave(rw_list, i)
  /\ \A t \in Threads :
       /\ at[t] # "rd_stuck"
       /\ Downgrading(t) =>
            \A u \in Threads \ {t} : rw_lock_type[u] = "READ"

RwInv ==
  use = "rw" =>
    /\ Guarded(RwLock, RwPlaces, RwHold) /\ RwType /\ RwListed /\ RwFrames
    /\ RwWriters
    /\ Downgradable => RwGranted

\* While nobody downgrades, a thread counts with the type in its record.
LEMMA TypesAre ==
  ASSUME RwType, \A t \in Threads : ~Downgrading(t)
  PROVE  /\ Types = rw_lock_type
         /\ \A s, i : MayHave(s, i) <=> MayHaveIn(rw_lock_type, s, i)
BY DEF Types, RwType, MayHave

\* The types in which a thread counts change only with the records and with who
\* downgrades.
LEMMA TypesKept ==
  ASSUME rw_list' = rw_list, UNCHANGED rw_lock_type,
         \A t \in Threads : Downgrading(t)' <=> Downgrading(t)
  PROVE  /\ Types' = Types
         /\ \A i : MayHave(rw_list, i)' <=> MayHave(rw_list, i)
<1>1. Types' = Types
  BY DEF Types
<1> QED BY <1>1 DEF MayHave

\* rwlock_unlock signals the records that may have the lock then.
LEMMA ToGrantIs ==
  ASSUME RwType, NEW s \in Seq(Threads), NEW type, NEW x
  PROVE  x \in Range(ToGrant(s, type)) <=>
           \E i \in 1..Len(s) : s[i] = x /\ MayHaveIn(rw_lock_type, s, i)
<1>0. Len(s) \in Nat /\ \A j \in 1..Len(s) : s[j] \in Threads
  BY LenProperties, ElementOfSeq
<1>1. CASE s = <<>>
  BY <1>1, ShortSequences DEF ToGrant
<1>2. CASE s # <<>>
  <2>0. Len(s) # 0 /\ Head(s) = s[1]
    BY <1>2, EmptySeq
  <2>1. CASE rw_lock_type[s[1]] = "READ"
    <3> DEFINE r == Readers(s)
    <3>1. ToGrant(s, type) = r
      BY <1>2, <2>0, <2>1 DEF ToGrant
    <3>2. /\ r \in Seq(Threads) /\ Len(r) \in 0..Len(s)
          /\ \A j \in 1..Len(r) : r[j] = s[j] /\ rw_lock_type[s[j]] = "READ"
          /\ Len(r) < Len(s) => rw_lock_type[s[Len(r) + 1]] = "WRITE"
      BY ReadersProperties
    <3> HIDE DEF r
    <3>3. DOMAIN r = 1..Len(r)
      BY <3>2, LenProperties
    <3>4. \A i \in 1..Len(s) : MayHaveIn(rw_lock_type, s, i) <=> i <= Len(r)
      <4> SUFFICES ASSUME NEW i \in 1..Len(s)
                   PROVE  (\A j \in 1..i : rw_lock_type[s[j]] = "READ") <=> i <= Len(r)
        BY <2>1 DEF MayHaveIn
      <4>1. CASE i <= Len(r)
        BY <4>1, <3>2, <1>0
      <4>2. CASE i > Len(r)
        <5>1. Len(r) + 1 \in 1..i /\ rw_lock_type[s[Len(r) + 1]] = "WRITE"
          BY <4>2, <3>2, <1>0
        <5> QED BY <5>1, <4>2, <3>2, <1>0
      <4> QED BY <4>1, <4>2, <3>2, <1>0
    <3>5. x \in Range(r) <=> \E i \in 1..Len(r) : s[i] = x
      BY <3>2, <3>3 DEF Range
    <3> QED BY <1>0, <3>1, <3>2, <3>4, <3>5
  <2>2. CASE rw_lock_type[s[1]] # "READ"
    <3>1. rw_lock_type[s[1]] = "WRITE"
      BY <1>0, <2>0, <2>2 DEF RwType
    <3>2. ToGrant(s, type) \in {<<s[1], s[1]>>, <<s[1]>>}
      BY <1>2, <2>0, <2>2 DEF ToGrant
    <3>3. Range(<<s[1], s[1]>>) = {s[1]} /\ Range(<<s[1]>>) = {s[1]}
      BY ShortSequences DEF Range
    <3>4. x \in Range(ToGrant(s, type)) <=> x = s[1]
      BY <3>2, <3>3
    <3> QED BY <1>0, <2>0, <3>1, <3>4 DEF MayHaveIn
  <2> QED BY <2>1, <2>2
<1> QED BY <1>1, <1>2

\* Only its own thread waits on the condition variable of a record.
LEMMA OwnWaiter ==
  ASSUME CondInv, RwFrames, NEW t \in Threads
  PROVE  /\ Range(waiting[t]) \subseteq {t}
         /\ ~Pending(t) => waiting[t] = <<>>
<1>1. t \in Conds
  BY RwSets
<1>2. Range(waiting[t]) \subseteq {t}
  <2> SUFFICES ASSUME NEW u \in Range(waiting[t]) PROVE u = t
    OBVIOUS
  <2>1. u \in Threads /\ Pending(u) /\ frame[u].cv = t
    BY <1>1, ListedThreads DEF CondInv, Listed
  <2>2. at[u] \in WaitPlaces
    BY <2>1 DEF Pending, CondInv, Called, WaitPlaces
  <2> QED BY <2>1, <2>2 DEF RwFrames
<1>3. ~Pending(t) => Range(waiting[t]) = {}
  BY <1>1, <1>2 DEF CondInv, Listed
<1>4. waiting[t] \in Seq(Threads)
  BY <1>1 DEF CondInv, CondType
<1> QED BY <1>2, <1>3, <1>4, EmptyRange

\* Steps of cond.c signal only the records that may have the lock.
LEMMA CondStepGranted ==
  ASSUME CondInv, Guarded(RwLock, RwPlaces, RwHold), RwType, RwListed, RwFrames,
         RwGranted, NEW t \in Threads, CondStep(t), UNCHANGED rvars
  PROVE  RwGranted'
<1>0. /\ \A u \in Threads \ {t} : at'[u] = at[u] /\ frame'[u] = frame[u]
      /\ t \notin asleep /\ at[t] \in CallPlaces \ {"cb_take"}
      /\ \/ at'[t] = frame[t].back
         \/ at'[t] \in CallPlaces \ EntryPlaces /\ frame'[t] = frame[t]
  BY CondStepMoves DEF Guarded, RwPlaces
<1>2. Len(rw_list) \in Nat /\ \A i \in 1..Len(rw_list) : rw_list[i] \in Threads
  BY LenProperties, ElementOfSeq DEF RwType
<1>3. /\ at[t] \in WaitPlaces => frame[t].cv = t /\ frame[t].back = "rl_done"
      /\ at[t] \in SigPlaces => frame[t].back \in {"ru_signal", "rd_signal"}
  BY DEF RwFrames
<1>a. \A u \in Threads : Downgrading(u)' <=> Downgrading(u)
  <2>1. Downgrading(t)' <=> Downgrading(t)
    BY <1>0, <1>3, CondStepMoves DEF Downgrading, CallPlaces, WaitPlaces, SigPlaces
  <2> QED BY <1>0, <2>1 DEF Downgrading
<1>1. /\ rw_list' = rw_list /\ granting' = granting /\ rw_lock_type' = rw_lock_type
      /\ \A i : MayHave(rw_list, i)' <=> MayHave(rw_list, i)
  BY <1>a, TypesKept DEF rvars
<1>4. \A u \in Threads : Signalling(u)' <=> Signalling(u)
  <2>1. at'[t] \in SigPlaces \cup {"ru_signal", "rd_signal"} <=> at[t] \in SigPlaces
    BY <1>0, <1>3, CondStepMoves DEF CallPlaces, WaitPlaces, SigPlaces
  <2>2. Signalling(t)' <=> Signalling(t)
    BY <1>0, <2>1 DEF Signalling, CallPlaces, WaitPlaces, SigPlaces
  <2> QED BY <1>0, <2>2 DEF Signalling
<1>5. at'[t] # "cs_take" /\ at'[t] # "cw_enqueue"
  BY <1>0, <1>3 DEF CallPlaces, WaitPlaces, SigPlaces, EntryPlaces
<1>6. \A u \in Threads : /\ at'[u] # "rd_stuck"
                         /\ Downgrading(u)' =>
                              \A v \in Threads \ {u} : rw_lock_type'[v] = "READ"
  <2>1. at'[t] # "rd_stuck"
    BY <1>0, <1>3 DEF CallPlaces, WaitPlaces, SigPlaces
  <2> QED BY <1>0, <1>a, <1>1, <2>1 DEF RwGranted
<1>7. \A h \in Threads : \A x : ToSignal(h, x)' => ToSignal(h, x)
  BY <1>0, <1>1, <1>4, <1>5 DEF ToSignal
<1>8. \A h \in Threads : \A x : ToSignal(h, x)' =>
        \E i \in 1..Len(rw_list) : rw_list[i] = x /\ MayHave(rw_list, i)
  BY <1>7 DEF RwGranted
<1>9. CASE CsTake(t)
  <2>1. PICK x : x = frame[t].cv
    OBVIOUS
  <2>2. at[t] = "cs_take" /\ ToSignal(t, x)
    BY <1>9, <2>1 DEF CsTake, Here, ToSignal, Signalling, SigPlaces
  <2>3. PICK k \in 1..Len(rw_list) : rw_list[k] = x /\ MayHave(rw_list, k)
    BY <2>2 DEF RwGranted
  <2>4. x \in Threads /\ x \in Conds
    BY <1>2, <2>3, RwSets
  <2>5. \A u \in Threads \ {t} : at[u] \notin RwHold \cup Inside
    BY <2>2, OneInside DEF Inside
  <2>6. waiting'[x] = <<>> /\ \A u \in Threads \ {x} : waiting'[u] = waiting[u]
    <3>1. CASE waiting[x] = <<>>
      BY <1>9, <2>1, <3>1 DEF CsTake
    <3>2. CASE waiting[x] # <<>>
      <4>1. waiting' = [waiting EXCEPT ![x] = Tail(waiting[x])]
        BY <1>9, <2>1, <3>2 DEF CsTake
      <4>2. waiting[x] \in Seq(Threads) /\ IsInjective(waiting[x])
        BY <2>4 DEF CondInv, CondType, Listed
      <4>3. Range(waiting[x]) \subseteq {x}
        BY <2>4, OwnWaiter
      <4>4. Range(Tail(waiting[x])) = {} /\ Tail(waiting[x]) \in Seq(Threads)
        BY <3>2, <4>2, <4>3, DropFirst
      <4>5. Tail(waiting[x]) = <<>>
        BY <4>4, EmptyRange
      <4> QED BY <2>4, <4>1, <4>5, RwSets DEF CondInv, CondType
    <3> QED BY <3>1, <3>2
  <2>7. /\ ~Ungranted(x)'
        /\ \A u \in Threads \ {x} : Ungranted(u)' <=> Ungranted(u)
    <3>1. \A u \in Threads : at[u] # "cw_enqueue" /\ at'[u] # "cw_enqueue"
      BY <1>0, <1>5, <2>2, <2>5 DEF Inside
    <3> QED BY <2>4, <2>6, <3>1 DEF Ungranted
  <2>8. \A i \in 1..Len(rw_list) :
          ~Ungranted(rw_list[i])' => MayHave(rw_list, i)
    <3> SUFFICES ASSUME NEW i \in 1..Len(rw_list), ~Ungranted(rw_list[i])'
                 PROVE  MayHave(rw_list, i)
      OBVIOUS
    <3>1. CASE rw_list[i] = x
      <4>1. i = k
        BY <2>3, <3>1, LenProperties DEF RwListed, RwType, IsInjective
      <4> QED BY <4>1, <2>3
    <3>2. CASE rw_list[i] # x
      <4>1. ~Ungranted(rw_list[i])
        BY <1>1, <1>2, <2>7, <3>2
      <4> QED BY <4>1 DEF RwGranted
    <3> QED BY <3>1, <3>2
  <2>9. ASSUME NEW i \in 1..Len(rw_list), MayHave(rw_list, i),
               Ungranted(rw_list[i])'
        PROVE  \E h \in Threads : ToSignal(h, rw_list[i])'
    <3>1. rw_list[i] # x /\ Ungranted(rw_list[i])
      BY <1>1, <1>2, <2>7, <2>9
    <3>2. PICK h \in Threads : ToSignal(h, rw_list[i])
      BY <2>9, <3>1 DEF RwGranted
    <3>3. h = t
      BY <2>5, <3>2, CondStepMoves, <1>0 DEF ToSignal, Signalling, RwHold, Inside, SigPlaces, Guarded, RwPlaces
    <3>4. rw_list[i] \in Range(granting[t])
      BY <2>1, <3>1, <3>2, <3>3 DEF ToSignal
    <3>5. ToSignal(t, rw_list[i])'
      BY <1>1, <1>4, <3>2, <3>3, <3>4 DEF ToSignal
    <3> QED BY <3>5
  <2> QED BY <1>1, <1>6, <1>8, <2>8, <2>9 DEF RwGranted
<1>10. CASE ~CsTake(t)
  <2>1. at[t] # "cs_take"
    BY <1>10 DEF CondStep, CwEnqueue, CwUnlock, CwSleep, CwLock, CbTake, CsWake,
                 CsDone, Here
  <2>2. \A u \in Threads : Ungranted(u)' <=> Ungranted(u)
    <3>1. CASE CwEnqueue(t)
      <4>1. /\ at[t] = "cw_enqueue" /\ frame[t].cv = t
            /\ waiting' = [waiting EXCEPT ![t] = Append(waiting[t], t)]
        BY <3>1, <1>3 DEF CwEnqueue, Here, WaitPlaces
      <4>2. Append(waiting[t], t) # <<>>
        <5>1. waiting[t] \in Seq(Threads)
          BY RwSets DEF CondInv, CondType
        <5> QED BY <5>1, AppendProperties
      <4>3. waiting'[t] # <<>> /\ \A u \in Threads \ {t} : waiting'[u] = waiting[u]
        BY <4>1, <4>2, RwSets DEF CondInv, CondType
      <4> QED BY <1>0, <4>1, <4>3 DEF Ungranted
    <3>2. CASE ~CwEnqueue(t)
      <4>1. ~CbTake(t)
        BY <1>0 DEF CbTake, Here
      <4>2. waiting' = waiting /\ at[t] # "cw_enqueue"
        BY <1>10, <3>2, <4>1 DEF CondStep, CwUnlock, CwSleep, CwLock, CsWake, CsDone, Here
      <4> QED BY <1>0, <1>5, <4>2 DEF Ungranted
    <3> QED BY <3>1, <3>2
  <2>3. \A h \in Threads : \A x : ToSignal(h, x) => ToSignal(h, x)'
    BY <1>0, <1>1, <1>4, <2>1 DEF ToSignal
  <2>4. \A i \in 1..Len(rw_list) : /\ rw_list'[i] = rw_list[i]
                                   /\ Ungranted(rw_list[i])' <=> Ungranted(rw_list[i])
    BY <1>1, <1>2, <2>2
  <2>5. \A i \in 1..Len(rw_list) :
         /\ ~Ungranted(rw_list[i])' => MayHave(rw_list, i)
         /\ MayHave(rw_list, i) /\ Ungranted(rw_list[i])' =>
              \E h \in Threads : ToSignal(h, rw_list[i])'
    <3> SUFFICES ASSUME NEW i \in 1..Len(rw_list)
                 PROVE  /\ ~Ungranted(rw_list[i])' => MayHave(rw_list, i)
                        /\ MayHave(rw_list, i) /\ Ungranted(rw_list[i])' =>
                             \E h \in Threads : ToSignal(h, rw_list[i])'
      OBVIOUS
    <3>1. PICK x : x = rw_list[i]
      OBVIOUS
    <3>2. MayHave(rw_list, i) /\ Ungranted(x) => \E h \in Threads : ToSignal(h, x)
      BY <3>1 DEF RwGranted
    <3>3. \A h \in Threads : ToSignal(h, x) => ToSignal(h, rw_list[i])'
      BY <2>3, <3>1, <1>1
    <3> QED BY <2>4, <3>1, <3>2, <3>3 DEF RwGranted
  <2> QED BY <1>1, <1>6, <1>8, <2>5 DEF RwGranted
<1> QED BY <1>9, <1>10

\* A new record: it may have the lock if and only if it does not wait, and the
\* others may have it as before.
LEMMA NewRecord ==
  ASSUME CondInv, RwType, RwListed, NEW t \in Threads, NEW type \in {"READ", "WRITE"},
         RwLockCall(t, type),
         NEW s, NEW r, NEW types, NEW types2,
         s = rw_list, r = rw_list', types = rw_lock_type, types2 = rw_lock_type'
  PROVE  \A i \in 1..Len(r) :
           \/ r[i] = t /\ (MayHaveIn(types2, r, i) <=> at'[t] = "rl_done")
           \/ \E k \in 1..Len(s) :
                /\ s[k] = r[i] /\ s[k] # t
                /\ MayHaveIn(types2, r, i) <=> MayHaveIn(types, s, k)
<1>0. Len(s) \in Nat /\ DOMAIN s = 1..Len(s) /\ s \in Seq(Threads)
      /\ \A i \in 1..Len(s) : s[i] \in Threads
  BY LenProperties, ElementOfSeq DEF RwType
<1>a. PICK n \in Nat : n = Len(s)
  BY <1>0
<1>1. /\ at[t] = "rw_out" /\ types2 = [types EXCEPT ![t] = type]
  BY DEF RwLockCall, Here
<1>2. \A i \in 1..n : s[i] # t
  <2>1. t \notin Range(s)
    BY <1>1 DEF RwListed, Leaving
  <2> QED BY <1>0, <1>a, <2>1 DEF Range
<1>3. /\ types2[t] = type
      /\ \A i \in 1..n : /\ types2[s[i]] = types[s[i]]
                         /\ types[s[i]] \in {"READ", "WRITE"}
  BY <1>0, <1>a, <1>1, <1>2 DEF RwType
<1>4. n = 0 <=> s = <<>>
  BY <1>0, <1>a, EmptySeq
<1>5. CASE type = "READ"
  <2>1. /\ r = Append(s, t)
        /\ IF FindByType(s, "WRITE") = 0
           THEN Goto(t, "rl_done") ELSE CallWait(t, t, RwLock, "rl_done")
    BY <1>5 DEF RwLockCall, LockRead
  <2>2. Len(r) = n + 1 /\ r[n + 1] = t /\ \A i \in 1..n : r[i] = s[i]
    BY <1>0, <1>a, <2>1, AppendProperties
  <2>3. at'[t] = "rl_done" <=> \A j \in 1..n : types[s[j]] = "READ"
    <3>1. CASE FindByType(s, "WRITE") = 0
      <4>1. \A j \in 1..n : types[s[j]] # "WRITE"
        BY <1>0, <1>a, <3>1, FindByTypeProperties
      <4>2. at'[t] = "rl_done"
        BY <2>1, <3>1, CallEffects
      <4> QED BY <1>3, <4>1, <4>2
    <3>2. CASE FindByType(s, "WRITE") # 0
      <4>1. \E j \in 1..n : types[s[j]] = "WRITE"
        <5>1. PICK k \in 0..n : k = FindByType(s, "WRITE") /\ types[s[k]] = "WRITE"
          BY <1>0, <1>a, <3>2, FindByTypeProperties
        <5>2. k \in 1..n
          BY <3>2, <5>1
        <5> QED BY <5>1, <5>2
      <4>2. at'[t] # "rl_done"
        BY <2>1, <3>2, CallEffects
      <4> QED BY <4>1, <4>2
    <3> QED BY <3>1, <3>2
  <2>4. MayHaveIn(types2, r, n + 1) <=> at'[t] = "rl_done"
    <3>1. CASE n = 0
      BY <1>3, <1>5, <2>2, <2>3, <3>1 DEF MayHaveIn
    <3>2. CASE n # 0
      <4>1. 1 \in 1..n /\ n + 1 # 1 /\ 1..n + 1 = 1..n \cup {n + 1}
        BY <3>2
      <4>2. \A j \in 1..n : types2[r[j]] = types[s[j]]
        BY <1>3, <2>2
      <4>3. types2[r[n + 1]] = "READ"
        BY <1>3, <1>5, <2>2
      <4> QED BY <1>3, <2>3, <4>1, <4>2, <4>3 DEF MayHaveIn
    <3> QED BY <3>1, <3>2
  <2>5. \A i \in 1..n : MayHaveIn(types2, r, i) <=> MayHaveIn(types, s, i)
    <3>1. \A j \in 1..n : types2[r[j]] = types[s[j]]
      BY <1>3, <2>2
    <3> QED BY <3>1 DEF MayHaveIn
  <2>6. ASSUME NEW i \in 1..n + 1
        PROVE  \/ r[i] = t /\ (MayHaveIn(types2, r, i) <=> at'[t] = "rl_done")
               \/ \E k \in 1..n :
                    /\ s[k] = r[i] /\ s[k] # t
                    /\ MayHaveIn(types2, r, i) <=> MayHaveIn(types, s, k)
    <3>1. CASE i = n + 1
      BY <2>2, <2>4, <3>1
    <3>2. CASE i \in 1..n
      BY <1>2, <2>2, <2>5, <3>2
    <3> QED BY <3>1, <3>2
  <2> QED BY <1>a, <2>2, <2>6
<1>6. CASE type = "WRITE"
  <2>1. PICK w : w = WriterSlot(s)
    OBVIOUS
  <2>2. /\ r = InsertAt(s, w, t)
        /\ IF s = <<>> THEN Goto(t, "rl_done") ELSE CallWait(t, t, RwLock, "rl_done")
    BY <1>6, <2>1 DEF RwLockCall, LockWrite
  <2>3. at'[t] = "rl_done" <=> n = 0
    BY <1>4, <2>2, CallEffects
  <2>4. /\ w \in 1..n + 1 /\ (n # 0 => w # 1)
        /\ w <= n => types[s[1]] = "WRITE"
    BY <1>0, <1>a, <1>4, <2>1, WriterSlotProperties
  <2>5. /\ Len(r) = n + 1
        /\ \A j \in 1..n + 1 : r[j] = IF j < w THEN s[j]
                                      ELSE IF j = w THEN t ELSE s[j - 1]
    BY <1>0, <1>a, <2>2, <2>4, InsertAtProperties
  <2>6. MayHaveIn(types2, r, w) <=> n = 0
    <3>1. CASE n = 0
      <4>1. w = 1 /\ r[1] = t
        BY <2>4, <2>5, <3>1
      <4> QED BY <1>3, <1>6, <3>1, <4>1 DEF MayHaveIn
    <3>2. CASE n # 0
      <4>1. w # 1 /\ w \in 1..w /\ r[w] = t /\ types2[r[w]] = "WRITE"
        BY <1>3, <1>6, <2>4, <2>5, <3>2
      <4> QED BY <3>2, <4>1 DEF MayHaveIn
    <3> QED BY <3>1, <3>2
  <2>7. \A i \in 1..w - 1 : i \in 1..n /\ s[i] = r[i]
    BY <2>4, <2>5
  <2>8. \A i \in 1..w - 1 : MayHaveIn(types2, r, i) <=> MayHaveIn(types, s, i)
    <3>1. \A j \in 1..w - 1 : types2[r[j]] = types[s[j]]
      BY <1>3, <2>7
    <3> QED BY <2>4, <3>1 DEF MayHaveIn
  <2>9. ASSUME NEW i \in w + 1..n + 1
        PROVE  /\ i - 1 \in 1..n /\ s[i - 1] = r[i]
               /\ ~MayHaveIn(types2, r, i) /\ ~MayHaveIn(types, s, i - 1)
    <3>1. w <= n /\ w > 1 /\ i - 1 \in 1..n /\ i - 1 # 1 /\ i # 1 /\ 1 \in 1..n
      BY <2>4
    <3>2. s[i - 1] = r[i] /\ r[1] = s[1]
      BY <2>4, <2>5, <3>1
    <3>3. types[s[1]] = "WRITE" /\ types2[r[1]] = "WRITE"
      BY <1>3, <2>4, <3>1, <3>2
    <3> QED BY <3>1, <3>2, <3>3 DEF MayHaveIn
  <2>10. ASSUME NEW i \in 1..n + 1
        PROVE  \/ r[i] = t /\ (MayHaveIn(types2, r, i) <=> at'[t] = "rl_done")
               \/ \E k \in 1..n :
                    /\ s[k] = r[i] /\ s[k] # t
                    /\ MayHaveIn(types2, r, i) <=> MayHaveIn(types, s, k)
    <3>1. CASE i = w
      BY <2>3, <2>4, <2>5, <2>6, <3>1
    <3>2. CASE i \in 1..w - 1
      BY <1>2, <2>7, <2>8, <3>2
    <3>3. CASE i \in w + 1..n + 1
      BY <1>2, <2>9, <3>3
    <3> QED BY <2>4, <3>1, <3>2, <3>3
  <2> QED BY <1>a, <2>5, <2>10
<1> QED BY <1>5, <1>6

\* rwlock_lock, rwlock_unlock and rwlock_downgrade keep the lock with those who
\* may have it.
LEMMA RwStepGranted ==
  ASSUME CondInv, Guarded(RwLock, RwPlaces, RwHold), RwType, RwListed, RwFrames,
         RwGranted, RwWriters, Downgradable, NEW t \in Threads, RwStep(t)
  PROVE  RwGranted'
<1>0. /\ rw_list \in Seq(Threads) /\ IsInjective(rw_list)
      /\ Len(rw_list) \in Nat /\ DOMAIN rw_list = 1..Len(rw_list)
      /\ \A i \in 1..Len(rw_list) : rw_list[i] \in Threads
  BY LenProperties, ElementOfSeq DEF RwType, RwListed
<1>1. at[t] \in RwPlaces /\ UNCHANGED <<waiting, asleep, waking>>
  BY DEF RwStep, RwLockCall, RwLockDone, RwUnlock, RwGrant, RwUnlockDone,
         RwDowngrade, RwDowngradeDone, Here, RwPlaces
<1>2. ~Pending(t) /\ waiting[t] = <<>> /\ at[t] # "cw_enqueue"
  <2>1. ~Pending(t)
    BY <1>1 DEF Pending, CondInv, Called, RwPlaces
  <2> QED BY <1>1, <2>1, OwnWaiter DEF RwPlaces
<1>3. RwType' /\ RwListed' /\ RwFrames'
  BY RwStepListed
<1>4. ASSUME held[RwLock] = NoThread
      PROVE  /\ \A h \in Threads : ~Signalling(h)
             /\ \A h \in Threads : at[h] # "cw_enqueue"
             /\ \A h \in Threads : ~Downgrading(h)
             /\ \A i \in 1..Len(rw_list) :
                  MayHaveIn(rw_lock_type, rw_list, i) <=> ~Ungranted(rw_list[i])
  <2>1. \A h \in Threads : at[h] \notin RwHold \cup Inside
    BY <1>4, NobodyInside
  <2>2. \A h \in Threads : ~Signalling(h)
    BY <2>1 DEF Signalling, RwHold, Inside, Guarded, SigPlaces, RwPlaces
  <2>3. \A h \in Threads : ~Downgrading(h)
    BY <2>2 DEF Signalling, Downgrading
  <2>4. \A i : MayHave(rw_list, i) <=> MayHaveIn(rw_lock_type, rw_list, i)
    BY <2>3, TypesAre
  <2>5. \A i \in 1..Len(rw_list) : MayHave(rw_list, i) <=> ~Ungranted(rw_list[i])
    BY <2>2 DEF RwGranted, ToSignal
  <2> QED BY <2>1, <2>2, <2>3, <2>4, <2>5 DEF Inside
<1>5. ASSUME NEW type \in {"READ", "WRITE"}, RwLockCall(t, type)
      PROVE  RwGranted'
  <2>1. /\ held[RwLock] = NoThread
        /\ \/ Goto(t, "rl_done") /\ UNCHANGED frame
           \/ CallWait(t, t, RwLock, "rl_done")
    BY <1>5 DEF RwLockCall, LockRead, LockWrite, Take
  <2>2. /\ at'[t] \in {"rl_done", "cw_enqueue"}
        /\ \A u \in Threads \ {t} : at'[u] = at[u] /\ frame'[u] = frame[u]
    BY <2>1, CallEffects
  <2>3. \A u \in Threads \ {t} : Ungranted(u)' <=> Ungranted(u)
    BY <1>1, <2>2 DEF Ungranted
  <2>4. Ungranted(t)' <=> at'[t] # "rl_done"
    BY <1>1, <1>2, <2>2 DEF Ungranted
  <2>5. \A h \in Threads : \A x : ~ToSignal(h, x)'
    <3>1. \A h \in Threads : ~Signalling(h)'
      BY <1>4, <2>1, <2>2 DEF Signalling, SigPlaces
    <3> QED BY <3>1 DEF ToSignal
  <2>6. PICK s, r, types, types2 : /\ s = rw_list /\ r = rw_list'
                                   /\ types = rw_lock_type /\ types2 = rw_lock_type'
    OBVIOUS
  <2>7. ASSUME NEW i \in 1..Len(r)
        PROVE  MayHaveIn(types2, r, i) <=> ~Ungranted(rw_list[i])'
    <3>1. \/ r[i] = t /\ (MayHaveIn(types2, r, i) <=> at'[t] = "rl_done")
          \/ \E k \in 1..Len(s) :
               /\ s[k] = r[i] /\ s[k] # t
               /\ MayHaveIn(types2, r, i) <=> MayHaveIn(types, s, k)
      BY <1>5, <2>6, NewRecord
    <3>2. CASE r[i] = t /\ (MayHaveIn(types2, r, i) <=> at'[t] = "rl_done")
      BY <2>4, <2>6, <3>2
    <3>3. ASSUME NEW k \in 1..Len(s), s[k] = r[i], s[k] # t,
                 MayHaveIn(types2, r, i) <=> MayHaveIn(types, s, k)
          PROVE  MayHaveIn(types2, r, i) <=> ~Ungranted(rw_list[i])'
      <4>1. MayHaveIn(rw_lock_type, rw_list, k) <=> ~Ungranted(rw_list[k])
        BY <1>4, <2>1, <2>6
      <4>2. Ungranted(rw_list[i])' <=> Ungranted(rw_list[k])
        BY <1>0, <2>3, <2>6, <3>3
      <4> QED BY <2>6, <3>3, <4>1, <4>2
    <3> QED BY <3>1, <3>2, <3>3
  <2>8. \A u \in Threads : ~Downgrading(u)' /\ at'[u] # "rd_stuck"
    BY <1>4, <2>1, <2>2 DEF Downgrading, SigPlaces, RwGranted
  <2>9. Types' = types2
    BY <1>3, <2>6, <2>8 DEF Types, RwType
  <2>10. \A i \in 1..Len(rw_list') : MayHave(rw_list, i)' <=> ~Ungranted(rw_list[i])'
    BY <2>6, <2>7, <2>9 DEF MayHave
  <2> QED BY <2>5, <2>8, <2>10 DEF RwGranted
<1>6. CASE RwLockDone(t) \/ RwUnlockDone(t)
  <2>1. /\ UNCHANGED <<rvars, frame>>
        /\ \/ at[t] = "rl_done" /\ Goto(t, "rw_in")
           \/ at[t] = "ru_signal" /\ granting[t] = <<>> /\ Goto(t, "rw_out")
    BY <1>6 DEF RwLockDone, RwUnlockDone, Here
  <2>2. /\ at'[t] \in {"rw_in", "rw_out"}
        /\ \A u \in Threads \ {t} : at'[u] = at[u]
    BY <2>1, CallEffects
  <2>3. \A u \in Threads : Ungranted(u)' <=> Ungranted(u)
    BY <1>1, <1>2, <2>2 DEF Ungranted
  <2>4. \A h \in Threads : \A x : ToSignal(h, x)' <=> ToSignal(h, x)
    <3>1. \A x : ~ToSignal(t, x) /\ ~ToSignal(t, x)'
      BY <2>1, <2>2, ShortSequences DEF ToSignal, Signalling, SigPlaces, rvars
    <3> QED BY <2>1, <2>2, <3>1 DEF ToSignal, Signalling, rvars
  <2>a. \A u \in Threads : Downgrading(u)' <=> Downgrading(u)
    BY <2>1, <2>2 DEF Downgrading, SigPlaces
  <2>5. /\ rw_list' = rw_list
        /\ \A i : MayHave(rw_list, i)' <=> MayHave(rw_list, i)
    BY <2>1, <2>a, TypesKept DEF rvars
  <2>6. \A i \in 1..Len(rw_list) :
         /\ Ungranted(rw_list[i])' <=> Ungranted(rw_list[i])
         /\ \A h \in Threads : ToSignal(h, rw_list[i])' <=> ToSignal(h, rw_list[i])
    <3> SUFFICES ASSUME NEW i \in 1..Len(rw_list)
                 PROVE  /\ Ungranted(rw_list[i])' <=> Ungranted(rw_list[i])
                        /\ \A h \in Threads :
                             ToSignal(h, rw_list[i])' <=> ToSignal(h, rw_list[i])
      OBVIOUS
    <3>1. PICK x \in Threads : x = rw_list[i] /\ x = rw_list'[i]
      BY <1>0, <2>5
    <3> QED BY <2>3, <2>4, <3>1
  <2>7. \A u \in Threads : /\ at'[u] # "rd_stuck"
                           /\ Downgrading(u)' =>
                                \A v \in Threads \ {u} : rw_lock_type'[v] = "READ"
    BY <2>1, <2>2, <2>a DEF RwGranted, rvars
  <2> QED BY <2>4, <2>5, <2>6, <2>7 DEF RwGranted
<1>7. CASE RwUnlock(t)
  <2>1. PICK s, r, types : s = rw_list /\ r = RemoveFirst(s, t) /\ types = rw_lock_type
    OBVIOUS
  <2>2. /\ at[t] = "rw_in" /\ held[RwLock] = NoThread /\ rw_list' = r
        /\ UNCHANGED <<rw_lock_type, frame>>
        /\ granting' = [granting EXCEPT ![t] = ToGrant(r, types[t])]
        /\ Goto(t, "ru_signal")
    BY <1>7, <2>1 DEF RwUnlock, Here, Take
  <2>3. PICK k \in 1..Len(s) : s[k] = t
    <3>1. t \in Range(rw_list)
      BY <2>2 DEF RwListed, Leaving, SigPlaces
    <3> QED BY <1>0, <2>1, <3>1 DEF Range
  <2>4. /\ r \in Seq(Threads) /\ Len(r) = Len(s) - 1
        /\ \A j \in 1..Len(s) - 1 : r[j] = IF j < k THEN s[j] ELSE s[j + 1]
    <3>1. t \in Range(s)
      BY <1>0, <2>1, <2>3 DEF Range
    <3> QED BY <1>0, <2>1, <2>3, <3>1, RemoveFirstProperties, RemoveFirstIndex
  <2>5. /\ at'[t] = "ru_signal" /\ \A u \in Threads \ {t} : at'[u] = at[u]
    BY <2>2, CallEffects
  <2>6. \A u \in Threads \ {t} : Ungranted(u)' <=> Ungranted(u)
    BY <1>1, <2>5 DEF Ungranted
  <2>7. \A i \in 1..Len(s) : MayHaveIn(types, s, i) <=> ~Ungranted(s[i])
    BY <1>4, <2>1, <2>2
  <2>8. MayHaveIn(types, s, k)
    BY <1>2, <2>3, <2>7 DEF Ungranted
  <2>9. ASSUME NEW i \in 1..Len(r), ~Ungranted(rw_list[i])'
        PROVE  MayHaveIn(types, r, i)
    <3>1. PICK m \in 1..Len(s) : /\ m = IF i < k THEN i ELSE i + 1
                                 /\ s[m] = r[i]
      BY <1>0, <2>1, <2>4
    <3>2. s[m] # t /\ m # k
      BY <1>0, <2>1, <2>3, <2>4, <3>1 DEF IsInjective
    <3>3. ~Ungranted(s[m])
      <4>1. s[m] \in Threads
        BY <1>0, <2>1
      <4> QED BY <2>2, <2>6, <2>9, <3>1, <3>2, <4>1
    <3>4. MayHaveIn(types, s, m)
      BY <2>7, <3>3
    <3>5. types[s[1]] # "WRITE"
      BY <2>8, <3>2, <3>4 DEF MayHaveIn
    <3>6. /\ \A j \in 1..k : types[s[j]] = "READ"
          /\ \A j \in 1..m : types[s[j]] = "READ"
      BY <2>8, <3>4, <3>5 DEF MayHaveIn
    <3>7. \A j \in 1..i : types[r[j]] = "READ"
      <4> SUFFICES ASSUME NEW j \in 1..i PROVE types[r[j]] = "READ"
        OBVIOUS
      <4>1. CASE j < k
        BY <1>0, <2>1, <2>4, <3>6, <4>1
      <4>2. CASE j >= k
        <5>1. j + 1 \in 1..m /\ r[j] = s[j + 1]
          BY <1>0, <2>1, <2>4, <3>1, <4>2
        <5> QED BY <3>6, <5>1
      <4> QED BY <4>1, <4>2
    <3>8. types[r[1]] = "READ"
      BY <1>0, <2>1, <2>4, <3>7
    <3> QED BY <3>7, <3>8 DEF MayHaveIn
  <2>10. \A x : x \in Range(ToGrant(r, types[t])) <=>
                  \E i \in 1..Len(r) : r[i] = x /\ MayHaveIn(types, r, i)
    BY <2>1, <2>4, ToGrantIs
  <2>11. granting'[t] = ToGrant(r, types[t])
    BY <2>2 DEF RwType
  <2>12. \A x : ToSignal(t, x)' <=> x \in Range(ToGrant(r, types[t]))
    BY <2>5, <2>11 DEF ToSignal, Signalling
  <2>13. \A h \in Threads \ {t} : \A x : ~ToSignal(h, x)'
    <3>1. \A h \in Threads \ {t} : ~Signalling(h)'
      BY <1>4, <2>2, <2>5 DEF Signalling
    <3> QED BY <3>1 DEF ToSignal
  <2>a. \A u \in Threads : ~Downgrading(u)' /\ at'[u] # "rd_stuck"
    BY <1>4, <2>2, <2>5 DEF Downgrading, SigPlaces, RwGranted
  <2>b. Types' = types
    BY <1>3, <2>1, <2>2, <2>a DEF Types, RwType
  <2>14. \A i : MayHave(rw_list, i)' <=> MayHaveIn(types, r, i)
    BY <2>2, <2>b DEF MayHave
  <2>15. \A i \in 1..Len(r) :
           MayHaveIn(types, r, i) => ToSignal(t, rw_list[i])'
    BY <2>2, <2>10, <2>12
  <2>16. \A h \in Threads : \A x : ToSignal(h, x)' =>
           \E i \in 1..Len(r) : r[i] = x /\ MayHaveIn(types, r, i)
    BY <2>10, <2>12, <2>13
  <2> QED BY <2>2, <2>9, <2>14, <2>15, <2>16, <2>a DEF RwGranted
<1>8. CASE RwGrant(t)
  <2>1. PICK g, x : g = granting[t] /\ x = Head(g)
    OBVIOUS
  <2>2. /\ at[t] \in {"ru_signal", "rd_signal"} /\ g # <<>>
        /\ CallSignal(t, "cs_take", x, at[t])
        /\ granting' = [granting EXCEPT ![t] = Tail(g)]
        /\ UNCHANGED <<rw_list, rw_lock_type>>
    BY <1>8, <2>1 DEF RwGrant
  <2>4. /\ at'[t] = "cs_take" /\ frame'[t].cv = x /\ frame'[t].back = at[t]
        /\ \A u \in Threads \ {t} : at'[u] = at[u] /\ frame'[u] = frame[u]
    BY <2>2, CallEffects
  <2>3. \A u \in Threads : Downgrading(u)' <=> Downgrading(u)
    <3>1. Downgrading(t)' <=> Downgrading(t)
      BY <2>2, <2>4 DEF Downgrading, SigPlaces
    <3> QED BY <2>4, <3>1 DEF Downgrading
  <2>5. \A y : y \in Range(g) <=> y = x \/ y \in Range(Tail(g))
    <3>0. g \in Seq(Threads)
      BY <2>1 DEF RwType
    <3>1. /\ Tail(g) \in Seq(Threads) /\ Len(Tail(g)) = Len(g) - 1
          /\ \A i \in 1..Len(Tail(g)) : Tail(g)[i] = g[i + 1]
      BY <2>2, <3>0, HeadTailProperties
    <3>2. /\ Len(g) \in Nat /\ DOMAIN g = 1..Len(g) /\ Len(g) # 0 /\ x = g[1]
      BY <2>1, <2>2, <3>0, LenProperties, EmptySeq
    <3>3. DOMAIN Tail(g) = 1..Len(g) - 1
      BY <3>1, LenProperties
    <3>4. ASSUME NEW y \in Range(g) PROVE y = x \/ y \in Range(Tail(g))
      <4>1. PICK i \in 1..Len(g) : y = g[i]
        BY <3>2 DEF Range
      <4>2. CASE i = 1
        BY <3>2, <4>1, <4>2
      <4>3. CASE i # 1
        <5>1. i - 1 \in 1..Len(g) - 1 /\ Tail(g)[i - 1] = y
          BY <3>1, <3>2, <4>1, <4>3
        <5> QED BY <3>3, <5>1 DEF Range
      <4> QED BY <4>2, <4>3
    <3>5. ASSUME NEW y \in Range(Tail(g)) PROVE y \in Range(g)
      <4>1. PICK i \in 1..Len(g) - 1 : y = Tail(g)[i]
        BY <3>3 DEF Range
      <4>2. i + 1 \in 1..Len(g) /\ y = g[i + 1]
        BY <3>1, <3>2, <4>1
      <4> QED BY <3>2, <4>2 DEF Range
    <3>6. x \in Range(g)
      BY <3>2 DEF Range
    <3> QED BY <3>4, <3>5, <3>6
  <2>6. granting'[t] = Tail(g) /\ \A u \in Threads \ {t} : granting'[u] = granting[u]
    BY <2>2 DEF RwType
  <2>7. \A h \in Threads : \A y : ToSignal(h, y)' <=> ToSignal(h, y)
    <3>1. \A y : ToSignal(t, y)' <=> ToSignal(t, y)
      BY <2>1, <2>2, <2>4, <2>5, <2>6 DEF ToSignal, Signalling, SigPlaces
    <3> QED BY <2>4, <2>6, <3>1 DEF ToSignal, Signalling
  <2>8. \A u \in Threads : Ungranted(u)' <=> Ungranted(u)
    BY <1>1, <1>2, <2>4 DEF Ungranted
  <2>9. \A i : MayHave(rw_list, i)' <=> MayHave(rw_list, i)
    BY <2>2, <2>3, TypesKept
  <2>10. \A i \in 1..Len(rw_list) :
         /\ Ungranted(rw_list[i])' <=> Ungranted(rw_list[i])
         /\ \A h \in Threads : ToSignal(h, rw_list[i])' <=> ToSignal(h, rw_list[i])
    <3> SUFFICES ASSUME NEW i \in 1..Len(rw_list)
                 PROVE  /\ Ungranted(rw_list[i])' <=> Ungranted(rw_list[i])
                        /\ \A h \in Threads :
                             ToSignal(h, rw_list[i])' <=> ToSignal(h, rw_list[i])
      OBVIOUS
    <3>1. PICK y \in Threads : y = rw_list[i] /\ y = rw_list'[i]
      BY <1>0, <2>2
    <3> QED BY <2>7, <2>8, <3>1
  <2>11. \A u \in Threads : /\ at'[u] # "rd_stuck"
                            /\ Downgrading(u)' =>
                                 \A v \in Threads \ {u} : rw_lock_type'[v] = "READ"
    BY <2>2, <2>3, <2>4 DEF RwGranted
  <2> QED BY <2>2, <2>7, <2>9, <2>10, <2>11 DEF RwGranted
<1>9. CASE RwDowngrade(t)
  <2>1. PICK f : f = FindByType(rw_list, "READ")
    OBVIOUS
  <2>2. /\ at[t] = "rw_in" /\ held[RwLock] = NoThread /\ t \in role.downgraders
        /\ Head(rw_list) = t /\ rw_lock_type[t] = "WRITE"
        /\ granting' = [granting EXCEPT ![t] =
                           IF f = 0 THEN <<>> ELSE SubSeq(rw_list, f, Len(rw_list))]
        /\ Goto(t, "rd_signal")
        /\ UNCHANGED <<frame, rw_list, rw_lock_type>>
    BY <1>9, <2>1 DEF RwDowngrade, Here, Take
  <2>3. at'[t] = "rd_signal" /\ \A u \in Threads \ {t} : at'[u] = at[u]
    BY <2>2, CallEffects
  <2>4. \A u \in Threads \ {t} : rw_lock_type[u] = "READ"
    <3>1. PICK w \in Threads : role.writers \subseteq {w}
      BY <2>2 DEF Downgradable
    <3>2. t = w /\ \A u \in Threads \ {t} : rw_lock_type[u] # "WRITE"
      BY <2>2, <3>1 DEF RwWriters
    <3> QED BY <3>2 DEF RwType
  <2>5. Len(rw_list) # 0 /\ rw_list[1] = t
    <3>1. t \in Range(rw_list)
      BY <2>2 DEF RwListed, Leaving, SigPlaces
    <3> QED BY <1>0, <2>2, <3>1 DEF Range
  <2>6. \A i \in 2..Len(rw_list) : rw_list[i] # t /\ rw_lock_type[rw_list[i]] = "READ"
    <3>1. \A i \in 2..Len(rw_list) : rw_list[i] # t
      BY <1>0, <2>5 DEF IsInjective
    <3> QED BY <1>0, <2>4, <3>1
  <2>7. Types' = [u \in Threads |-> "READ"]
    <3>1. Downgrading(t)'
      BY <2>3 DEF Downgrading
    <3> QED BY <2>2, <2>4, <3>1 DEF Types
  <2>8. \A i \in 1..Len(rw_list) : MayHave(rw_list, i)'
    BY <1>0, <2>2, <2>7 DEF MayHave, MayHaveIn
  <2>9. \A i \in 2..Len(rw_list) : rw_list[i] \in Range(granting'[t])
    <3> SUFFICES ASSUME NEW i \in 2..Len(rw_list)
                 PROVE  rw_list[i] \in Range(granting'[t])
      OBVIOUS
    <3>1. f \in 1..2 /\ f <= Len(rw_list)
      <4>1. /\ f \in 0..Len(rw_list)
            /\ f = 0 => \A j \in 1..Len(rw_list) : rw_lock_type[rw_list[j]] # "READ"
            /\ f # 0 => \A j \in 1..f - 1 : rw_lock_type[rw_list[j]] # "READ"
        BY <1>0, <2>1, FindByTypeProperties
      <4>2. 2 \in 2..Len(rw_list) /\ rw_lock_type[rw_list[2]] = "READ"
        BY <1>0, <2>6
      <4> QED BY <1>0, <4>1, <4>2
    <3> DEFINE g == SubSeq(rw_list, f, Len(rw_list))
    <3>2. granting'[t] = g
      BY <2>2, <3>1 DEF RwType
    <3>3. /\ g \in Seq(Threads) /\ Len(g) = Len(rw_list) - f + 1
          /\ \A j \in 1..Len(rw_list) - f + 1 : g[j] = rw_list[f + j - 1]
      <4>1. \A j \in f..Len(rw_list) : rw_list[j] \in Threads
        BY <1>0, <3>1
      <4> QED BY <1>0, <3>1, <4>1, SubSeqProperties
    <3> HIDE DEF g
    <3>4. DOMAIN g = 1..Len(g)
      BY <3>3, LenProperties
    <3>5. i - f + 1 \in 1..Len(g) /\ g[i - f + 1] = rw_list[i]
      BY <1>0, <3>1, <3>3
    <3> QED BY <3>2, <3>4, <3>5 DEF Range
  <2>10. Range(granting'[t]) \subseteq Range(rw_list)
    <3>1. CASE f = 0
      BY <2>2, <3>1, ShortSequences DEF RwType
    <3>2. CASE f # 0
      <4>1. f \in 1..Len(rw_list)
        BY <1>0, <2>1, <3>2, FindByTypeProperties
      <4> DEFINE g == SubSeq(rw_list, f, Len(rw_list))
      <4>2. granting'[t] = g
        BY <2>2, <3>2 DEF RwType
      <4>3. /\ g \in Seq(Threads) /\ Len(g) = Len(rw_list) - f + 1
            /\ \A j \in 1..Len(rw_list) - f + 1 : g[j] = rw_list[f + j - 1]
        <5>1. \A j \in f..Len(rw_list) : rw_list[j] \in Threads
          BY <1>0, <4>1
        <5> QED BY <1>0, <4>1, <5>1, SubSeqProperties
      <4> HIDE DEF g
      <4>4. DOMAIN g = 1..Len(g)
        BY <4>3, LenProperties
      <4>5. \A j \in DOMAIN g : f + j - 1 \in 1..Len(rw_list) /\ g[j] = rw_list[f + j - 1]
        BY <1>0, <4>1, <4>3, <4>4
      <4> QED BY <1>0, <4>2, <4>5 DEF Range
    <3> QED BY <3>1, <3>2
  <2>11. ~Ungranted(t)' /\ \A u \in Threads \ {t} : Ungranted(u)' <=> Ungranted(u)
    BY <1>1, <1>2, <2>3 DEF Ungranted
  <2>12. \A x : ToSignal(t, x)' <=> x \in Range(granting'[t])
    BY <2>3 DEF ToSignal, Signalling
  <2>13. \A h \in Threads \ {t} : \A x : ~ToSignal(h, x)'
    BY <1>4, <2>2, <2>3 DEF ToSignal, Signalling
  <2>14. ASSUME NEW i \in 1..Len(rw_list), Ungranted(rw_list[i])'
         PROVE  ToSignal(t, rw_list[i])'
    <3>1. rw_list'[i] = rw_list[i]
      BY <2>2
    <3>2. i # 1
      BY <2>5, <2>11, <2>14, <3>1
    <3>3. i \in 2..Len(rw_list)
      BY <1>0, <3>2
    <3> QED BY <2>9, <2>12, <3>1, <3>3
  <2>15. ASSUME NEW h \in Threads, NEW x, ToSignal(h, x)'
         PROVE  \E i \in 1..Len(rw_list) : rw_list[i] = x
    BY <1>0, <2>10, <2>12, <2>13, <2>15 DEF Range
  <2>16. \A u \in Threads : /\ at'[u] # "rd_stuck"
                            /\ Downgrading(u)' => u = t
    BY <1>4, <2>2, <2>3 DEF Downgrading, RwGranted
  <2> QED BY <2>2, <2>4, <2>8, <2>14, <2>15, <2>16 DEF RwGranted
<1>10. CASE RwDowngradeDone(t)
  <2>1. at[t] = "rd_signal" /\ granting[t] = <<>> /\ Downgrading(t)
    BY <1>10 DEF RwDowngradeDone, Here, Downgrading
  <2>2. \A u \in Threads \ {t} : rw_lock_type[u] = "READ"
    BY <2>1 DEF RwGranted
  <2>3. ~(FindByType(rw_list, "READ") > 2)
    <3>1. PICK f : f = FindByType(rw_list, "READ")
      OBVIOUS
    <3>2. /\ f \in 0..Len(rw_list)
          /\ f # 0 => \A j \in 1..f - 1 : rw_lock_type[rw_list[j]] # "READ"
      BY <1>0, <3>1, FindByTypeProperties
    <3>3. ASSUME f > 2 PROVE FALSE
      <4>1. 1 \in 1..f - 1 /\ 2 \in 1..f - 1 /\ 1 \in 1..Len(rw_list) /\ 2 \in 1..Len(rw_list)
        BY <1>0, <3>2, <3>3
      <4>2. rw_list[1] = t /\ rw_list[2] = t
        BY <1>0, <2>2, <3>2, <3>3, <4>1
      <4> QED BY <1>0, <4>1, <4>2 DEF IsInjective
    <3> QED BY <3>1, <3>3
  <2>4. /\ rw_lock_type' = [rw_lock_type EXCEPT ![t] = "READ"]
        /\ Goto(t, "rw_in") /\ UNCHANGED <<frame, rw_list, granting>>
    BY <1>10, <2>3 DEF RwDowngradeDone
  <2>5. at'[t] = "rw_in" /\ \A u \in Threads \ {t} : at'[u] = at[u]
    BY <2>4, CallEffects
  <2>6. ~Downgrading(t)' /\ \A u \in Threads \ {t} : ~Downgrading(u) /\ ~Downgrading(u)'
    <3>1. \A u \in Threads \ {t} : at[u] \notin RwHold \cup Inside
      BY <2>1, OneInside DEF RwHold
    <3>2. \A u \in Threads \ {t} : ~Downgrading(u)
      BY <3>1 DEF Downgrading, RwHold, Inside, Guarded, SigPlaces, RwPlaces
    <3> QED BY <2>4, <2>5, <3>2 DEF Downgrading, SigPlaces
  <2>7. Types' = Types
    BY <2>1, <2>2, <2>4, <2>6 DEF Types, RwType
  <2>8. \A i : MayHave(rw_list, i)' <=> MayHave(rw_list, i)
    BY <2>4, <2>7 DEF MayHave
  <2>9. \A u \in Threads : Ungranted(u)' <=> Ungranted(u)
    BY <1>1, <1>2, <2>5 DEF Ungranted
  <2>10. \A h \in Threads : \A x : ToSignal(h, x)' <=> ToSignal(h, x)
    <3>1. \A x : ~ToSignal(t, x) /\ ~ToSignal(t, x)'
      BY <2>1, <2>5, ShortSequences DEF ToSignal, Signalling, SigPlaces
    <3> QED BY <2>4, <2>5, <3>1 DEF ToSignal, Signalling
  <2>11. \A i \in 1..Len(rw_list) :
         /\ Ungranted(rw_list[i])' <=> Ungranted(rw_list[i])
         /\ \A h \in Threads : ToSignal(h, rw_list[i])' <=> ToSignal(h, rw_list[i])
    <3> SUFFICES ASSUME NEW i \in 1..Len(rw_list)
                 PROVE  /\ Ungranted(rw_list[i])' <=> Ungranted(rw_list[i])
                        /\ \A h \in Threads :
                             ToSignal(h, rw_list[i])' <=> ToSignal(h, rw_list[i])
      OBVIOUS
    <3>1. PICK y \in Threads : y = rw_list[i] /\ y = rw_list'[i]
      BY <1>0, <2>4
    <3> QED BY <2>9, <2>10, <3>1
  <2>12. \A u \in Threads : at'[u] # "rd_stuck" /\ ~Downgrading(u)'
    BY <2>5, <2>6 DEF RwGranted
  <2> QED BY <2>4, <2>8, <2>10, <2>11, <2>12 DEF RwGranted
<1> QED BY <1>5, <1>6, <1>7, <1>8, <1>9, <1>10 DEF RwStep

\* The records of writers are those of writers.
LEMMA RwStepWriters ==
  ASSUME RwType, RwWriters, NEW t \in Threads, RwStep(t)
  PROVE  RwWriters' /\ UNCHANGED role
<1>1. UNCHANGED role
  BY DEF RwStep, RwLockCall, RwLockDone, RwUnlock, RwGrant, RwUnlockDone,
         RwDowngrade, RwDowngradeDone, rvars
<1>2. \/ UNCHANGED rw_lock_type
      \/ \E type \in {"READ", "WRITE"} :
           /\ type = "WRITE" => t \in role.writers
           /\ rw_lock_type' = [rw_lock_type EXCEPT ![t] = type]
  BY DEF RwStep, RwLockCall, RwLockDone, RwUnlock, RwGrant, RwUnlockDone,
         RwDowngrade, RwDowngradeDone, rvars
<1> QED BY <1>1, <1>2 DEF RwWriters, RwType

\* So a writer is alone, and exactly those who may have the lock do.
LEMMA GrantedSafe ==
  ASSUME CondInv, Guarded(RwLock, RwPlaces, RwHold), RwType, RwListed, RwFrames,
         RwGranted
  PROVE  WriterAlone /\ GrantedPrefix
<1>0. /\ rw_list \in Seq(Threads) /\ IsInjective(rw_list)
      /\ Len(rw_list) \in Nat /\ DOMAIN rw_list = 1..Len(rw_list)
      /\ \A i \in 1..Len(rw_list) : rw_list[i] \in Threads
  BY LenProperties, ElementOfSeq DEF RwType, RwListed
<1>1. ASSUME NEW t \in Threads, at[t] = "rw_in"
      PROVE  \E i \in 1..Len(rw_list) : rw_list[i] = t /\ MayHave(rw_list, i)
  <2>1. t \in Range(rw_list)
    BY <1>1 DEF RwListed, Leaving, SigPlaces
  <2>2. PICK i \in 1..Len(rw_list) : rw_list[i] = t
    BY <1>0, <2>1 DEF Range
  <2>3. ~Pending(t)
    BY <1>1 DEF Pending, CondInv, Called
  <2>4. ~Ungranted(t)
    BY <1>1, <2>3, OwnWaiter DEF Ungranted
  <2> QED BY <2>2, <2>4 DEF RwGranted
<1>2. WriterAlone
  <2> SUFFICES ASSUME NEW t \in Threads, NEW u \in Threads, at[t] = "rw_in",
                      rw_lock_type[t] = "WRITE", at[u] = "rw_in"
               PROVE  t = u
    BY DEF WriterAlone
  <2>1. PICK i \in 1..Len(rw_list) : rw_list[i] = t /\ MayHave(rw_list, i)
    BY <1>1
  <2>2. PICK k \in 1..Len(rw_list) : rw_list[k] = u /\ MayHave(rw_list, k)
    BY <1>1
  <2>3. Types[t] = "WRITE"
    BY DEF Types, Downgrading, SigPlaces
  <2>4. Types[rw_list[1]] = "WRITE"
    BY <1>0, <2>1, <2>3 DEF MayHave, MayHaveIn
  <2> QED BY <2>1, <2>2, <2>4 DEF MayHave, MayHaveIn
<1>3. GrantedPrefix
  <2> SUFFICES ASSUME held[RwLock] = NoThread, NEW i \in 1..Len(rw_list)
               PROVE  waiting[rw_list[i]] = <<>> <=>
                        IF rw_lock_type[Head(rw_list)] = "WRITE" THEN i = 1
                        ELSE i <= Len(Readers(rw_list))
    BY <1>0 DEF GrantedPrefix
  <2>1. \A h \in Threads : at[h] \notin RwHold \cup Inside
    BY NobodyInside
  <2>2. \A h \in Threads : \A x : ~ToSignal(h, x)
    BY <2>1 DEF ToSignal, Signalling, RwHold, Inside, Guarded, SigPlaces, RwPlaces
  <2>a. \A h \in Threads : ~Downgrading(h)
    BY <2>1 DEF Downgrading, RwHold, Inside, Guarded, SigPlaces, RwPlaces
  <2>3. waiting[rw_list[i]] = <<>> <=> MayHaveIn(rw_lock_type, rw_list, i)
    <3>1. waiting[rw_list[i]] = <<>> <=> MayHave(rw_list, i)
      BY <1>0, <2>1, <2>2 DEF RwGranted, Ungranted, Inside
    <3> QED BY <2>a, <3>1, TypesAre
  <2>4. Head(rw_list) = rw_list[1] /\ rw_list[1] \in Threads
    BY <1>0
  <2>5. CASE rw_lock_type[rw_list[1]] = "WRITE"
    BY <2>3, <2>4, <2>5 DEF MayHaveIn
  <2>6. CASE rw_lock_type[rw_list[1]] # "WRITE"
    <3>1. PICK n \in 0..Len(rw_list) :
            /\ n = Len(Readers(rw_list))
            /\ \A j \in 1..n : rw_lock_type[rw_list[j]] = "READ"
            /\ n < Len(rw_list) => rw_lock_type[rw_list[n + 1]] = "WRITE"
      BY <1>0, ReadersProperties
    <3>2. (\A j \in 1..i : rw_lock_type[rw_list[j]] = "READ") <=> i <= n
      <4>1. CASE i <= n
        BY <1>0, <3>1, <4>1
      <4>2. CASE i > n
        <5>1. n + 1 \in 1..i /\ rw_lock_type[rw_list[n + 1]] = "WRITE"
          BY <1>0, <3>1, <4>2
        <5> QED BY <1>0, <4>2, <5>1
      <4> QED BY <1>0, <4>1, <4>2
    <3> QED BY <2>3, <2>4, <2>6, <3>1, <3>2 DEF MayHaveIn
  <2> QED BY <2>5, <2>6
<1> QED BY <1>2, <1>3

-----------------------------------------------------------------------------
(***************************************************************************)
(* Programs that create and join threads.                                  *)
(***************************************************************************)
ThrPlaces == {"none", "failed", "user", "tc_fork", "tc_store", "wrap", "lost",
              "tj_check", "te_task", "te_unlock", "te_vanish", "te_spin", "gone"}
ThrHold   == {"tc_fork", "tc_store", "tj_check", "te_unlock", "te_spin"}

\* A thread that runs, and one that has called thr_exit and is not the last.
Live    == WaitPlaces \cup {"user", "tc_fork", "tc_store", "wrap", "tj_check"}
Exiting == SigPlaces \cup {"te_unlock", "te_vanish"}

\* The places of a program of threads are its own.
LEMMA ThrSets ==
  /\ ChainLock \in Mutexes /\ Threads \subseteq Conds
  /\ ThrHold \in SUBSET ThrPlaces /\ ThrPlaces \cap CallPlaces = {}
BY ThreadLibAssumption DEF ThrPlaces, ThrHold, CallPlaces, WaitPlaces, SigPlaces

ThrType ==
  /\ thread_info_chain \subseteq Threads /\ has_exited \subseteq Threads
  /\ DOMAIN target = Threads /\ DOMAIN node = Threads

\* A joining thread waits on the record of its target, an exiting one signals
\* its own.
ThrFrames ==
  \A t \in Threads :
    /\ at[t] \in WaitPlaces =>
         frame[t].cv = target[t] /\ frame[t].back = "tj_check"
    /\ at[t] \in SigPlaces => frame[t].cv = t /\ frame[t].back = "te_unlock"

\* thr_create is about a thread that has a record and does not run before
\* thread_fork.
ThrTargets ==
  \A t \in Threads :
    /\ at[t] \in {"tc_fork", "tc_store"} => target[t] \in Threads \ {t}
    /\ at[t] = "tc_fork" =>
         at[target[t]] = "none" /\ target[t] \in thread_info_chain

ThrExited ==
  \A t \in Threads :
    /\ t \in has_exited => at[t] \in Exiting \cup {"gone"}
    /\ at[t] \in Exiting => t \in has_exited

\* A thread calls task_vanish.
Ending == \E t \in Threads : at[t] = "te_task"

\* t is the thread that thr_create is about, from place p on.
Created(t, p) == \E s \in Threads : at[s] = p /\ target[s] = t

\* A thread that joins another one.
Joining(t) == at[t] \in WaitPlaces \cup {"tj_check"}

\* Nobody ends the process, and no thr_join overtook another.
Orderly == ~crashed /\ ~overtaken /\ ~ended /\ ~Ending

\* The records: of every thread that runs, while nobody ends the process, with
\* its tid, unless its creator still has the lock; and of no other threads
\* but those that have exited, failed to start or are being created.  A node
\* has one record, and a joining thread has the node of its target.
ThrRecords ==
  /\ Orderly =>
       \A t \in Threads :
         /\ at[t] \in Live => t \in thread_info_chain
         /\ Joining(t) => target[t] \in thread_info_chain
  /\ \A u, v \in thread_info_chain : node[u] = node[v] => u = v
  /\ \A t \in Threads :
       at[t] = "wrap" => t \in tid_known \/ Created(t, "tc_store")
  /\ \A t \in thread_info_chain \ has_exited :
       \/ at[t] \in Live \cup {"failed", "te_task", "lost", "te_spin"}
       \/ Created(t, "tc_fork") \/ ended

\* The end of the process.
ThrEnds ==
  /\ ~crashed /\ ~overtaken =>
       /\ \A t \in Threads : at[t] # "lost"
       /\ \A t \in Threads : at[t] = "te_task" =>
            \A u \in Threads \ {t} :
              at[u] \in Exiting \cup {"none", "failed", "gone"}
  /\ crashed /\ ~ended => Ending
  /\ ended => \A t \in Threads : at[t] = "gone"
  /\ ~ended => \E t \in Threads :
                 at[t] \in Live \cup {"failed", "te_task", "lost", "te_spin"}

\* Joining threads: each has a target of its own, which had not exited when
\* the thread put itself in the list.
ThrJoined ==
  \A t \in Threads : Joining(t) =>
    /\ target[t] \in Threads /\ target[t] \in is_joined_on
    /\ at[t] \in {"cw_enqueue", "cw_unlock"} => target[t] \notin has_exited
    /\ \A u \in Threads : Joining(u) /\ target[u] = target[t] => u = t

ThrNoticed == \A u \in has_exited : waiting[u] # <<>> => at[u] = "cs_take"

ThrAll ==
  /\ ThrType /\ ThrFrames /\ ThrTargets /\ ThrExited
  /\ ThrRecords /\ ThrEnds /\ ThrJoined /\ ThrNoticed

ThrInv == use = "thr" => Guarded(ChainLock, ThrPlaces, ThrHold) /\ ThrAll

\* What a step of thread.c other than task_vanish does with places.
LEMMA ThrStepMoves ==
  ASSUME CondInv, ThrAll, NEW t \in Threads, ThrStep(t), ~TaskVanish(t)
  PROVE  /\ at[t] \in ThrPlaces /\ Aside
         /\ Moves(t, ChainLock, ThrPlaces, ThrHold)
<1>1. at[t] \in ThrPlaces /\ UNCHANGED <<waiting, asleep, waking>>
  BY DEF ThrStep, ThrCreate, ThrJoin, ThreadFork, ThreadForkFails, ThrCreateDone,
         WrapFunc, ThrJoinCheck, ThrExitLast, ThrExit, ThrExitUnknown, Spin,
         ThrExitUnlock, Vanish, Crash, Here, ThrPlaces, calls, cvars
<1>2. /\ DOMAIN at' = Threads /\ DOMAIN frame' = Threads
      /\ held' \in [Mutexes -> Threads \cup {NoThread}]
      /\ Moves(t, ChainLock, ThrPlaces, ThrHold)
      /\ at'[t] \in {"cw_enqueue", "cs_take"} => frame'[t].cv \in Conds
  <2> USE ThrSets DEF ThrPlaces, ThrHold, Moves, Inside, calls
  <2>1. ASSUME NEW u \in Threads, ThrCreate(t, u) PROVE <1>2
    BY <2>1, CallEffects DEF ThrCreate
  <2>2. ASSUME NEW u \in Threads, ThrJoin(t, u) PROVE <1>2
    <3>1. \/ at[t] = "user" /\ UNCHANGED <<held, at, frame>>
          \/ Take(t, ChainLock) /\ CallWait(t, u, ChainLock, "tj_check")
      BY <2>2 DEF ThrJoin, Here
    <3>2. CASE at[t] = "user" /\ UNCHANGED <<held, at, frame>>
      BY <3>2 DEF CondInv, CondType
    <3>3. CASE Take(t, ChainLock) /\ CallWait(t, u, ChainLock, "tj_check")
      BY <3>3, CallEffects
    <3> QED BY <3>1, <3>2, <3>3
  <2>3. CASE ThreadFork(t) \/ ThreadForkFails(t)
    <3>1. /\ at[t] = "tc_fork" /\ target[t] \in Threads \ {t}
          /\ at[target[t]] = "none"
      BY <2>3 DEF ThreadFork, ThreadForkFails, Here, ThrAll, ThrTargets
    <3>2. /\ UNCHANGED frame
          /\ \/ /\ at' = [at EXCEPT ![t] = "tc_store", ![target[t]] = "wrap"]
                /\ UNCHANGED held
             \/ /\ at' = [at EXCEPT ![t] = "user", ![target[t]] = "failed"]
                /\ Drop(ChainLock)
      BY <2>3 DEF ThreadFork, ThreadForkFails
    <3>3. /\ DOMAIN at' = Threads /\ DOMAIN frame' = Threads
          /\ \A u \in Threads \ {t, target[t]} : at'[u] = at[u]
          /\ \/ at'[t] = "tc_store" /\ at'[target[t]] = "wrap" /\ UNCHANGED held
             \/ at'[t] = "user" /\ at'[target[t]] = "failed" /\ Drop(ChainLock)
      BY <3>1, <3>2 DEF CondInv, CondType
    <3>4. held' \in [Mutexes -> Threads \cup {NoThread}]
      BY <3>3, CallEffects
    <3>5. at[target[t]] \notin ThrHold \cup CallPlaces
      BY <3>1 DEF CallPlaces, WaitPlaces, SigPlaces
    <3>6. Moves(t, ChainLock, ThrPlaces, ThrHold)
      BY <3>1, <3>2, <3>3, <3>5, CallEffects
    <3> QED BY <3>3, <3>4, <3>6
  <2>4. CASE ThrCreateDone(t)
    BY <2>4, CallEffects DEF ThrCreateDone, Here
  <2>5. CASE WrapFunc(t)
    <3>1. /\ UNCHANGED <<held, frame>>
          /\ \E p \in {"user", "lost"} : Goto(t, p)
      BY <2>5 DEF WrapFunc
    <3> QED BY <3>1, CallEffects
  <2>6. CASE ThrJoinCheck(t)
    <3>1. /\ at[t] = "tj_check"
          /\ \/ UNCHANGED frame /\ Drop(ChainLock) /\ Goto(t, "user")
             \/ UNCHANGED held /\ CallWait(t, target[t], ChainLock, "tj_check")
      BY <2>6 DEF ThrJoinCheck, Here
    <3>2. target[t] \in Conds
      BY <3>1 DEF ThrAll, ThrJoined, Joining
    <3> QED BY <3>1, <3>2, CallEffects
  <2>7. CASE ThrExitLast(t)
    BY <2>7, CallEffects DEF ThrExitLast
  <2>8. CASE ThrExit(t)
    <3>1. /\ Take(t, ChainLock)
          /\ \/ CallSignal(t, "cs_take", t, "te_unlock")
             \/ Goto(t, "te_unlock") /\ UNCHANGED frame
      BY <2>8 DEF ThrExit
    <3> QED BY <3>1, CallEffects
  <2>9. CASE ThrExitUnlock(t)
    BY <2>9, CallEffects DEF ThrExitUnlock, Here
  <2>10. CASE Vanish(t)
    BY <2>10, CallEffects DEF Vanish, Here
  <2>11. CASE Crash(t)
    BY <2>11, CallEffects DEF Crash, Here
  <2>12. CASE ThrExitUnknown(t)
    BY <2>12, CallEffects DEF ThrExitUnknown
  <2>13. CASE Spin(t)
    BY <2>13 DEF Spin, Here, cvars, CondInv, CondType
  <2> QED BY <2>1, <2>2, <2>3, <2>4, <2>5, <2>6, <2>7, <2>8, <2>9, <2>10, <2>11,
             <2>12, <2>13 DEF ThrStep
<1> QED BY <1>1, <1>2, ThrSets, MovesAside

\* thr_create: a new record.
LEMMA ThrCreateKeeps ==
  ASSUME CondInv, Guarded(ChainLock, ThrPlaces, ThrHold), ThrAll,
         NEW t \in Threads, NEW u \in Threads, ThrCreate(t, u)
  PROVE  ThrAll'
<1>1. /\ at[t] = "user" /\ at[u] = "none" /\ u # t
      /\ at'[t] = "tc_fork" /\ \A v \in Threads \ {t} : at'[v] = at[v]
      /\ DOMAIN target' = Threads /\ target'[t] = u
      /\ \A v \in Threads \ {t} : target'[v] = target[v]
      /\ thread_info_chain' = thread_info_chain \cup {u}
      /\ DOMAIN node' = Threads /\ \A v \in Threads \ {u} : node'[v] = node[v]
      /\ \A v \in thread_info_chain : node'[u] # node[v]
      /\ UNCHANGED <<waiting, frame, tid_known, is_joined_on, has_exited, overtaken,
                     crashed, ended>>
  <2>1. PICK b \in FreeNodes(u) : node' = [node EXCEPT ![u] = b]
    BY DEF ThrCreate
  <2>2. \A v \in thread_info_chain : b # node[v]
    BY DEF FreeNodes
  <2> QED BY <2>1, <2>2, CallEffects DEF ThrCreate, Here, calls, ThrAll, ThrType
<1> USE <1>1 DEF ThrAll
<1>2. ThrType' /\ ThrFrames'
  BY DEF ThrType, ThrFrames, WaitPlaces, SigPlaces
<1>3. ThrTargets'
  BY DEF ThrTargets
<1>4. ThrExited'
  BY DEF ThrExited, Exiting, SigPlaces
<1>5. ThrRecords'
  <2>1. ~Ending' => ~Ending
    BY DEF Ending
  <2>2. \A v \in Threads : Created(v, "tc_store") => Created(v, "tc_store")'
    BY DEF Created
  <2>3. \A v \in Threads : Created(v, "tc_fork") => Created(v, "tc_fork")'
    BY DEF Created
  <2>4. Created(u, "tc_fork")'
    BY DEF Created
  <2> USE DEF ThrRecords, ThrType
  <2>5. Orderly' =>
          \A v \in Threads :
            /\ at'[v] \in Live => v \in thread_info_chain'
            /\ Joining(v)' => target'[v] \in thread_info_chain'
    BY <2>1 DEF Live, Orderly, Joining, WaitPlaces
  <2>8. \A v, w \in thread_info_chain' : node'[v] = node'[w] => v = w
    <3>1. \A v \in thread_info_chain : v # u => node'[v] = node[v]
      OBVIOUS
    <3> QED BY <3>1
  <2>6. \A v \in Threads :
          at'[v] = "wrap" => v \in tid_known' \/ Created(v, "tc_store")'
    BY <2>2
  <2>7. \A v \in thread_info_chain' \ has_exited' :
          \/ at'[v] \in Live \cup {"failed", "te_task", "lost", "te_spin"}
          \/ Created(v, "tc_fork")' \/ ended'
    BY <2>3, <2>4 DEF Live
  <2> QED BY <2>5, <2>6, <2>7, <2>8
<1>6. ThrEnds'
  BY DEF ThrEnds, Ending, Live, WaitPlaces, Exiting, SigPlaces
<1>7. ThrJoined'
  BY DEF ThrJoined, Joining, WaitPlaces
<1>8. ThrNoticed'
  BY DEF ThrNoticed, ThrType
<1> QED BY <1>2, <1>3, <1>4, <1>5, <1>6, <1>7, <1>8

\* thr_join: a record goes, or the caller is the one that joins on it.
LEMMA ThrJoinKeeps ==
  ASSUME CondInv, Guarded(ChainLock, ThrPlaces, ThrHold), ThrAll,
         NEW t \in Threads, NEW u \in Threads, ThrJoin(t, u)
  PROVE  ThrAll'
<1> USE DEF ThrAll
<1>1. /\ at[t] = "user" /\ u \in thread_info_chain
      /\ UNCHANGED <<waiting, node, tid_known, has_exited, crashed, ended>>
  BY DEF ThrJoin, Here, calls
<1>2. ASSUME u \in has_exited, Cleanup(u), overtaken' = (overtaken \/ u \in is_joined_on),
             UNCHANGED <<frame, at, is_joined_on, target>>
      PROVE  ThrAll'
  <2>1. thread_info_chain' = thread_info_chain \ {u} /\ at[u] \in Exiting \cup {"gone"}
    BY <1>1, <1>2 DEF Cleanup, ThrExited, ThrRecords
  <2>2. ThrRecords'
    <3>1. \A v, p : Created(v, p)' <=> Created(v, p)
      BY <1>2 DEF Created
    <3>2. Ending' <=> Ending
      BY <1>2 DEF Ending
    <3>3. at[u] \notin Live
      BY <2>1 DEF Live, Exiting, SigPlaces, WaitPlaces
    <3>4. ~overtaken' => ~overtaken /\ u \notin is_joined_on
      BY <1>2
    <3>5. \A v \in Threads : Joining(v) /\ ~overtaken' => target[v] # u
      BY <3>4 DEF ThrJoined
    <3>6. \A v \in Threads : Joining(v)' <=> Joining(v)
      BY <1>2 DEF Joining
    <3>7. Orderly' => Orderly
      BY <1>1, <3>2, <3>4 DEF Orderly
    <3>8. Orderly' => ~overtaken'
      BY DEF Orderly
    <3> QED BY <1>1, <1>2, <2>1, <3>1, <3>3, <3>5, <3>6, <3>7, <3>8 DEF ThrRecords
  <2>3. ThrTargets'
    BY <1>1, <1>2, <2>1 DEF ThrTargets, Exiting, SigPlaces
  <2>4. ThrType' /\ ThrFrames' /\ ThrExited' /\ ThrJoined' /\ ThrNoticed'
    BY <1>1, <1>2, <2>1 DEF ThrType, ThrFrames, ThrExited, ThrJoined, Joining, ThrNoticed
  <2>5. ThrEnds'
    <3>1. ~overtaken' => ~overtaken
      BY <1>2
    <3> QED BY <1>1, <1>2, <3>1 DEF ThrEnds, Ending
  <2> QED BY <2>2, <2>3, <2>4, <2>5
<1>3. ASSUME u \notin has_exited \cup is_joined_on, is_joined_on' = is_joined_on \cup {u},
             target' = [target EXCEPT ![t] = u], CallWait(t, u, ChainLock, "tj_check"),
             UNCHANGED <<thread_info_chain, overtaken>>
      PROVE  ThrAll'
  <2>1. /\ at'[t] = "cw_enqueue" /\ frame'[t].cv = u /\ frame'[t].back = "tj_check"
        /\ \A v \in Threads \ {t} : at'[v] = at[v] /\ frame'[v] = frame[v]
        /\ DOMAIN target' = Threads /\ target'[t] = u
        /\ \A v \in Threads \ {t} : target'[v] = target[v]
    BY <1>3, CallEffects DEF ThrType
  <2> USE <1>1, <1>3, <2>1
  <2>2. ThrType' /\ ThrFrames'
    BY DEF ThrType, ThrFrames, WaitPlaces, SigPlaces
  <2>3. ThrTargets'
    BY DEF ThrTargets
  <2>4. ThrExited'
    BY DEF ThrExited, Exiting, SigPlaces
  <2>5. ThrRecords'
    <3>1. ~Ending' => ~Ending
      BY DEF Ending
    <3>2. \A v \in Threads, p \in {"tc_fork", "tc_store"} : Created(v, p) => Created(v, p)'
      BY DEF Created
    <3> QED BY <3>1, <3>2 DEF ThrRecords, ThrType, Live, WaitPlaces, Orderly, Joining
  <2>6. ThrEnds'
    BY DEF ThrEnds, Ending, Live, WaitPlaces, Exiting, SigPlaces
  <2>7. ThrJoined'
    BY DEF ThrJoined, Joining, WaitPlaces
  <2>8. ThrNoticed'
    BY DEF ThrNoticed, ThrType
  <2> QED BY <2>2, <2>3, <2>4, <2>5, <2>6, <2>7, <2>8
<1> QED BY <1>2, <1>3 DEF ThrJoin, calls

\* thread_fork: with its creator in the lock, the new thread is at its start.
LEMMA ThreadForkKeeps ==
  ASSUME CondInv, Guarded(ChainLock, ThrPlaces, ThrHold), ThrAll,
         NEW t \in Threads, ThreadFork(t) \/ ThreadForkFails(t)
  PROVE  ThrAll'
<1> USE DEF ThrAll
<1>1. /\ at[t] = "tc_fork" /\ target[t] \in Threads \ {t}
      /\ at[target[t]] = "none" /\ target[t] \in thread_info_chain
  BY DEF ThreadFork, ThreadForkFails, Here, ThrTargets
<1>2. /\ UNCHANGED <<waiting, frame, thread_info_chain, node, tid_known, is_joined_on,
                     has_exited, overtaken, crashed, ended>>
      /\ \A v \in Threads \ {t, target[t]} : at'[v] = at[v]
      /\ \A v \in Threads \ {t} : target'[v] = target[v]
      /\ DOMAIN target' = Threads
      /\ \/ at'[t] = "tc_store" /\ at'[target[t]] = "wrap" /\ target'[t] = target[t]
         \/ at'[t] = "user" /\ at'[target[t]] = "failed"
  <2>1. CASE ThreadFork(t)
    BY <1>1, <2>1 DEF ThreadFork, calls, tvars, CondInv, CondType, ThrType
  <2>2. CASE ThreadForkFails(t)
    BY <1>1, <2>2 DEF ThreadForkFails, calls, CondInv, CondType, ThrType
  <2> QED BY <2>1, <2>2
<1>3. \A s \in Threads : at[s] \in {"tc_fork", "tc_store"} => s = t
  BY <1>1 DEF Guarded, ThrHold
<1> USE <1>1, <1>2
<1>4. ThrType' /\ ThrFrames'
  BY DEF ThrType, ThrFrames, WaitPlaces, SigPlaces
<1>5. ThrTargets'
  BY <1>3 DEF ThrTargets
<1>6. ThrExited'
  BY DEF ThrExited, Exiting, SigPlaces
<1>7. ThrRecords'
  <2>1. ~Ending' => ~Ending
    BY DEF Ending
  <2>2. \A v \in Threads : Created(v, "tc_fork") => v = target[t]
    BY <1>3 DEF Created
  <2>3. at'[target[t]] = "wrap" => Created(target[t], "tc_store")'
    BY DEF Created
  <2>4. \A v \in Threads : ~Created(v, "tc_store")
    BY <1>3 DEF Created
  <2> QED BY <2>1, <2>2, <2>3, <2>4
          DEF ThrRecords, ThrType, Live, WaitPlaces, Orderly, Joining
<1>8. ThrEnds'
  BY DEF ThrEnds, Ending, Live, WaitPlaces, Exiting, SigPlaces
<1>9. ThrJoined'
  BY DEF ThrJoined, Joining, WaitPlaces
<1>10. ThrNoticed'
  <2>1. target[t] \notin has_exited /\ t \notin has_exited
    BY DEF ThrExited, Exiting, SigPlaces
  <2> QED BY <2>1 DEF ThrNoticed, ThrType
<1> QED BY <1>4, <1>5, <1>6, <1>7, <1>8, <1>9, <1>10

\* The tid is there before the lock is free.
LEMMA ThrCreateDoneKeeps ==
  ASSUME CondInv, Guarded(ChainLock, ThrPlaces, ThrHold), ThrAll,
         NEW t \in Threads, ThrCreateDone(t)
  PROVE  ThrAll'
<1> USE DEF ThrAll
<1>1. /\ at[t] = "tc_store" /\ tid_known' = tid_known \cup {target[t]}
      /\ UNCHANGED <<waiting, frame, thread_info_chain, node, is_joined_on,
                     has_exited, overtaken, crashed, ended>>
      /\ at'[t] = "user" /\ \A v \in Threads \ {t} : at'[v] = at[v]
      /\ DOMAIN target' = Threads
      /\ \A v \in Threads \ {t} : target'[v] = target[v]
  BY CallEffects DEF ThrCreateDone, Here, calls, ThrType
<1>2. \A s \in Threads : at[s] \in {"tc_fork", "tc_store"} => s = t
  BY <1>1 DEF Guarded, ThrHold
<1> USE <1>1
<1>4. ThrType' /\ ThrFrames'
  BY DEF ThrType, ThrFrames, WaitPlaces, SigPlaces
<1>5. ThrTargets'
  BY <1>2 DEF ThrTargets
<1>6. ThrExited'
  BY DEF ThrExited, Exiting, SigPlaces
<1>7. ThrRecords'
  <2>1. ~Ending' => ~Ending
    BY DEF Ending
  <2>2. \A v \in Threads : ~Created(v, "tc_fork")
    BY <1>2 DEF Created
  <2>3. \A v \in Threads : Created(v, "tc_store") => v \in tid_known'
    BY <1>2 DEF Created
  <2> QED BY <2>1, <2>2, <2>3 DEF ThrRecords, ThrType, Live, WaitPlaces, Orderly, Joining
<1>8. ThrEnds'
  BY DEF ThrEnds, Ending, Live, WaitPlaces, Exiting, SigPlaces
<1>9. ThrJoined'
  BY DEF ThrJoined, Joining, WaitPlaces
<1>10. ThrNoticed'
  BY DEF ThrNoticed, ThrType
<1> QED BY <1>4, <1>5, <1>6, <1>7, <1>8, <1>9, <1>10

\* A new thread finds its record.
LEMMA WrapFuncKeeps ==
  ASSUME CondInv, Guarded(ChainLock, ThrPlaces, ThrHold), ThrAll,
         NEW t \in Threads, WrapFunc(t)
  PROVE  ThrAll'
<1> USE DEF ThrAll
<1>1. /\ at[t] = "wrap" /\ held[ChainLock] = NoThread /\ UNCHANGED <<waiting, frame, tvars>>
      /\ \A v \in Threads \ {t} : at'[v] = at[v]
      /\ at'[t] = IF t \in thread_info_chain /\ t \in tid_known THEN "user" ELSE "lost"
  BY CallEffects DEF WrapFunc, Here, calls
<1>2. UNCHANGED tvars
  BY <1>1
<1>3. \A v \in Threads : at[v] \notin {"tc_fork", "tc_store"}
  BY <1>1, CondAssumption DEF Guarded, ThrHold
<1>4. t \in tid_known
  BY <1>1, <1>3 DEF ThrRecords, Created
<1>5. ~ended /\ (Orderly => t \in thread_info_chain)
  BY <1>1 DEF ThrRecords, ThrEnds, Live
<1>6. ~crashed /\ ~overtaken => ~Ending
  BY <1>1 DEF ThrEnds, Ending, Exiting, SigPlaces
<1>7. crashed => Ending
  BY <1>5 DEF ThrEnds
<1>8. at'[t] \in {"user", "lost"} /\ (~crashed /\ ~overtaken => at'[t] = "user")
  BY <1>1, <1>4, <1>5, <1>6 DEF Orderly
<1> HIDE <1>1
<1>9. /\ at[t] = "wrap" /\ UNCHANGED <<waiting, frame>>
      /\ \A v \in Threads \ {t} : at'[v] = at[v]
  BY <1>1
<1>10. t \notin has_exited
  BY <1>9 DEF ThrExited, Exiting, SigPlaces
<1>20. Ending' <=> Ending
  BY <1>8, <1>9 DEF Ending
<1> USE <1>2, <1>8, <1>9 DEF tvars
<1>11. ThrType' /\ ThrFrames' /\ ThrTargets'
  BY <1>3 DEF ThrType, ThrFrames, ThrTargets, WaitPlaces, SigPlaces
<1>12. ThrExited'
  BY <1>10 DEF ThrExited, Exiting, SigPlaces
<1>13. ThrRecords'
  <2>1. \A v \in Threads : ~Created(v, "tc_fork") /\ ~Created(v, "tc_store")
    BY <1>3 DEF Created
  <2>2. Orderly' <=> Orderly
    BY <1>20 DEF Orderly
  <2>3. Orderly => at'[t] = "user"
    BY DEF Orderly
  <2> QED BY <2>1, <2>2, <2>3 DEF ThrRecords, ThrType, Live, WaitPlaces, Joining
<1>14. ThrEnds'
  <2>1. ~crashed' /\ ~overtaken' => /\ \A v \in Threads : at'[v] # "lost"
                                    /\ \A v \in Threads : at'[v] # "te_task"
    BY <1>6 DEF ThrEnds, Ending
  <2>2. at'[t] \in Live \cup {"failed", "te_task", "lost", "te_spin"}
    BY DEF Live
  <2> QED BY <1>5, <1>7, <1>20, <2>1, <2>2 DEF ThrEnds
<1>15. ThrJoined'
  BY DEF ThrJoined, Joining, WaitPlaces
<1>16. ThrNoticed'
  BY <1>10 DEF ThrNoticed, ThrType
<1> QED BY <1>11, <1>12, <1>13, <1>14, <1>15, <1>16

\* thr_join is over, or waits again.
LEMMA ThrJoinCheckKeeps ==
  ASSUME CondInv, Guarded(ChainLock, ThrPlaces, ThrHold), ThrAll,
         NEW t \in Threads, ThrJoinCheck(t)
  PROVE  ThrAll'
<1> USE DEF ThrAll
<1>1. /\ at[t] = "tj_check"
      /\ UNCHANGED <<waiting, node, tid_known, is_joined_on, has_exited, overtaken,
                     crashed, ended>>
      /\ target[t] \in Threads /\ target[t] \in is_joined_on
  BY DEF ThrJoinCheck, Here, calls, ThrJoined, Joining
<1>2. /\ \A v \in Threads \ {t} : at'[v] = at[v] /\ frame'[v] = frame[v] /\ target'[v] = target[v]
      /\ DOMAIN target' = Threads
      /\ \/ /\ target[t] \in has_exited /\ at'[t] = "user"
            /\ thread_info_chain' = {v \in thread_info_chain : node[v] # node[target[t]]}
         \/ /\ target[t] \notin has_exited /\ at'[t] = "cw_enqueue"
            /\ frame'[t].cv = target[t] /\ frame'[t].back = "tj_check"
            /\ thread_info_chain' = thread_info_chain /\ target' = target
  BY CallEffects DEF ThrJoinCheck, calls, ThrType, Cleanup
<1>3. \A s \in Threads : at[s] \notin {"tc_fork", "tc_store"}
  BY <1>1 DEF Guarded, ThrHold
<1>10. t \notin has_exited
  BY <1>1 DEF ThrExited, Exiting, SigPlaces
<1> USE <1>1, <1>2
<1>4. ThrType' /\ ThrFrames' /\ ThrTargets'
  BY <1>3 DEF ThrType, ThrFrames, ThrTargets, WaitPlaces, SigPlaces
<1>5. ThrExited'
  BY DEF ThrExited, Exiting, SigPlaces
<1>6. ThrRecords'
  <2>1. ~Ending' => ~Ending
    BY DEF Ending
  <2>2. \A v \in Threads : ~Created(v, "tc_fork") /\ ~Created(v, "tc_store")
    BY <1>3 DEF Created
  <2>3. \A v \in has_exited : at[v] \notin Live
    BY DEF ThrExited, ThrType, Live, Exiting, SigPlaces, WaitPlaces
  <2>4. Orderly' => Orderly
    BY <2>1 DEF Orderly
  <2>5. Joining(t) /\ \A v \in Threads \ {t} : Joining(v) => target[v] # target[t]
    BY DEF ThrJoined, Joining
  <2>6. Orderly /\ target[t] \in has_exited =>
          thread_info_chain' = thread_info_chain \ {target[t]}
    <3>1. Orderly => target[t] \in thread_info_chain
      BY <2>5 DEF ThrRecords
    <3> QED BY <3>1 DEF ThrRecords
  <2>7. Orderly' => \A v \in Threads :
          /\ at'[v] \in Live => v \in thread_info_chain'
          /\ Joining(v)' => target'[v] \in thread_info_chain'
    <3>1. CASE target[t] \in has_exited
      BY <1>10, <2>3, <2>4, <2>5, <2>6, <3>1 DEF ThrRecords, Live, WaitPlaces, Joining
    <3>2. CASE target[t] \notin has_exited
      BY <2>4, <2>5, <3>2 DEF ThrRecords, Live, WaitPlaces, Joining
    <3> QED BY <3>1, <3>2
  <2>8. thread_info_chain' \subseteq thread_info_chain
    OBVIOUS
  <2> QED BY <1>10, <2>1, <2>2, <2>3, <2>7, <2>8 DEF ThrRecords, ThrType, Live, WaitPlaces
<1>7. ThrEnds'
  BY DEF ThrEnds, Ending, Live, WaitPlaces, Exiting, SigPlaces
<1>8. ThrJoined'
  BY DEF ThrJoined, Joining, WaitPlaces
<1>9. ThrNoticed'
  BY <1>10 DEF ThrNoticed, ThrType
<1> QED BY <1>4, <1>5, <1>6, <1>7, <1>8, <1>9

\* The last thread ends the process: no other runs.
LEMMA ThrExitLastKeeps ==
  ASSUME CondInv, Guarded(ChainLock, ThrPlaces, ThrHold), ThrAll,
         NEW t \in Threads, ThrExitLast(t) \/ Crash(t)
  PROVE  ThrAll'
<1> USE DEF ThrAll
<1>1. /\ at[t] = "user" /\ held[ChainLock] = NoThread /\ thread_info_chain' = {}
      /\ UNCHANGED <<waiting, frame, node, tid_known, is_joined_on, has_exited, target,
                     overtaken, ended>>
      /\ at'[t] = "te_task" /\ \A v \in Threads \ {t} : at'[v] = at[v]
      /\ (AliveCount <= 1 /\ crashed' = crashed) \/ crashed' = TRUE
  BY CallEffects DEF ThrExitLast, Crash, Here, calls
<1>2. \A v \in Threads : at[v] \notin {"tc_fork", "tc_store", "tj_check", "te_spin"} \cup Inside
  BY <1>1, CondAssumption DEF Guarded, ThrHold
<1>3. t \notin has_exited /\ ~ended
  BY <1>1 DEF ThrExited, ThrEnds, Exiting, SigPlaces
<1>4. ASSUME ~crashed', ~overtaken', NEW u \in Threads \ {t}
      PROVE  at[u] \in Exiting \cup {"none", "failed", "gone"}
  <2>1. ~crashed /\ ~overtaken /\ AliveCount <= 1
    BY <1>1, <1>4
  <2>2. ~Ending
    BY <1>1, <2>1 DEF ThrEnds, Ending, Exiting, SigPlaces
  <2>3. ASSUME at[u] \in Live
        PROVE  FALSE
    <3>1. {t, u} \subseteq thread_info_chain \ has_exited
      BY <1>1, <1>3, <2>1, <2>2, <2>3
         DEF ThrRecords, Orderly, ThrExited, Live, Exiting, SigPlaces, WaitPlaces
    <3>2. IsFiniteSet(thread_info_chain \ has_exited)
      BY ThreadSetsFinite DEF ThrType
    <3>3. Cardinality({t, u}) = 2
      <4>1. IsFiniteSet({t}) /\ Cardinality({t}) = 1 /\ u \notin {t} /\ {t, u} = {t} \cup {u}
        BY <1>4, FS_Singleton
      <4> QED BY <4>1, FS_AddElement
    <3>4. Cardinality({t, u}) <= Cardinality(thread_info_chain \ has_exited)
      BY <3>1, <3>2, FS_Subset
    <3>5. Cardinality(thread_info_chain \ has_exited) \in Nat
      BY <3>2, FS_CardinalityType
    <3> QED BY <2>1, <3>3, <3>4, <3>5 DEF AliveCount
  <2>4. at[u] # "lost" /\ at[u] # "te_task"
    BY <2>1, <2>2 DEF ThrEnds, Ending
  <2>5. at[u] \in ThrPlaces \cup CallPlaces
    BY DEF Guarded
  <2> QED BY <1>2, <2>3, <2>4, <2>5 DEF ThrPlaces, CallPlaces, Live, Exiting
<1> USE <1>1
<1>5. ThrType' /\ ThrFrames' /\ ThrTargets'
  BY <1>2 DEF ThrType, ThrFrames, ThrTargets, WaitPlaces, SigPlaces
<1>6. ThrExited'
  BY DEF ThrExited, Exiting, SigPlaces
<1>7. ThrRecords'
  <2>1. Ending'
    BY DEF Ending
  <2>2. \A v \in Threads : ~Created(v, "tc_store")
    BY <1>2 DEF Created
  <2> QED BY <2>1, <2>2 DEF ThrRecords, Orderly
<1>8. ThrEnds'
  <2>1. Ending'
    BY DEF Ending
  <2>2. ~crashed' /\ ~overtaken' => \A v \in Threads : at'[v] # "lost"
    BY DEF ThrEnds
  <2>3. ASSUME ~crashed', ~overtaken', NEW v \in Threads, at'[v] = "te_task", NEW u \in Threads \ {v}
        PROVE  at'[u] \in Exiting \cup {"none", "failed", "gone"}
    <3>1. v = t
      BY <1>4, <2>3 DEF Exiting, SigPlaces
    <3> QED BY <1>4, <2>3, <3>1
  <2> QED BY <1>3, <2>1, <2>2, <2>3 DEF ThrEnds
<1>9. ThrJoined'
  BY DEF ThrJoined, Joining, WaitPlaces
<1>10. ThrNoticed'
  BY <1>3 DEF ThrNoticed, ThrType
<1> QED BY <1>5, <1>6, <1>7, <1>8, <1>9, <1>10

\* Who is in the list of u joins u.
LEMMA ListedJoins ==
  ASSUME CondInv, ThrAll, NEW u \in Threads, NEW v \in Range(waiting[u])
  PROVE  v \in Threads /\ at[v] \in WaitPlaces /\ target[v] = u
<1>1. u \in Conds
  BY ThrSets
<1>2. v \in Threads /\ Pending(v) /\ frame[v].cv = u
  BY <1>1, ListedThreads DEF CondInv, Listed
<1>3. at[v] \in WaitPlaces
  BY <1>2 DEF Pending, CondInv, Called, WaitPlaces
<1> QED BY <1>2, <1>3 DEF ThrAll, ThrFrames

\* Another thread is left, and the joining thread is signalled.
LEMMA ThrExitKeeps ==
  ASSUME CondInv, Guarded(ChainLock, ThrPlaces, ThrHold), ThrAll,
         NEW t \in Threads, ThrExit(t)
  PROVE  ThrAll'
<1> USE DEF ThrAll
<1>1. /\ at[t] = "user" /\ held[ChainLock] = NoThread /\ AliveCount > 1
      /\ UNCHANGED <<waiting, thread_info_chain, node, tid_known, is_joined_on, target,
                     overtaken, crashed, ended>>
      /\ has_exited' = has_exited \cup {t}
      /\ \A v \in Threads \ {t} : at'[v] = at[v] /\ frame'[v] = frame[v]
      /\ \/ at'[t] = "cs_take" /\ frame'[t].cv = t /\ frame'[t].back = "te_unlock"
         \/ at'[t] = "te_unlock" /\ t \notin is_joined_on
  BY CallEffects DEF ThrExit, Here, Take
<1>2. \A v \in Threads : at[v] \notin {"tc_fork", "tc_store", "tj_check"} \cup Inside
  BY <1>1, CondAssumption DEF Guarded, ThrHold
<1>3. ~ended
  BY <1>1 DEF ThrEnds
<1>4. PICK w \in thread_info_chain \ has_exited : w # t
  <2>1. ~(thread_info_chain \ has_exited \subseteq {t})
    <3>1. SUFFICES ASSUME thread_info_chain \ has_exited \subseteq {t}
                   PROVE  FALSE
      OBVIOUS
    <3>2. Cardinality(thread_info_chain \ has_exited) <= Cardinality({t})
      BY <3>1, FS_Subset, FS_Singleton
    <3>3. Cardinality({t}) = 1
      BY FS_Singleton
    <3>4. Cardinality(thread_info_chain \ has_exited) \in Nat
      BY ThreadSetsFinite DEF ThrType
    <3> QED BY <1>1, <3>2, <3>3, <3>4 DEF AliveCount
  <2> QED BY <2>1
<1>5. w \in Threads /\ at[w] \in Live \cup {"failed", "te_task", "lost", "te_spin"}
  BY <1>2, <1>3 DEF ThrRecords, Created, ThrType
<1> USE <1>1
<1>6. ThrType' /\ ThrFrames' /\ ThrTargets'
  BY <1>2 DEF ThrType, ThrFrames, ThrTargets, WaitPlaces, SigPlaces
<1>7. ThrExited'
  BY DEF ThrExited, Exiting, SigPlaces
<1>8. ThrRecords'
  <2>1. ~Ending' => ~Ending
    BY DEF Ending
  <2>2. \A v \in Threads : ~Created(v, "tc_fork") /\ ~Created(v, "tc_store")
    BY <1>2 DEF Created
  <2> QED BY <2>1, <2>2 DEF ThrRecords, ThrType, Live, WaitPlaces, Orderly, Joining
<1>9. ThrEnds'
  <2>1. Ending => Ending'
    BY DEF Ending
  <2>2. ~crashed' /\ ~overtaken' => \A v \in Threads : at'[v] # "lost"
    BY DEF ThrEnds
  <2>3. ASSUME ~crashed', ~overtaken'
        PROVE  \A v \in Threads : at'[v] # "te_task"
    BY <2>3 DEF ThrEnds, Exiting, SigPlaces
  <2> QED BY <1>3, <1>4, <1>5, <2>1, <2>2, <2>3 DEF ThrEnds
<1>10. ThrJoined'
  BY <1>2 DEF ThrJoined, Joining, WaitPlaces, Inside
<1>11. ThrNoticed'
  <2>1. ASSUME at'[t] # "cs_take", waiting[t] # <<>>
        PROVE  FALSE
    <3>1. PICK v : v \in Range(waiting[t])
      BY <2>1, EmptyRange, ThrSets DEF CondInv, CondType
    <3> QED BY <2>1, <3>1, ListedJoins DEF ThrJoined, Joining
  <2> QED BY <2>1 DEF ThrNoticed, ThrType
<1> QED BY <1>6, <1>7, <1>8, <1>9, <1>10, <1>11

\* A thread that has lost its record is stuck with the lock.
LEMMA ThrUnknownKeeps ==
  ASSUME CondInv, Guarded(ChainLock, ThrPlaces, ThrHold), ThrAll,
         NEW t \in Threads, ThrExitUnknown(t) \/ Spin(t)
  PROVE  ThrAll'
<1> USE DEF ThrAll
<1>1. /\ UNCHANGED <<waiting, frame>> /\ UNCHANGED tvars
      /\ \A v \in Threads \ {t} : at'[v] = at[v]
      /\ at[t] \in {"user", "te_spin"} /\ at'[t] = "te_spin"
  BY CallEffects DEF ThrExitUnknown, Spin, Here, calls, cvars
<1>2. ~ended /\ (Ending' <=> Ending)
  BY <1>1 DEF Ending, ThrEnds
<1> USE <1>1 DEF tvars
<1>3. ThrType' /\ ThrFrames' /\ ThrTargets'
  BY DEF ThrType, ThrFrames, ThrTargets, WaitPlaces, SigPlaces
<1>4. ThrExited'
  BY DEF ThrExited, Exiting, SigPlaces
<1>5. ThrRecords'
  <2>1. \A v \in Threads, p \in {"tc_fork", "tc_store"} : Created(v, p) => Created(v, p)'
    BY DEF Created
  <2> QED BY <1>2, <2>1 DEF ThrRecords, ThrType, Live, WaitPlaces, Orderly, Joining
<1>6. ThrEnds'
  <2>1. ASSUME ~crashed', ~overtaken'
        PROVE  /\ \A v \in Threads : at'[v] # "lost"
               /\ \A v \in Threads : at'[v] # "te_task"
    BY <2>1 DEF ThrEnds, Exiting, SigPlaces
  <2> QED BY <1>2, <2>1 DEF ThrEnds
<1>7. ThrJoined'
  BY DEF ThrJoined, Joining, WaitPlaces
<1>8. ThrNoticed'
  <2>1. t \notin has_exited
    BY DEF ThrExited, Exiting, SigPlaces
  <2> QED BY <2>1 DEF ThrNoticed, ThrType
<1> QED BY <1>3, <1>4, <1>5, <1>6, <1>7, <1>8

\* On the way out.
LEMMA ThrOutKeeps ==
  ASSUME CondInv, Guarded(ChainLock, ThrPlaces, ThrHold), ThrAll,
         NEW t \in Threads, ThrExitUnlock(t) \/ Vanish(t)
  PROVE  ThrAll'
<1> USE DEF ThrAll
<1>1. /\ UNCHANGED <<waiting, frame>> /\ UNCHANGED tvars
      /\ \A v \in Threads \ {t} : at'[v] = at[v]
      /\ at[t] \in {"te_unlock", "te_vanish"} /\ at'[t] \in {"te_vanish", "gone"}
  BY CallEffects DEF ThrExitUnlock, Vanish, Here, calls
<1>2. t \in has_exited
  BY <1>1 DEF ThrExited, Exiting
<1>3. Ending' <=> Ending
  BY <1>1 DEF Ending
<1> USE <1>1 DEF tvars
<1>6. ThrType' /\ ThrFrames' /\ ThrTargets'
  BY DEF ThrType, ThrFrames, ThrTargets, WaitPlaces, SigPlaces
<1>7. ThrExited'
  BY <1>2 DEF ThrExited, Exiting, SigPlaces
<1>8. ThrRecords'
  <2>1. \A v \in Threads, p \in {"tc_fork", "tc_store"} : Created(v, p) => Created(v, p)'
    BY DEF Created
  <2> QED BY <1>2, <1>3, <2>1 DEF ThrRecords, ThrType, Live, WaitPlaces, Orderly, Joining
<1>9. ThrEnds'
  BY <1>3 DEF ThrEnds, Live, WaitPlaces, Exiting, SigPlaces
<1>10. ThrJoined'
  BY DEF ThrJoined, Joining, WaitPlaces
<1>11. ThrNoticed'
  BY DEF ThrNoticed, ThrType
<1> QED BY <1>6, <1>7, <1>8, <1>9, <1>10, <1>11

\* task_vanish: nothing is left.
LEMMA TaskVanishKeeps ==
  ASSUME CondInv, Guarded(ChainLock, ThrPlaces, ThrHold), ThrAll,
         NEW t \in Threads, TaskVanish(t)
  PROVE  CondInv' /\ Guarded(ChainLock, ThrPlaces, ThrHold)' /\ ThrAll'
<1>1. /\ DOMAIN at' = Threads /\ \A u \in Threads : at'[u] = "gone"
      /\ asleep' = {} /\ waking' = [u \in Threads |-> <<>>]
      /\ waiting' = [c \in Conds |-> <<>>] /\ DOMAIN frame' = Threads /\ ended'
      /\ UNCHANGED <<held, thread_info_chain, node, tid_known, is_joined_on, has_exited,
                     target, overtaken, crashed>>
  BY DEF TaskVanish
<1>2. CondInv'
  <2>1. CondType'
    BY <1>1 DEF CondInv, CondType
  <2>2. /\ \A c \in Conds : waiting'[c] = <<>> /\ Range(waiting'[c]) = {}
        /\ \A u \in Threads : waking'[u] = <<>> /\ Range(waking'[u]) = {}
    <3>1. <<>> \in Seq(Threads) /\ Range(<<>>) = {}
      BY DEF Range
    <3> QED BY <1>1, <3>1
  <2>3. IsInjective(<<>>)
    BY DEF IsInjective
  <2>4. Listed' /\ Woken'
    BY <2>2, <2>3 DEF Listed, Woken
  <2>5. Claimed' /\ Called'
    BY <1>1 DEF Claimed, Called, Pending, CallPlaces, WaitPlaces, SigPlaces
  <2> QED BY <2>1, <2>4, <2>5 DEF CondInv
<1>3. Guarded(ChainLock, ThrPlaces, ThrHold)'
  BY <1>1 DEF Guarded, ThrPlaces, ThrHold, Inside, CallPlaces, WaitPlaces, SigPlaces
<1>4. ThrType' /\ ThrFrames' /\ ThrTargets' /\ ThrExited'
  BY <1>1 DEF ThrAll, ThrType, ThrFrames, ThrTargets, ThrExited, Exiting, WaitPlaces, SigPlaces
<1>5. ThrRecords' /\ ThrEnds'
  BY <1>1 DEF ThrAll, ThrRecords, Orderly, ThrEnds
<1>6. ThrJoined' /\ ThrNoticed'
  BY <1>1, ThrSets DEF ThrAll, ThrType, ThrJoined, Joining, ThrNoticed, WaitPlaces
<1> QED BY <1>2, <1>3, <1>4, <1>5, <1>6 DEF ThrAll

\* A joining thread goes on in cond_wait, an exiting one in cond_signal.
LEMMA CondStepThr ==
  ASSUME CondInv, Guarded(ChainLock, ThrPlaces, ThrHold), ThrAll,
         NEW t \in Threads, CondStep(t), UNCHANGED tvars
  PROVE  ThrAll'
<1> USE DEF ThrAll
<1> DEFINE Waits == /\ at[t] \in WaitPlaces /\ frame[t].cv = target[t]
                    /\ \/ at'[t] = "tj_check"
                       \/ at'[t] \in WaitPlaces \ {"cw_enqueue"} /\ frame'[t] = frame[t]
                    /\ at'[t] = "cw_unlock" => at[t] = "cw_enqueue"
           Signals == /\ at[t] \in SigPlaces /\ frame[t].cv = t
                      /\ \/ at'[t] = "te_unlock"
                         \/ at'[t] = "cs_wake" /\ frame'[t] = frame[t]
<1>1. /\ \A u \in Threads \ {t} : at'[u] = at[u] /\ frame'[u] = frame[u]
      /\ Waits \/ Signals
  <2>1. at[t] \in CallPlaces \ {"cb_take"}
    BY CondStepMoves DEF Guarded, CallPlaces, WaitPlaces, SigPlaces, ThrPlaces
  <2>2. CASE at[t] \in WaitPlaces
    BY <2>2, CondStepMoves DEF ThrFrames, CallPlaces, WaitPlaces, SigPlaces, EntryPlaces
  <2>3. CASE at[t] \in SigPlaces
    BY <2>3, CondStepMoves DEF ThrFrames, CallPlaces, WaitPlaces, SigPlaces, EntryPlaces
  <2> QED BY <2>1, <2>2, <2>3 DEF CallPlaces
<1>2. /\ at[t] \in Live <=> at'[t] \in Live
      /\ at[t] \in Exiting <=> at'[t] \in Exiting
      /\ at[t] \in Live \cup Exiting /\ at'[t] \in Live \cup Exiting
      /\ Joining(t) <=> Joining(t)'
      /\ at[t] \notin {"tc_fork", "tc_store", "wrap", "te_task"}
      /\ at'[t] \notin {"tc_fork", "tc_store", "wrap", "te_task", "none", "failed", "gone", "lost"}
  <2>1. CASE Waits
    BY <2>1 DEF Live, Exiting, WaitPlaces, SigPlaces, Joining
  <2>2. CASE Signals
    BY <2>2 DEF Live, Exiting, WaitPlaces, SigPlaces, Joining
  <2> QED BY <1>1, <2>1, <2>2
<1>3. /\ UNCHANGED <<thread_info_chain, node, tid_known, is_joined_on, has_exited, target,
                     overtaken, crashed, ended>>
      /\ at[t] \in Live \cup Exiting
  BY <1>2 DEF tvars
<1>4. ThrType' /\ ThrFrames'
  <2>1. CASE Waits
    BY <2>1, <1>1, <1>3 DEF ThrType, ThrFrames, WaitPlaces, SigPlaces
  <2>2. CASE Signals
    BY <2>2, <1>1, <1>3 DEF ThrType, ThrFrames, WaitPlaces, SigPlaces
  <2> QED BY <1>1, <2>1, <2>2
<1>5. ThrTargets'
  BY <1>1, <1>2, <1>3 DEF ThrTargets, Live, Exiting, WaitPlaces, SigPlaces
<1>6. ThrExited'
  BY <1>1, <1>2, <1>3 DEF ThrExited, Live, Exiting, WaitPlaces, SigPlaces
<1>7. Ending' <=> Ending
  BY <1>1, <1>2 DEF Ending
<1>8. ThrRecords'
  <2>1. \A v \in Threads, p \in {"tc_fork", "tc_store"} : Created(v, p) => Created(v, p)'
    BY <1>1, <1>2, <1>3 DEF Created
  <2>2. \A v \in Threads : at'[v] = "wrap" => at[v] = "wrap"
    BY <1>1, <1>2
  <2>3. t \notin has_exited => at[t] \in Live
    BY <1>3 DEF ThrExited
  <2>4. Orderly' <=> Orderly
    BY <1>3, <1>7 DEF Orderly
  <2>5. \A v \in Threads : (at'[v] \in Live <=> at[v] \in Live) /\ (Joining(v)' <=> Joining(v))
    BY <1>1, <1>2 DEF Joining
  <2> QED BY <1>1, <1>2, <1>3, <2>1, <2>2, <2>3, <2>4, <2>5 DEF ThrRecords, ThrType
<1>9. ThrEnds'
  <2>1. \A v \in Threads :
          /\ at'[v] # at[v] => at'[v] \in Live \cup Exiting /\ at[v] \in Live \cup Exiting
          /\ at[v] \in Live <=> at'[v] \in Live
          /\ at[v] \in Exiting <=> at'[v] \in Exiting
    BY <1>1, <1>2, <1>3
  <2>2. \A p \in {"lost", "te_task", "te_spin", "none", "failed", "gone"} :
          p \notin Live \cup Exiting
    BY DEF Live, Exiting, WaitPlaces, SigPlaces
  <2> QED BY <1>3, <1>7, <2>1, <2>2 DEF ThrEnds
<1>10. ThrJoined'
  <2>1. \A v \in Threads : Joining(v)' <=> Joining(v)
    BY <1>1, <1>2 DEF Joining
  <2>2. \A v \in Threads : at'[v] \in {"cw_enqueue", "cw_unlock"} =>
                            at[v] \in {"cw_enqueue", "cw_unlock"}
    BY <1>1 DEF WaitPlaces
  <2> QED BY <1>3, <2>1, <2>2 DEF ThrJoined
<1>11. ThrNoticed'
  <2> SUFFICES ASSUME NEW u \in has_exited, waiting'[u] # <<>>
               PROVE  at'[u] = "cs_take"
    BY <1>3 DEF ThrNoticed
  <2>1. u \in Threads /\ u \in Conds
    BY ThrSets DEF ThrType
  <2>2. CASE CwEnqueue(t)
    <3>1. at[t] = "cw_enqueue" /\ waiting' = [waiting EXCEPT ![target[t]] = Append(@, t)]
          /\ target[t] \notin has_exited
      BY <2>2, <1>1 DEF CwEnqueue, Here, ThrJoined, Joining, WaitPlaces, SigPlaces
    <3>2. waiting'[u] = waiting[u]
      BY <2>1, <3>1 DEF CondInv, CondType
    <3> QED BY <3>1, <3>2, <2>1, <1>1 DEF ThrNoticed, ThrExited, Exiting, SigPlaces
  <2>3. CASE CsTake(t) /\ waiting[t] # <<>>
    <3>1. at[t] = "cs_take" /\ waiting' = [waiting EXCEPT ![t] = Tail(waiting[t])]
      BY <2>3, <1>1 DEF CsTake, Here, WaitPlaces, SigPlaces
    <3>2. u # t => waiting'[u] = waiting[u] /\ at'[u] = at[u]
      BY <2>1, <3>1, <1>1 DEF CondInv, CondType
    <3>3. Tail(waiting[t]) = <<>>
      <4>1. t \in Conds /\ waiting[t] \in Seq(Threads) /\ IsInjective(waiting[t])
        BY ThrSets DEF CondInv, CondType, Listed
      <4>2. \A v, w \in Range(waiting[t]) : v = w
        BY ListedJoins DEF ThrJoined, Joining
      <4> QED BY <4>1, <4>2, <2>3, LoneElement
    <3>4. u # t
      BY <3>1, <3>3, ThrSets DEF CondInv, CondType
    <3> QED BY <2>1, <3>2, <3>4 DEF ThrNoticed
  <2>4. CASE ~CwEnqueue(t) /\ ~(CsTake(t) /\ waiting[t] # <<>>)
    <3>1. ~CbTake(t)
      BY <1>1, <2>4 DEF CbTake, Here, Guarded, ThrPlaces, CallPlaces, WaitPlaces, SigPlaces
    <3>2. waiting' = waiting /\ (at[t] = "cs_take" => waiting[t] = <<>>)
      BY <1>1, <2>4, <3>1 DEF CondStep, CwUnlock, CwSleep, CwLock, CsTake, CsWake, CsDone,
          Here, WaitPlaces, SigPlaces
    <3> QED BY <2>1, <3>2, <1>1 DEF ThrNoticed
  <2> QED BY <2>2, <2>3, <2>4
<1> QED BY <1>4, <1>5, <1>6, <1>8, <1>9, <1>10, <1>11

\* The steps of a program that creates and joins threads.
LEMMA ThrStepKeeps ==
  ASSUME CondInv, Guarded(ChainLock, ThrPlaces, ThrHold), ThrAll,
         NEW t \in Threads, ThrStep(t)
  PROVE  CondInv' /\ Guarded(ChainLock, ThrPlaces, ThrHold)' /\ ThrAll'
<1>1. CASE TaskVanish(t)
  BY <1>1, TaskVanishKeeps
<1>2. CASE ~TaskVanish(t)
  <2>1. CondInv'
    BY <1>2, ThrStepMoves, AsideKeeps
  <2>2. Guarded(ChainLock, ThrPlaces, ThrHold)'
    <3>1. Moves(t, ChainLock, ThrPlaces, ThrHold)
      BY <1>2, ThrStepMoves
    <3> QED BY ONLY <3>1, ThrSets, MovesKeeps, Guarded(ChainLock, ThrPlaces, ThrHold), t \in Threads
  <2>3. ThrAll'
    BY <1>2, ThrCreateKeeps, ThrJoinKeeps, ThreadForkKeeps, ThrCreateDoneKeeps,
       WrapFuncKeeps, ThrJoinCheckKeeps, ThrExitLastKeeps, ThrExitKeeps, ThrUnknownKeeps,
       ThrOutKeeps DEF ThrStep
  <2> QED BY <2>1, <2>2, <2>3
<1> QED BY <1>1, <1>2

\* What the invariant says of threads.
LEMMA ThrSafe ==
  ASSUME CondInv, Guarded(ChainLock, ThrPlaces, ThrHold), ThrAll
  PROVE  WrapFinds /\ ExitNoticed /\ LastEnds
<1> USE DEF ThrAll
<1>1. WrapFinds
  BY DEF WrapFinds, ThrEnds
<1>2. ExitNoticed
  BY CondAssumption DEF ExitNoticed, ThrNoticed, ThrType, Guarded, Inside
<1>3. ASSUME ~crashed, ~overtaken, NEW t \in Threads, at[t] = "te_task", NEW u \in Threads \ {t}
      PROVE  u \in has_exited \/ at[u] \in {"none", "failed", "gone"}
  BY <1>3 DEF ThrEnds, ThrExited
<1>4. ~ended => \E t \in Threads : at[t] \notin {"none", "gone"}
  BY DEF ThrEnds, Live, WaitPlaces
<1>5. LastEnds
  BY <1>3, <1>4 DEF LastEnds
<1> QED BY <1>1, <1>2, <1>5

-----------------------------------------------------------------------------
(***************************************************************************)
(* The process, whatever it uses.                                          *)
(***************************************************************************)
\* A program of condition variables uses one of them.
MonInv ==
  use = "cond" =>
    /\ Placed(MonPlaces)
    /\ \A t \in Threads : at[t] \in CallPlaces => frame[t].cv = MonCond

\* What the process does not use is as it was.
Unused ==
  /\ units \in Nat
  /\ use # "sem" => count = units
  /\ use # "rw" => rw_list = <<>>
  /\ use # "thr" => has_exited = {}

UserInv ==
  /\ use \in AllUses /\ Unused
  /\ CondInv
  /\ MonInv /\ SemInv /\ RwInv /\ ThrInv
  /\ use = "stack" => \A t \in Threads : at[t] = "none"

\* A step is one of the program that runs.
LEMMA OwnSteps ==
  ASSUME UserInv, NEW t \in Threads
  PROVE  /\ CondStep(t) => use # "stack"
         /\ MonitorStep(t) => use = "cond"
         /\ SemStep(t) => use = "sem"
         /\ RwStep(t) => use = "rw"
         /\ ThrStep(t) => use = "thr"
<1>1. /\ CondStep(t) => at[t] \in CallPlaces
      /\ MonitorStep(t) => at[t] \in MonPlaces
      /\ SemStep(t) => at[t] \in SemPlaces
      /\ RwStep(t) => at[t] \in RwPlaces
      /\ ThrStep(t) => at[t] \in ThrPlaces \ {"none"}
  <2>1. CondStep(t) => at[t] \in CallPlaces
    BY CondStepMoves DEF UserInv
  <2>2. SemStep(t) => at[t] \in SemPlaces
    BY SemStepMoves DEF UserInv
  <2>3. MonitorStep(t) => at[t] \in MonPlaces
    BY DEF MonitorStep, MonitorWait, MonitorBack, MonitorSignal, Here, MonPlaces
  <2>4. RwStep(t) => at[t] \in RwPlaces
    BY DEF RwStep, RwLockCall, RwLockDone, RwUnlock, RwGrant, RwUnlockDone,
           RwDowngrade, RwDowngradeDone, Here, RwPlaces
  <2>5. ThrStep(t) => at[t] \in ThrPlaces \ {"none"}
    BY DEF ThrStep, ThrCreate, ThrJoin, ThreadFork, ThreadForkFails, ThrCreateDone,
           WrapFunc, ThrJoinCheck, ThrExitLast, ThrExit, ThrExitUnknown, Spin,
           ThrExitUnlock, Vanish, Crash, TaskVanish, Here, ThrPlaces
  <2> QED BY <2>1, <2>2, <2>3, <2>4, <2>5
<1>2. /\ use = "cond" => at[t] \in MonPlaces \cup CallPlaces
      /\ use = "sem" => at[t] \in SemPlaces \cup CallPlaces
      /\ use = "rw" => at[t] \in RwPlaces \cup CallPlaces
      /\ use = "thr" => at[t] \in ThrPlaces \cup CallPlaces
      /\ use = "stack" => at[t] = "none"
  BY DEF UserInv, MonInv, SemInv, RwInv, ThrInv, Placed, Guarded
<1>3. use \in AllUses
  BY DEF UserInv
<1>4. CASE use = "cond"
  BY <1>1, <1>2, <1>4 DEF MonPlaces, SemPlaces, RwPlaces, ThrPlaces, CallPlaces, WaitPlaces, SigPlaces
<1>5. CASE use = "sem"
  BY <1>1, <1>2, <1>5 DEF MonPlaces, SemPlaces, RwPlaces, ThrPlaces, CallPlaces, WaitPlaces, SigPlaces
<1>6. CASE use = "rw"
  BY <1>1, <1>2, <1>6 DEF MonPlaces, SemPlaces, RwPlaces, ThrPlaces, CallPlaces, WaitPlaces, SigPlaces
<1>7. CASE use = "thr"
  BY <1>1, <1>2, <1>7 DEF MonPlaces, SemPlaces, RwPlaces, ThrPlaces, CallPlaces, WaitPlaces, SigPlaces
<1>8. CASE use = "stack"
  BY <1>1, <1>2, <1>8 DEF MonPlaces, SemPlaces, RwPlaces, ThrPlaces, CallPlaces, WaitPlaces, SigPlaces
<1> QED BY <1>3, <1>4, <1>5, <1>6, <1>7, <1>8 DEF AllUses

\* The process starts in a state of the invariant.
LEMMA UserInitInv ==
  ASSUME UInit
  PROVE  UserInv
<1> USE DEF UInit
<1>1. use \in AllUses
  BY UseAssumption
<1>2. /\ held = [m \in Mutexes |-> NoThread] /\ waiting = [c \in Conds |-> <<>>]
      /\ asleep = {} /\ frame = [t \in Threads |-> NoFrame]
      /\ waking = [t \in Threads |-> <<>>] /\ DOMAIN at = Threads
  BY DEF CInit
<1>3. /\ use = "cond" => \A t \in Threads : at[t] = "cond_out"
      /\ use = "sem" => \A t \in Threads : at[t] = "sem_out"
      /\ use = "rw" => \A t \in Threads : at[t] = "rw_out"
      /\ use = "thr" => \A t \in Threads : at[t] = IF t = Root THEN "user" ELSE "none"
      /\ use = "stack" => \A t \in Threads : at[t] = "none"
  BY DEF CInit
<1>4. \A t \in Threads : at[t] \in {"cond_out", "sem_out", "rw_out", "user", "none"}
  BY <1>1, <1>3 DEF AllUses
<1>5. CondInv
  <2>1. CondType
    BY <1>2 DEF CondType
  <2>2. /\ \A c \in Conds : IsInjective(waiting[c]) /\ Range(waiting[c]) = {}
        /\ \A u \in Threads : IsInjective(waking[u]) /\ Range(waking[u]) = {}
    BY <1>2, ShortSequences
  <2>3. Listed /\ Woken
    BY <2>2 DEF Listed, Woken
  <2>4. Claimed /\ Called
    BY <1>2, <1>4 DEF Claimed, Called, Pending, CallPlaces, WaitPlaces, SigPlaces
  <2> QED BY <2>1, <2>3, <2>4 DEF CondInv
<1>6. Unused
  BY SemAssumption DEF Unused, SInit, RInit, TInit
<1>7. MonInv
  BY <1>3 DEF MonInv, Placed, MonPlaces, CallPlaces, WaitPlaces, SigPlaces
<1>8. SemInv
  <2> SUFFICES ASSUME use = "sem"
               PROVE  Guarded(SemLock, SemPlaces, SemHold) /\ SemFrames /\ SemCounts
    BY DEF SemInv
  <2>1. \A t \in Threads : at[t] = "sem_out"
    BY <1>3
  <2>2. Guarded(SemLock, SemPlaces, SemHold) /\ SemFrames
    BY <2>1 DEF Guarded, SemFrames, SemPlaces, SemHold, Inside, CallPlaces, WaitPlaces, SigPlaces
  <2>3. SemUsers = {} /\ ~Signalled
    BY <2>1 DEF SemUsers, Signalled
  <2>4. SemWaiters = {}
    <3>1. waiting[SemCond] = <<>>
      BY <1>2, SemSets
    <3> QED BY <2>1, <3>1, ShortSequences DEF SemWaiters
  <2>5. Cardinality(SemUsers) = 0 /\ Cardinality(SemWaiters) = 0
    BY <2>3, <2>4, FS_EmptySet
  <2>6. units \in Nat /\ count = units
    BY SemAssumption DEF SInit
  <2> QED BY <2>2, <2>3, <2>5, <2>6 DEF SemCounts, SemQueue
<1>9. RwInv
  <2> SUFFICES ASSUME use = "rw"
               PROVE  /\ Guarded(RwLock, RwPlaces, RwHold) /\ RwType /\ RwListed /\ RwFrames
                      /\ RwWriters /\ RwGranted
    BY DEF RwInv
  <2>1. \A t \in Threads : at[t] = "rw_out"
    BY <1>3
  <2>2. /\ rw_list = <<>> /\ rw_lock_type = [t \in Threads |-> "READ"]
        /\ granting = [t \in Threads |-> <<>>]
    BY DEF RInit
  <2>3. Guarded(RwLock, RwPlaces, RwHold) /\ RwFrames
    BY <2>1 DEF Guarded, RwFrames, RwPlaces, RwHold, Inside, CallPlaces, WaitPlaces, SigPlaces
  <2>4. RwType
    BY <2>2 DEF RwType
  <2>5. RwListed
    BY <2>1, <2>2, ShortSequences DEF RwListed, Leaving
  <2>6. RwGranted /\ RwWriters
    BY <2>1, <2>2 DEF RwGranted, RwWriters, ToSignal, Signalling, Downgrading, SigPlaces
  <2> QED BY <2>3, <2>4, <2>5, <2>6
<1>10. ThrInv
  <2> SUFFICES ASSUME use = "thr"
               PROVE  Guarded(ChainLock, ThrPlaces, ThrHold) /\ ThrAll
    BY DEF ThrInv
  <2>1. \A t \in Threads : at[t] = IF t = Root THEN "user" ELSE "none"
    BY <1>3
  <2>2. Guarded(ChainLock, ThrPlaces, ThrHold) /\ ThrFrames
    BY <2>1 DEF Guarded, ThrFrames, ThrPlaces, ThrHold, Inside, CallPlaces, WaitPlaces, SigPlaces
  <2> USE <2>1, ThreadLibAssumption DEF TInit
  <2>3. ThrType /\ ThrTargets
    BY DEF ThrType, ThrTargets
  <2>4. ThrExited /\ ThrJoined /\ ThrNoticed
    BY DEF ThrExited, ThrJoined, ThrNoticed, Joining, Exiting, WaitPlaces, SigPlaces
  <2>5. ThrRecords
    BY DEF ThrRecords, Live, WaitPlaces, Joining
  <2>6. ThrEnds
    BY DEF ThrEnds, Live
  <2> QED BY <2>2, <2>3, <2>4, <2>5, <2>6 DEF ThrAll
<1> QED BY <1>1, <1>3, <1>5, <1>6, <1>7, <1>8, <1>9, <1>10 DEF UserInv

\* A step of cond.c keeps the invariant, whichever program runs, ...
LEMMA CondStepInv ==
  ASSUME UserInv, NEW t \in Threads, CondStep(t), UNCHANGED <<lvars, avars, use>>
  PROVE  UserInv'
<1> USE DEF UserInv
<1>1. UNCHANGED svars /\ UNCHANGED rvars /\ UNCHANGED tvars /\ UNCHANGED avars /\ UNCHANGED use
  BY DEF lvars
<1>2. CondInv'
  BY CondStepKeeps
<1>3. Unused' /\ use' \in AllUses
  BY <1>1 DEF Unused, svars, rvars, tvars
<1>4. MonInv'
  <2> SUFFICES ASSUME use = "cond"
               PROVE  /\ Placed(MonPlaces)'
                      /\ \A u \in Threads : at'[u] \in CallPlaces => frame'[u].cv = MonCond
    BY <1>1 DEF MonInv
  <2>1. MonPlaces \cap CallPlaces = {}
    BY DEF MonPlaces, CallPlaces, WaitPlaces, SigPlaces
  <2>2. Placed(MonPlaces)'
    BY <2>1, CondStepPlaced DEF MonInv
  <2>3. frame[t].back \notin CallPlaces
    BY CondStepMoves DEF CondInv, Called
  <2> QED BY <2>2, <2>3, CondStepMoves DEF MonInv
<1>5. SemInv'
  <2> SUFFICES ASSUME use = "sem"
               PROVE  Guarded(SemLock, SemPlaces, SemHold)' /\ SemFrames' /\ SemCounts'
    BY <1>1 DEF SemInv
  <2>1. Guarded(SemLock, SemPlaces, SemHold)'
    BY SemSets, CondStepGuarded DEF SemInv
  <2>2. SemFrames' /\ SemCounts'
    BY <1>1, <1>2, CondStepCounts DEF SemInv
  <2> QED BY <2>1, <2>2
<1>6. RwInv'
  <2> SUFFICES ASSUME use = "rw"
               PROVE  /\ Guarded(RwLock, RwPlaces, RwHold)' /\ RwType' /\ RwListed' /\ RwFrames'
                      /\ RwWriters' /\ (Downgradable => RwGranted')
    BY <1>1 DEF RwInv, Downgradable, rvars
  <2>1. Guarded(RwLock, RwPlaces, RwHold)'
    BY RwSets, CondStepGuarded DEF RwInv
  <2>2. RwType' /\ RwListed' /\ RwFrames'
    BY <1>1, CondStepListed DEF RwInv
  <2>3. Downgradable => RwGranted'
    BY <1>1, CondStepGranted DEF RwInv
  <2>4. RwWriters'
    BY <1>1 DEF RwInv, RwWriters, rvars
  <2> QED BY <2>1, <2>2, <2>3, <2>4
<1>7. ThrInv'
  <2> SUFFICES ASSUME use = "thr"
               PROVE  Guarded(ChainLock, ThrPlaces, ThrHold)' /\ ThrAll'
    BY <1>1 DEF ThrInv
  <2>1. Guarded(ChainLock, ThrPlaces, ThrHold)'
    BY ThrSets, CondStepGuarded DEF ThrInv
  <2>2. ThrAll'
    BY <1>1, CondStepThr DEF ThrInv
  <2> QED BY <2>1, <2>2
<1>8. use' # "stack"
  BY <1>1, OwnSteps
<1> QED BY <1>2, <1>3, <1>4, <1>5, <1>6, <1>7, <1>8

\* ... and so does a step of that program, ...
LEMMA ProgramStepInv ==
  ASSUME UserInv, NEW t \in Threads, UNCHANGED <<avars, use>>,
         \/ MonitorStep(t) /\ UNCHANGED lvars
         \/ SemStep(t) /\ UNCHANGED <<rvars, tvars>>
         \/ RwStep(t) /\ UNCHANGED <<svars, tvars>>
         \/ ThrStep(t) /\ UNCHANGED <<svars, rvars>>
  PROVE  UserInv'
<1> USE DEF UserInv
<1>0. UNCHANGED use /\ use' \in AllUses
  OBVIOUS
<1>1. CASE MonitorStep(t) /\ UNCHANGED lvars
  <2>1. use = "cond" /\ use' = "cond"
    BY <1>0, <1>1, OwnSteps
  <2>2. CondInv' /\ Placed(MonPlaces)'
    BY <1>1, <2>1, MonitorStepKeeps DEF MonInv
  <2>3. Unused'
    BY <1>0, <1>1 DEF Unused, lvars, svars, rvars, tvars
  <2>4. \A u \in Threads : at'[u] \in CallPlaces => frame'[u].cv = MonCond
    <3> SUFFICES /\ \A u \in Threads \ {t} : at'[u] = at[u] /\ frame'[u] = frame[u]
                 /\ at'[t] \in CallPlaces => frame'[t].cv = MonCond
      BY <2>1 DEF MonInv
    <3>1. CASE MonitorWait(t)
      BY <3>1, CallEffects DEF MonitorWait
    <3>2. CASE MonitorBack(t)
      BY <3>2, CallEffects DEF MonitorBack, CallPlaces, WaitPlaces, SigPlaces
    <3>3. CASE MonitorSignal(t, "cs_take") \/ MonitorSignal(t, "cb_take")
      BY <3>3, CallEffects DEF MonitorSignal
    <3> QED BY <1>1, <3>1, <3>2, <3>3 DEF MonitorStep
  <2> QED BY <1>0, <2>1, <2>2, <2>3, <2>4 DEF MonInv, SemInv, RwInv, ThrInv
<1>2. CASE SemStep(t) /\ UNCHANGED <<rvars, tvars>>
  <2>1. use = "sem" /\ use' = "sem"
    BY <1>0, <1>2, OwnSteps
  <2>2. Guarded(SemLock, SemPlaces, SemHold) /\ SemFrames /\ SemCounts
    BY <2>1 DEF SemInv
  <2>3. Moves(t, SemLock, SemPlaces, SemHold) /\ Aside
    BY <1>2, SemStepMoves
  <2>4. CondInv'
    BY <2>3, AsideKeeps
  <2>5. Guarded(SemLock, SemPlaces, SemHold)'
    BY <2>2, <2>3, SemSets, MovesKeeps
  <2>6. SemFrames' /\ SemCounts'
    BY <1>2, <2>2, SemStepCounts
  <2>7. Unused'
    BY <1>0, <1>2, <2>1, <2>6 DEF Unused, rvars, tvars, SemCounts
  <2> QED BY <1>0, <2>1, <2>4, <2>5, <2>6, <2>7 DEF MonInv, SemInv, RwInv, ThrInv
<1>3. CASE RwStep(t) /\ UNCHANGED <<svars, tvars>>
  <2>1. use = "rw" /\ use' = "rw"
    BY <1>0, <1>3, OwnSteps
  <2>2. /\ Guarded(RwLock, RwPlaces, RwHold) /\ RwType /\ RwListed /\ RwFrames
        /\ RwWriters /\ (Downgradable => RwGranted)
    BY <2>1 DEF RwInv
  <2>3. Moves(t, RwLock, RwPlaces, RwHold) /\ Aside
    BY <1>3, <2>2, RwStepMoves
  <2>4. CondInv'
    BY <2>3, AsideKeeps
  <2>5. Guarded(RwLock, RwPlaces, RwHold)'
    BY <2>2, <2>3, RwSets, MovesKeeps
  <2>6. RwType' /\ RwListed' /\ RwFrames'
    BY <1>3, <2>2, RwStepListed
  <2>7. RwWriters' /\ (Downgradable' <=> Downgradable)
    BY <1>3, <2>2, RwStepWriters DEF Downgradable
  <2>8. Downgradable => RwGranted'
    BY <1>3, <2>2, RwStepGranted
  <2>9. Unused'
    BY <1>0, <1>3, <2>1 DEF Unused, svars, tvars
  <2> QED BY <1>0, <2>1, <2>4, <2>5, <2>6, <2>7, <2>8, <2>9 DEF MonInv, SemInv, RwInv, ThrInv
<1>4. CASE ThrStep(t) /\ UNCHANGED <<svars, rvars>>
  <2>1. use = "thr" /\ use' = "thr"
    BY <1>0, <1>4, OwnSteps
  <2>2. Guarded(ChainLock, ThrPlaces, ThrHold) /\ ThrAll
    BY <2>1 DEF ThrInv
  <2>3. CondInv' /\ Guarded(ChainLock, ThrPlaces, ThrHold)' /\ ThrAll'
    BY <1>4, <2>2, ThrStepKeeps
  <2>4. Unused'
    BY <1>0, <1>4, <2>1 DEF Unused, svars, rvars
  <2> QED BY <1>0, <2>1, <2>3, <2>4 DEF MonInv, SemInv, RwInv, ThrInv
<1> QED BY <1>1, <1>2, <1>3, <1>4

\* ... and the process that does not change.
LEMMA UserStutterInv ==
  ASSUME UserInv, UNCHANGED uvars
  PROVE  UserInv'
<1>1. /\ UNCHANGED <<held, waiting, asleep, at, frame, waking>> /\ UNCHANGED use
      /\ UNCHANGED <<count, units>> /\ UNCHANGED <<rw_list, rw_lock_type, granting, role>>
      /\ UNCHANGED <<thread_info_chain, node, tid_known, is_joined_on, has_exited, target,
                     overtaken, crashed, ended>>
  BY DEF uvars, cvars, lvars, svars, rvars, tvars
<1> USE <1>1 DEF UserInv
<1>2. CondInv'
  BY DEF CondInv, CondType, Listed, Woken, Claimed, Called, Pending
<1>3. Unused' /\ MonInv'
  BY DEF Unused, MonInv, Placed
<1>4. SemInv'
  BY DEF SemInv, Guarded, SemFrames, SemCounts, SemQueue, SemWaiters, SemUsers, Signalled
<1>5. RwInv'
  <2>1. \A i : MayHave(rw_list, i)' <=> MayHave(rw_list, i)
    BY TypesKept DEF Downgrading
  <2>2. \A h, x : ToSignal(h, x)' <=> ToSignal(h, x)
    BY DEF ToSignal, Signalling
  <2>3. \A x : Ungranted(x)' <=> Ungranted(x)
    BY DEF Ungranted
  <2>4. RwGranted => RwGranted'
    BY <2>1, <2>2, <2>3 DEF RwGranted, Downgrading
  <2>5. (Downgradable' <=> Downgradable) /\ (RwWriters => RwWriters')
    BY DEF Downgradable, RwWriters
  <2> QED BY <2>4, <2>5 DEF RwInv, Guarded, RwType, RwListed, RwFrames, Leaving
<1>6. ThrInv'
  BY DEF ThrInv, Guarded, ThrAll, ThrType, ThrFrames, ThrTargets, ThrExited, ThrRecords,
         ThrEnds, ThrJoined, ThrNoticed, Created, Ending, Joining, Orderly
<1> QED BY <1>2, <1>3, <1>4, <1>5, <1>6

\* The invariant is inductive.
LEMMA UserStepInv ==
  ASSUME UserInv, [UNext]_uvars
  PROVE  UserInv'
<1>1. CASE UNCHANGED uvars \/ Finished
  BY <1>1, UserStutterInv DEF Finished
<1>2. ASSUME NEW t \in Threads, CondStep(t), UNCHANGED <<lvars, avars, use>>
      PROVE  UserInv'
  BY <1>2, CondStepInv
<1>3. ASSUME NEW t \in Threads,
             \/ MonitorStep(t) /\ UNCHANGED <<lvars, avars, use>>
             \/ SemStep(t) /\ UNCHANGED <<rvars, tvars, avars, use>>
             \/ RwStep(t) /\ UNCHANGED <<svars, tvars, avars, use>>
             \/ ThrStep(t) /\ UNCHANGED <<svars, rvars, avars, use>>
      PROVE  UserInv'
  <2>1. /\ UNCHANGED <<avars, use>>
        /\ \/ MonitorStep(t) /\ UNCHANGED lvars
           \/ SemStep(t) /\ UNCHANGED <<rvars, tvars>>
           \/ RwStep(t) /\ UNCHANGED <<svars, tvars>>
           \/ ThrStep(t) /\ UNCHANGED <<svars, rvars>>
    BY <1>3
  <2> QED BY <2>1, ProgramStepInv
<1>4. CASE use = "stack" /\ AutostackStep /\ UNCHANGED <<cvars, lvars, use>>
  <2>2. /\ UNCHANGED <<held, waiting, asleep, at, frame, waking>> /\ use' = "stack"
        /\ UNCHANGED <<count, units, rw_list, has_exited>>
    BY <1>4 DEF cvars, lvars, svars, rvars, tvars
  <2>3. CondInv'
    <3>1. CondType' /\ Listed' /\ Woken'
      BY <2>2 DEF UserInv, CondInv, CondType, Listed, Woken, Pending
    <3>2. Claimed' /\ Called'
      BY <2>2 DEF UserInv, CondInv, Claimed, Called, Pending
    <3> QED BY <3>1, <3>2 DEF CondInv
  <2>4. Unused'
    BY <1>4, <2>2 DEF UserInv, Unused
  <2> QED BY <1>4, <2>2, <2>3, <2>4 DEF UserInv, MonInv, SemInv, RwInv, ThrInv
<1> QED BY <1>1, <1>2, <1>3, <1>4 DEF UNext

\* Lists that nobody calls cond_wait on are empty.
LEMMA NobodyListed ==
  ASSUME CondInv, NEW c \in Conds,
         \A t \in Threads : at[t] \in WaitPlaces => frame[t].cv # c
  PROVE  waiting[c] = <<>>
<1>1. \A t \in Range(waiting[c]) : t \in Threads /\ Pending(t) /\ frame[t].cv = c
  BY ListedThreads DEF CondInv, Listed
<1>2. \A t \in Threads : Pending(t) => at[t] \in WaitPlaces
  BY DEF Pending, CondInv, Called, WaitPlaces
<1>3. Range(waiting[c]) = {}
  BY <1>1, <1>2
<1> QED BY <1>3, EmptyRange DEF CondInv, CondType

\* What the invariant says of each part, whichever program runs.
LEMMA UserSafe ==
  ASSUME UserInv
  PROVE  /\ NoLostWaiter /\ UnitsKept
         /\ Downgradable => WriterAlone /\ GrantedPrefix
         /\ WrapFinds /\ ExitNoticed /\ LastEnds
<1> USE DEF UserInv
<1>1. NoLostWaiter
  BY ClaimedOnce
<1>2. UnitsKept
  <2>1. CASE use = "sem"
    BY <2>1, CountsKeepUnits DEF SemInv
  <2>2. CASE use # "sem"
    <3>1. \A t \in Threads : at[t] \notin {"sem_in", "sw_done"}
      BY <2>2 DEF AllUses, MonInv, RwInv, ThrInv, Placed, Guarded, MonPlaces,
                  RwPlaces, ThrPlaces, CallPlaces, WaitPlaces, SigPlaces
    <3>2. \A t \in Threads : at[t] \in WaitPlaces => frame[t].cv \in Threads \cup {MonCond}
      BY <2>2 DEF AllUses, MonInv, RwInv, RwFrames, ThrInv, ThrAll, ThrFrames,
                  ThrJoined, Joining, CallPlaces, WaitPlaces
    <3>3. waiting[SemCond] = <<>>
      BY <3>2, SemSets, NobodyListed, UseAssumption
    <3>4. {t \in Threads : at[t] \in {"sem_in", "sw_done"}} = {}
      BY <3>1
    <3>5. Cardinality({t \in Threads : at[t] \in {"sem_in", "sw_done"}}) = 0
      BY <3>4, FS_EmptySet
    <3>6. units \in Nat /\ count = units /\ Len(waiting[SemCond]) = 0
      BY <2>2, <3>3 DEF Unused
    <3> QED BY <3>5, <3>6 DEF UnitsKept
  <2> QED BY <2>1, <2>2
<1>3. ASSUME Downgradable
      PROVE  WriterAlone /\ GrantedPrefix
  <2>1. CASE use = "rw"
    BY <1>3, <2>1, GrantedSafe DEF RwInv
  <2>2. CASE use # "rw"
    <3>1. \A t \in Threads : at[t] # "rw_in"
      BY <2>2 DEF AllUses, MonInv, SemInv, ThrInv, Placed, Guarded, MonPlaces,
                  SemPlaces, ThrPlaces, CallPlaces, WaitPlaces, SigPlaces
    <3>2. rw_list = <<>>
      BY <2>2 DEF Unused
    <3> QED BY <3>1, <3>2 DEF WriterAlone, GrantedPrefix
  <2> QED BY <2>1, <2>2
<1>4. WrapFinds /\ ExitNoticed /\ LastEnds
  <2>1. CASE use = "thr"
    BY <2>1, ThrSafe DEF ThrInv
  <2>2. CASE use # "thr"
    <3>1. \A t \in Threads : at[t] \notin {"lost", "te_task", "gone"}
      BY <2>2 DEF AllUses, MonInv, SemInv, RwInv, Placed, Guarded, MonPlaces,
                  SemPlaces, RwPlaces, CallPlaces, WaitPlaces, SigPlaces
    <3>2. has_exited = {}
      BY <2>2 DEF Unused
    <3> QED BY <3>1, <3>2 DEF WrapFinds, ExitNoticed, LastEnds
  <2> QED BY <2>1, <2>2
<1> QED BY <1>1, <1>2, <1>3, <1>4

-----------------------------------------------------------------------------
(***************************************************************************)
(* The theorems.                                                           *)
(***************************************************************************)

\* The invariant holds in every reachable state.
THEOREM UserInvariant == USpec => []UserInv
<1>1. UInit => UserInv
  BY UserInitInv
<1>2. UserInv /\ [UNext]_uvars => UserInv'
  BY UserStepInv
<1> QED BY <1>1, <1>2, PTL DEF USpec

\* cond_wait and cond_signal (cond.c): every thread that is descheduled, or is
\* about to be, is once in a list or once with the thread that is going to
\* make it runnable, and no other thread is.
THEOREM WaitersKept == USpec => []NoLostWaiter
<1>1. UserInv => NoLostWaiter
  BY UserSafe
<1> QED BY <1>1, UserInvariant, PTL

\* sem_wait and sem_signal (sem.c): no more threads have a unit than there are
\* units, and below zero the count is the number of threads that wait.
THEOREM SemaphoreSafe == USpec => []UnitsKept
<1>1. UserInv => UnitsKept
  BY UserSafe
<1> QED BY <1>1, UserInvariant, PTL

\* rwlock_lock, rwlock_unlock and rwlock_downgrade (rwlock.c), in a program in
\* which nobody downgrades or at most one thread writes: a writer is alone.
THEOREM WriterExcludes == USpec => [](Downgradable => WriterAlone)
<1>1. UserInv => (Downgradable => WriterAlone)
  BY UserSafe
<1> QED BY <1>1, UserInvariant, PTL

\* The same functions, in such a program: with the list unlocked exactly the
\* records that may have the lock have been signalled.
THEOREM RwLockGranted == USpec => [](Downgradable => GrantedPrefix)
<1>1. UserInv => (Downgradable => GrantedPrefix)
  BY UserSafe
<1> QED BY <1>1, UserInvariant, PTL

\* thr_create and wrap_func (thread.c): a new thread finds its record although
\* it may run before thr_create knows its tid, whatever nodes are freed and
\* used again; a second thr_join that overtakes the first, and a crash, are
\* the only exceptions.
THEOREM NewThreadFindsRecord == USpec => []WrapFinds
<1>1. UserInv => WrapFinds
  BY UserSafe
<1> QED BY <1>1, UserInvariant, PTL

\* thr_join and thr_exit (thread.c): with the chain unlocked nobody waits for
\* a thread that has exited.
THEOREM JoinersNotice == USpec => []ExitNoticed
<1>1. UserInv => ExitNoticed
  BY UserSafe
<1> QED BY <1>1, UserInvariant, PTL

\* thr_exit (thread.c): the last thread to exit ends the process, and no
\* earlier one does, with the same two exceptions.
THEOREM LastThreadEnds == USpec => []LastEnds
<1>1. UserInv => LastEnds
  BY UserSafe
<1> QED BY <1>1, UserInvariant, PTL
=============================================================================
