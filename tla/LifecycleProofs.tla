--------------------------- MODULE LifecycleProofs ---------------------------
(***************************************************************************)
(* The process tree for any number of threads and processes: who is whose  *)
(* child stays consistent while processes fork, die, are collected and     *)
(* hand their children to init; what wait frees is used by nobody; a       *)
(* waiter whose child has exited is noticed; and the thread lists keep     *)
(* agreeing with the threads' states.  All of it up to the first of the    *)
(* two heap errors the code can run into, which OrderlySpec names: a fork  *)
(* of init that fails takes an orphan's PCB off init's list instead of its *)
(* own child's, and two waits pop the same node of the TERMINATED list.    *)
(* The first is where the invariant would break; after the second, the     *)
(* list of the model is no longer the one in memory.                       *)
(***************************************************************************)
EXTENDS Lifecycle, SchedulerProofs

\* Places of fork that work on a child, and of wait that work on one that is
\* in no child list.
Forking == {"fork_build", "fork_insert"}
Reaping == {"wait_adopt", "wait_free", "wait_pop", "wait_pop_last"}

\* Places only reached, and left, with the caller's PCB lock held.
OwnPlaces ==
  {"thread_fork_insert", "task_vanish_loop", "wait_scan", "wait_adopt"}

Runs(t) == thr.state[t] \in {"READY", "RUNNING"}

\* No thread of p is alive; no TCB belongs to p.
NoLive(p) == \A u \in Threads : thr.pcb[u] = p => ~Live(u)
Unused(p) == \A u \in Threads : thr.pcb[u] = p => thr.state[u] = "NEW"

\* p comes before q in s.
Before(s, q, p) == \E i, j \in 1..Len(s) : i < j /\ s[i] = p /\ s[j] = q

-----------------------------------------------------------------------------
(***************************************************************************)
(* The inductive invariant.                                                *)
(***************************************************************************)
FamilyType ==
  /\ parent \in [Procs -> Procs \cup {NoProc}]
  /\ children \in [Procs -> Seq(Procs)]
  /\ kid \in [Threads -> Procs \cup {NoProc}]

OwnInv == \A t \in Threads : op[t] \in OwnPlaces => lock[thr.pcb[t]] = t

\* Thread h may hold the PCB lock of p: it is p's and in a call that locks p,
\* it has scanned p, or it hands orphans over to init.
MayHold(h, p) ==
  \/ thr.pcb[h] = p /\ op[h] \in LockingCalls \cup WaitCalls \cup OwnPlaces
  \/ /\ op[h] = "wait_scan"
     /\ p = kid[h] \/ Before(children[thr.pcb[h]], kid[h], p)
  \/ op[h] = "wait_adopt" /\ p = InitProc

\* The holder of a PCB lock can run.
HolderInv ==
  \A p \in Procs : lock[p] # NoThread => Runs(lock[p]) /\ MayHold(lock[p], p)

\* The child that fork is building: it has no child of its own, and it is the
\* last one of its parent (init adopts others meanwhile).
ChildOK(t) ==
  /\ kid[t] \in Range(children[thr.pcb[t]])
  /\ children[kid[t]] = <<>>
  /\ thr.pcb[t] # InitProc => kid[t] = Last(children[thr.pcb[t]])
  /\ op[t] = "fork_build" => Unused(kid[t])

\* A thread in fork is alone in its process.
ForkInv ==
  \A t \in Threads : op[t] \in Forking =>
    /\ Live(t)
    /\ \A u \in Threads : thr.pcb[u] = thr.pcb[t] /\ Live(u) => u = t
    /\ op[t] = "fork_insert" => kid[t] # NoProc /\ thr.pcb[node[t]] = kid[t]
    /\ kid[t] # NoProc => ChildOK(t)

\* Where a scan has got to: the children before it are locked and alive.
ScanInv ==
  \A t \in Threads : op[t] = "wait_scan" =>
    /\ kid[t] \in Range(children[thr.pcb[t]])
    /\ \A p \in Procs : Before(children[thr.pcb[t]], kid[t], p) =>
         lock[p] = t /\ ~NoLive(p)

\* The child that is being collected is dead and detached, and still names
\* its parent.
ReapInv ==
  \A t \in Threads : Live(t) /\ op[t] \in Reaping =>
    /\ kid[t] \in Procs /\ parent[kid[t]] = thr.pcb[t]
    /\ kid[t] \notin Range(children[thr.pcb[t]])
    /\ NoLive(kid[t])
    /\ op[t] \in Freeing => children[kid[t]] = <<>>

\* No two live threads work on the same child.
KidInv ==
  /\ \A t \in Threads :
       thr.state[t] # "TERMINATED"
         /\ op[t] \notin Forking \cup Reaping \cup {"wait_scan"}
         => kid[t] = NoProc
  /\ \A t, u \in Threads :
       Live(t) /\ Live(u) /\ t # u /\ kid[t] # NoProc => kid[t] # kid[u]

NodeInv ==
  \A t \in Threads :
    op[t] \notin Inserting \cup {"task_vanish_loop"} => node[t] = NoThread

\* Child lists and parent pointers agree; an unused PCB has neither children
\* nor threads.
Kin ==
  /\ \A p \in Procs : IsInjective(children[p])
  /\ \A p, q \in Procs : q \in Range(children[p]) => parent[q] = p
  /\ parent[InitProc] = IdleProc /\ parent[IdleProc] = NoProc
  /\ children[IdleProc] = <<InitProc>>
  /\ \A p \in Procs : parent[p] # p
  /\ \A p \in Procs : parent[p] = NoProc /\ p # IdleProc =>
       children[p] = <<>> /\ Unused(p)

\* The process of a live thread is in its parent's list.
Home ==
  \A t \in Threads : Live(t) /\ t # IdleThread =>
    /\ parent[thr.pcb[t]] \in Procs
    /\ thr.pcb[t] \in Range(children[parent[thr.pcb[t]]])

\* The root process has one thread, idle, which makes no call.
IdleHome ==
  /\ op[IdleThread] = "user" /\ Runs(IdleThread)
  /\ \A t \in Threads : thr.pcb[t] = IdleProc <=> t = IdleThread

SleepInv == \A t \in Threads : thr.state[t] = "VANISH_WAIT" => op[t] = "wait"

\* q is a child of p, or has been taken out of p's list to be collected.
Edge(p, q) ==
  \/ q \in Range(children[p])
  \/ \E t \in Threads :
       Live(t) /\ op[t] = "wait_adopt" /\ thr.pcb[t] = p /\ kid[t] = q

\* Every process that has a parent descends from the root: a set of processes
\* with the root that contains the children of its members contains them all.
Tree ==
  \A S \in SUBSET Procs :
    /\ IdleProc \in S
    /\ \A p \in S, q \in Procs : Edge(p, q) => q \in S
    => \A p, q \in Procs : Edge(p, q) => q \in S

\* Somebody is on the way to collect the dead children of p, or to wake who
\* waits for them.
Noticed(p) ==
  \E u \in Threads :
    \/ /\ Runs(u) /\ thr.pcb[u] = p
       /\ op[u] \in WaitOps \cup {"task_vanish_loop"}
    \/ /\ p = InitProc
       /\ thr.state[u] \in {"READY", "RUNNING", "TERMINATED"}
       /\ op[u] \in Late

Zombie ==
  \A t \in Threads : thr.state[t] = "VANISH_WAIT" =>
    \A q \in Range(children[thr.pcb[t]]) :
      NoLive(q) /\ ~Unused(q) => Noticed(thr.pcb[t])

\* The inductive invariant of LSpec.
FamilyInv ==
  /\ FamilyType /\ OwnInv /\ HolderInv
  /\ ForkInv /\ ScanInv /\ ReapInv /\ KidInv /\ NodeInv
  /\ Kin /\ Home /\ IdleHome /\ SleepInv /\ Tree

LInv == Core /\ FamilyInv /\ WalkInv /\ Zombie

-----------------------------------------------------------------------------
(***************************************************************************)
(* What the functions of the model say about the states of threads.        *)
(***************************************************************************)

\* get_thread_alive_count and an empty tcb_list, in terms of the threads.
LEMMA CountMeaning ==
  ASSUME Core, NEW p \in Procs
  PROVE  /\ AliveCount(p) = 0 <=> NoLive(p)
         /\ AliveCount(p) = 1 =>
              \A u, v \in Threads : Live(u) /\ thr.pcb[u] = p
                /\ Live(v) /\ thr.pcb[v] = p => u = v
         /\ tcbs[p] = <<>> <=> Unused(p)
<1> DEFINE S == {u \in Range(tcbs[p]) : thr.state[u] # "TERMINATED"}
<1>1. tcbs[p] \in Seq(Threads) /\ IsInjective(tcbs[p])
  BY CoreTypes DEF Core, TcbInv
<1>2. \A u \in Threads :
        u \in Range(tcbs[p]) <=> thr.state[u] # "NEW" /\ thr.pcb[u] = p
  BY DEF Core, TcbInv
<1>3. Range(tcbs[p]) \subseteq Threads
  BY <1>1, RangeSubset
<1>4. \A u : u \in S <=> u \in Threads /\ Live(u) /\ thr.pcb[u] = p
  BY <1>2, <1>3 DEF Live
<1>5. IsFiniteSet(S)
  <2>1. IsFiniteSet(Range(tcbs[p]))
    BY <1>1, RangeCardinality
  <2> QED BY <2>1, FS_Subset
<1>6. AliveCount(p) = Cardinality(S)
  BY DEF AliveCount
<1>7. (AliveCount(p) = 0 <=> S = {}) /\ (AliveCount(p) = 1 => \E x : S = {x})
  <2> HIDE DEF S
  <2> QED BY <1>5, <1>6, FS_EmptySet, FS_Singleton
<1>8. AliveCount(p) = 0 <=> NoLive(p)
  <2> HIDE DEF S
  <2> QED BY <1>4, <1>7 DEF NoLive
<1>9. ASSUME AliveCount(p) = 1, NEW u \in Threads, NEW v \in Threads,
             Live(u), thr.pcb[u] = p, Live(v), thr.pcb[v] = p
      PROVE  u = v
  <2> HIDE DEF S
  <2> QED BY <1>4, <1>7, <1>9
<1>10. tcbs[p] = <<>> <=> Unused(p)
  <2>1. tcbs[p] = <<>> <=> Range(tcbs[p]) = {}
    BY <1>1, EmptyRange
  <2> QED BY <2>1, <1>2, <1>3 DEF Unused
<1> QED BY <1>8, <1>9, <1>10

\* What a step that only moves threads between lists changes: x alone may
\* stop being runnable, and the dead stay dead.
Changed(x) ==
  /\ thr'.pcb = thr.pcb
  /\ \A t \in Threads : thr'.state[t] # thr.state[t] =>
       /\ Live(t) /\ thr'.state[t] # "NEW"
       /\ t = x \/ thr'.state[t] \in {"READY", "RUNNING"}

LEMMA MovedChanged ==
  ASSUME NEW x, Moved(thr, thr', Pending, x)
  PROVE  Changed(x)
<1>1. "NEW" \notin ListIdx
  BY DEF ListIdx, Reasons
<1> QED BY <1>1 DEF Moved, Changed, Live, ListIdx, Reasons

LEMMA SameChanged ==
  ASSUME NEW x, thr'.pcb = thr.pcb, thr'.state = thr.state
  PROVE  Changed(x)
BY DEF Changed

\* The same in terms of what the invariant speaks of.
LEMMA ChangedFacts ==
  ASSUME NEW x, Changed(x)
  PROVE  /\ \A t \in Threads : Live(t)' => Live(t)
         /\ \A t \in Threads : t # x /\ Live(t) => Live(t)'
         /\ \A t \in Threads : t # x /\ Runs(t) => Runs(t)'
         /\ \A t \in Threads : t # x /\ thr'.state[t] = "VANISH_WAIT" =>
              thr.state[t] = "VANISH_WAIT"
         /\ \A t \in Threads : thr'.state[t] # "TERMINATED" =>
              thr.state[t] # "TERMINATED"
         /\ \A p \in Procs : NoLive(p) => NoLive(p)'
         /\ \A p \in Procs : Unused(p)' <=> Unused(p)
<1>1. \A t \in Threads : Live(t)' => Live(t)
  BY DEF Changed, Live
<1>2. \A t \in Threads : t # x /\ Live(t) => Live(t)'
  BY DEF Changed, Live
<1>3. \A t \in Threads : t # x /\ Runs(t) => Runs(t)'
  BY DEF Changed, Runs
<1>4. \A t \in Threads : t # x /\ thr'.state[t] = "VANISH_WAIT" =>
        thr.state[t] = "VANISH_WAIT"
  BY DEF Changed
<1>5. \A t \in Threads : thr'.state[t] # "TERMINATED" =>
        thr.state[t] # "TERMINATED"
  BY DEF Changed, Live
<1>6. \A p \in Procs : NoLive(p) => NoLive(p)'
  BY <1>1 DEF Changed, NoLive
<1>7. \A p \in Procs : Unused(p)' <=> Unused(p)
  BY DEF Changed, Unused, Live
<1> QED BY <1>1, <1>2, <1>3, <1>4, <1>5, <1>6, <1>7

\* Who works on a family and holds a lock.
LEMMA FamilyFacts ==
  ASSUME LInv
  PROVE  /\ Me \in Threads /\ Mine \in Procs /\ thr.state[Me] = "RUNNING"
         /\ Runs(Me) /\ Live(Me)
         /\ lock[Mine] = Me => Me # IdleThread
         /\ op[Me] # "user" => Me # IdleThread
         /\ Me # IdleThread => Mine # IdleProc
         /\ \A p \in Procs : lock[p] = Me => MayHold(Me, p)
         /\ lock[Mine] = Me => \A x \in Threads : x # Me /\ thr.pcb[x] = Mine =>
              \A p \in Procs : lock[p] # x
<1>1. Me \in Threads /\ Mine \in Procs /\ thr.state[Me] = "RUNNING"
  BY CoreMe DEF LInv
<1>2. Runs(Me) /\ Live(Me)
  BY <1>1 DEF Runs, Live
<1>3. NoThread \notin Threads
  BY ThreadAssumption
<1>4. \A p \in Procs : lock[p] = Me => MayHold(Me, p)
  BY <1>1, <1>3 DEF LInv, FamilyInv, HolderInv
<1>5. op[Me] # "user" => Me # IdleThread
  BY DEF LInv, FamilyInv, IdleHome
<1>6. lock[Mine] = Me => op[Me] # "user"
  BY <1>1, <1>4 DEF MayHold, LockingCalls, WaitCalls, OwnPlaces
<1>7. Me # IdleThread => Mine # IdleProc
  BY <1>1 DEF LInv, FamilyInv, IdleHome, Mine
<1>8. ASSUME lock[Mine] = Me, NEW x \in Threads, x # Me, thr.pcb[x] = Mine,
             NEW p \in Procs, lock[p] = x
      PROVE  FALSE
  <2>1. MayHold(x, p)
    BY <1>3, <1>8 DEF LInv, FamilyInv, HolderInv
  <2>2. op[x] \notin OwnPlaces
    BY <1>8 DEF LInv, FamilyInv, OwnInv
  <2>3. p = Mine
    BY <2>1, <2>2, <1>8 DEF MayHold, OwnPlaces
  <2> QED BY <2>3, <1>8
<1> QED BY <1>1, <1>2, <1>4, <1>5, <1>6, <1>7, <1>8

-----------------------------------------------------------------------------
(***************************************************************************)
(* Steps that change neither a child list nor a parent pointer nor a       *)
(* tcb_list: the caller goes from its place to o, working on child k and   *)
(* TCB n, and x, if it is a thread, stops being runnable.                  *)
(***************************************************************************)
QuietStep(x, o, k, n) ==
  /\ Changed(x)
  /\ children' = children /\ parent' = parent
  /\ op' = [op EXCEPT ![Me] = o]
  /\ kid' = [kid EXCEPT ![Me] = k]
  /\ node' = [node EXCEPT ![Me] = n]
  /\ \A p \in Procs : lock'[p] # lock[p] =>
       lock[p] \in {Me, NoThread} /\ lock'[p] \in {Me, NoThread}

\* Only a thread of the caller's process stops, under its lock.
Stops(x, o) ==
  x \in Threads =>
    /\ thr.pcb[x] = Mine /\ lock[Mine] = Me /\ o # "wait_scan"
    /\ thr'.state[x] = "VANISH_WAIT" =>
         thr.state[x] = "VANISH_WAIT" \/ (x = Me /\ o = "wait")
    /\ x = Me => o \notin Forking \cup {"wait_adopt"}

\* The caller may hold the lock of p at place o.
Can(o, k, p) ==
  \/ p = Mine /\ o \in LockingCalls \cup WaitCalls \cup OwnPlaces
  \/ o = "wait_scan" /\ (p = k \/ Before(children[Mine], k, p))
  \/ o = "wait_adopt" /\ p = InitProc

\* No other thread of the caller's process is alive.
Alone == \A u \in Threads : thr.pcb[u] = Mine /\ Live(u) => u = Me

\* What has to hold when the caller arrives at o.
Arrives(x, o, k, n) ==
  /\ k \in Procs \cup {NoProc}
  /\ Me = IdleThread => o = "user"
  /\ o \in OwnPlaces => lock'[Mine] = Me
  /\ \A p \in Procs : lock'[p] = Me => x # Me /\ Can(o, k, p)
  /\ o \in Forking =>
       \/ o = op[Me] /\ k = kid[Me] /\ n = node[Me]
       \/ o = "fork_build" /\ k = NoProc /\ Alone
  /\ o = "wait_scan" =>
       /\ k \in Range(children[Mine])
       /\ \A p \in Procs : Before(children[Mine], k, p) =>
            lock'[p] = Me /\ ~NoLive(p)
  /\ o \in Reaping => op[Me] \in Reaping /\ k = kid[Me]
  /\ o = "wait_adopt" <=> op[Me] = "wait_adopt"
  /\ o \notin Forking \cup Reaping \cup {"wait_scan"} => k = NoProc
  /\ \/ k = kid[Me]
     \/ k = NoProc
     \/ \A u \in Threads : u # Me /\ Live(u) => kid[u] # k
  /\ o \notin Inserting \cup {"task_vanish_loop"} => n = NoThread

LEMMA QuietPreserves ==
  ASSUME LInv, NEW x, NEW o, NEW k, NEW n,
         QuietStep(x, o, k, n), Stops(x, o), Arrives(x, o, k, n)
  PROVE  FamilyInv'
<1> USE DEF LInv, FamilyInv
<1>0. /\ Me \in Threads /\ Mine \in Procs /\ thr.state[Me] = "RUNNING"
      /\ Live(Me) /\ Runs(Me) /\ Mine = thr.pcb[Me] /\ NoThread \notin Threads
  BY FamilyFacts, ThreadAssumption DEF Mine
<1>1. /\ op = [t \in Threads |-> op[t]]
      /\ kid \in [Threads -> Procs \cup {NoProc}]
      /\ node \in [Threads -> Threads \cup {NoThread}]
      /\ thr.pcb \in [Threads -> Procs \cup {NoProc}]
  BY CoreTypes DEF FamilyType
<1> HIDE DEF Me, Mine
<1>2. /\ \A t \in Threads : t # Me =>
           op'[t] = op[t] /\ kid'[t] = kid[t] /\ node'[t] = node[t]
      /\ op'[Me] = o /\ kid'[Me] = k /\ node'[Me] = n
      /\ children' = children /\ parent' = parent /\ thr'.pcb = thr.pcb
  BY <1>0, <1>1, Zenon DEF QuietStep, Changed
<1>3. /\ \A t \in Threads : Live(t)' => Live(t)
      /\ \A t \in Threads : t # x /\ Live(t) => Live(t)'
      /\ \A t \in Threads : t # x /\ Runs(t) => Runs(t)'
      /\ \A t \in Threads : t # x /\ thr'.state[t] = "VANISH_WAIT" =>
           thr.state[t] = "VANISH_WAIT"
      /\ \A t \in Threads : thr'.state[t] # "TERMINATED" =>
           thr.state[t] # "TERMINATED"
      /\ \A p \in Procs : NoLive(p) => NoLive(p)'
      /\ \A p \in Procs : Unused(p)' <=> Unused(p)
  BY ChangedFacts DEF QuietStep
<1>4. \A p \in Procs, t \in Threads : t # Me =>
        (lock'[p] = t <=> lock[p] = t)
  BY <1>0 DEF QuietStep
<1>5. \A p \in Procs : lock[p] # NoThread /\ lock[p] = x => x = Me
  BY FamilyFacts, CoreTypes, <1>0 DEF Stops
<1>6. FamilyType'
  BY <1>0, <1>1, <1>2 DEF FamilyType, QuietStep, Arrives
<1>7. OwnInv'
  <2> SUFFICES ASSUME NEW t \in Threads, op'[t] \in OwnPlaces
               PROVE  lock'[thr.pcb[t]] = t
    BY <1>2 DEF OwnInv
  <2>1. CASE t = Me
    BY <2>1, <1>0, <1>2 DEF Arrives
  <2>2. CASE t # Me
    <3>1. lock[thr.pcb[t]] = t
      BY <2>2, <1>2 DEF OwnInv
    <3>2. thr.pcb[t] \in Procs
      <4>1. op[t] # "user"
        BY <2>2, <1>2 DEF OwnPlaces
      <4> QED BY <4>1 DEF Core, PendInv, TcbInv
    <3> QED BY <3>1, <3>2, <2>2, <1>4
  <2> QED BY <2>1, <2>2
<1>8. HolderInv'
  <2> SUFFICES ASSUME NEW p \in Procs, lock'[p] # NoThread
               PROVE  Runs(lock[p])' /\ MayHold(lock[p], p)'
    BY DEF HolderInv
  <2>1. CASE lock'[p] = Me
    <3>1. x # Me /\ Can(o, k, p)
      BY <2>1 DEF Arrives
    <3>2. Runs(lock[p])'
      BY <3>1, <2>1, <1>0, <1>3 DEF Runs
    <3>3. MayHold(lock[p], p)'
      BY <3>1, <2>1, <1>0, <1>2 DEF MayHold, Can
    <3> QED BY <3>2, <3>3
  <2>2. CASE lock'[p] # Me
    <3>1. lock'[p] = lock[p]
      BY <2>2 DEF QuietStep
    <3>2. lock[p] \in Threads
      BY <3>1, CoreTypes, <1>0
    <3>3. Runs(lock[p]) /\ MayHold(lock[p], p) /\ lock[p] # x
      BY <2>2, <3>1, <1>5 DEF HolderInv
    <3>4. Runs(lock[p])'
      BY <3>1, <3>2, <3>3, <1>3 DEF Runs
    <3>5. MayHold(lock[p], p)'
      BY <2>2, <3>1, <3>2, <3>3, <1>2 DEF MayHold
    <3> QED BY <3>4, <3>5
  <2> QED BY <2>1, <2>2
<1>9. \A t \in Threads : t # Me /\ Live(t) /\ op[t] \in Forking \cup OwnPlaces => t # x
  <2> SUFFICES ASSUME NEW t \in Threads, t # Me, Live(t), t = x,
                      op[t] \in Forking \cup OwnPlaces
               PROVE  FALSE
    OBVIOUS
  <2>1. thr.pcb[t] = Mine /\ lock[Mine] = Me
    BY DEF Stops
  <2>2. op[t] \notin OwnPlaces
    BY <2>1 DEF OwnInv
  <2>3. op[t] \notin Forking
    BY <2>1, <1>0 DEF ForkInv
  <2> QED BY <2>2, <2>3
<1>10. ForkInv'
  <2> SUFFICES ASSUME NEW t \in Threads, op'[t] \in Forking
               PROVE  /\ Live(t)'
                      /\ \A u \in Threads : thr.pcb[u] = thr.pcb[t] /\ Live(u)' => u = t
                      /\ op'[t] = "fork_insert" => kid'[t] # NoProc /\ thr.pcb[node'[t]] = kid'[t]
                      /\ kid'[t] # NoProc => ChildOK(t)'
    BY <1>2 DEF ForkInv
  <2>1. CASE t # Me \/ (o = op[Me] /\ k = kid[Me] /\ n = node[Me])
    <3>1. op'[t] = op[t] /\ kid'[t] = kid[t] /\ node'[t] = node[t]
      BY <2>1, <1>2
    <3>2. t # x
      BY <2>1, <3>1, <1>2, <1>9 DEF Stops, ForkInv
    <3>3. Live(t)
      BY <3>1 DEF ForkInv
    <3>4. Live(t)' /\ \A u \in Threads : thr.pcb[u] = thr.pcb[t] /\ Live(u)' => u = t
      BY <3>1, <3>2, <3>3, <1>3 DEF ForkInv
    <3>5. op'[t] = "fork_insert" => kid'[t] # NoProc /\ thr.pcb[node'[t]] = kid'[t]
      BY <3>1 DEF ForkInv
    <3>6. kid'[t] # NoProc => ChildOK(t)'
      <4> SUFFICES ASSUME kid'[t] # NoProc PROVE ChildOK(t)'
        OBVIOUS
      <4>1. ChildOK(t) /\ kid[t] \in Procs
        BY <3>1, <1>1 DEF ForkInv
      <4> QED BY <4>1, <3>1, <1>2, <1>3 DEF ChildOK
    <3> QED BY <3>4, <3>5, <3>6
  <2>2. CASE t = Me /\ o = "fork_build" /\ k = NoProc /\ Alone
    <3>1. x # Me
      BY <2>2, <1>0 DEF Stops, Forking
    <3> QED BY <3>1, <2>2, <1>0, <1>2, <1>3 DEF Alone
  <2> QED BY <2>1, <2>2, <1>2 DEF Arrives
<1>11. ScanInv'
  <2> SUFFICES ASSUME NEW t \in Threads, op'[t] = "wait_scan"
               PROVE  /\ kid'[t] \in Range(children[thr.pcb[t]])
                      /\ \A p \in Procs : Before(children[thr.pcb[t]], kid'[t], p) =>
                           lock'[p] = t /\ ~NoLive(p)'
    BY <1>2 DEF ScanInv
  <2>0. \A p \in Procs : lock[p] # Me /\ ~NoLive(p) => ~NoLive(p)'
    <3> SUFFICES ASSUME NEW p \in Procs, lock[p] # Me, ~NoLive(p) PROVE ~NoLive(p)'
      OBVIOUS
    <3>1. PICK u \in Threads : thr.pcb[u] = p /\ Live(u)
      BY DEF NoLive
    <3>2. u # x
      BY <3>1 DEF Stops
    <3> QED BY <3>1, <3>2, <1>2, <1>3 DEF NoLive
  <2>1. CASE t = Me
    <3>1. x \notin Threads
      BY <2>1, <1>2 DEF Stops
    <3>2. \A p \in Procs : ~NoLive(p) => ~NoLive(p)'
      BY <3>1, <1>2, <1>3 DEF NoLive
    <3> QED BY <2>1, <3>2, <1>0, <1>2 DEF Arrives
  <2>2. CASE t # Me
    <3>1. op[t] = "wait_scan" /\ kid'[t] = kid[t]
      BY <2>2, <1>2
    <3>2. \A p \in Procs : Before(children[thr.pcb[t]], kid[t], p) =>
            lock[p] = t /\ ~NoLive(p)
      BY <3>1 DEF ScanInv
    <3> QED BY <2>0, <2>2, <3>1, <3>2, <1>4 DEF ScanInv
  <2> QED BY <2>1, <2>2
<1>12. ReapInv'
  <2> SUFFICES ASSUME NEW t \in Threads, Live(t)', op'[t] \in Reaping
               PROVE  /\ kid'[t] \in Procs /\ parent[kid'[t]] = thr.pcb[t]
                      /\ kid'[t] \notin Range(children[thr.pcb[t]])
                      /\ NoLive(kid[t])'
                      /\ op'[t] \in Freeing => children[kid'[t]] = <<>>
    BY <1>2 DEF ReapInv
  <2>1. /\ op[t] \in Reaping /\ kid'[t] = kid[t] /\ Live(t)
        /\ op'[t] = "wait_adopt" <=> op[t] = "wait_adopt"
    BY <1>2, <1>3 DEF Arrives
  <2>2. NoLive(kid[t]) /\ kid[t] \in Procs
    BY <2>1 DEF ReapInv
  <2>3. NoLive(kid[t])'
    BY <2>1, <2>2, <1>3 DEF NoLive
  <2>4. op'[t] \in Freeing => op[t] \in Freeing
    BY <2>1 DEF Reaping, Freeing
  <2> QED BY <2>1, <2>3, <2>4 DEF ReapInv
<1>13. KidInv'
  <2>1. ASSUME NEW t \in Threads, thr'.state[t] # "TERMINATED",
               op'[t] \notin Forking \cup Reaping \cup {"wait_scan"}
        PROVE  kid'[t] = NoProc
    BY <2>1, <1>2, <1>3 DEF KidInv, Arrives
  <2>2. ASSUME NEW t \in Threads, NEW u \in Threads, Live(t)', Live(u)', t # u,
               kid'[t] # NoProc
        PROVE  kid'[t] # kid'[u]
    <3>1. Live(t) /\ Live(u)
      BY <2>2, <1>3
    <3>2. CASE t # Me /\ u # Me
      BY <2>2, <3>1, <3>2, <1>2 DEF KidInv
    <3>3. CASE t = Me
      BY <2>2, <3>1, <3>3, <1>2 DEF KidInv, Arrives
    <3>4. CASE u = Me
      BY <2>2, <3>1, <3>4, <1>2 DEF KidInv, Arrives
    <3> QED BY <3>2, <3>3, <3>4
  <2> QED BY <2>1, <2>2 DEF KidInv
<1>14. NodeInv'
  BY <1>2 DEF NodeInv, Arrives
<1>15. Kin'
  BY <1>2, <1>3 DEF Kin
<1>16. Home'
  BY <1>2, <1>3 DEF Home
<1>17. IdleHome'
  <2>1. IdleThread # x
    BY FamilyFacts, ThreadAssumption, <1>0 DEF Stops, IdleHome
  <2>2. op'[IdleThread] = "user"
    BY <1>2, ThreadAssumption DEF IdleHome, Arrives
  <2>3. Runs(IdleThread)'
    BY <2>1, <1>3, ThreadAssumption DEF IdleHome
  <2> QED BY <2>2, <2>3, <1>2 DEF IdleHome
<1>18. SleepInv'
  <2> SUFFICES ASSUME NEW t \in Threads, thr'.state[t] = "VANISH_WAIT"
               PROVE  op'[t] = "wait"
    BY DEF SleepInv
  <2>1. CASE thr.state[t] = "VANISH_WAIT"
    BY <2>1, <1>0, <1>2 DEF SleepInv
  <2>2. CASE t = Me /\ o = "wait"
    BY <2>2, <1>2
  <2> QED BY <2>1, <2>2, <1>3 DEF Stops
<1>19. Tree'
  <2>1. ASSUME NEW t \in Threads
        PROVE  Live(t)' /\ op'[t] = "wait_adopt" <=> Live(t) /\ op[t] = "wait_adopt"
    <3>1. CASE t = Me
      <4>1. o = "wait_adopt" <=> op[Me] = "wait_adopt"
        BY DEF Arrives, Reaping
      <4>2. o = "wait_adopt" => x # Me
        BY <1>0 DEF Stops
      <4> QED BY <3>1, <4>1, <4>2, <1>0, <1>2, <1>3
    <3>2. CASE t # Me
      BY <3>2, <1>2, <1>3, <1>9 DEF OwnPlaces
    <3> QED BY <3>1, <3>2
  <2>2. \A t \in Threads : op'[t] = "wait_adopt" => kid'[t] = kid[t]
    BY <1>2 DEF Arrives, Reaping
  <2>3. \A p, q \in Procs : Edge(p, q)' <=> Edge(p, q)
    BY <2>1, <2>2, <1>2 DEF Edge
  <2> QED BY <2>3 DEF Tree
<1> QED BY <1>6, <1>7, <1>8, <1>10, <1>11, <1>12, <1>13, <1>14, <1>15, <1>16,
           <1>17, <1>18, <1>19

\* Who is on the way for the children of p stays so, or the caller is.
Carries(p, x, o) ==
  /\ x \in Threads /\ x # Me =>
       /\ thr'.state[x] \in {"READY", "RUNNING", "TERMINATED"}
       /\ thr.pcb[x] = p => o = "task_vanish_loop"
  /\ Mine = p /\ op[Me] \in WaitOps \cup {"task_vanish_loop"} =>
       x # Me /\ o \in WaitOps \cup {"task_vanish_loop"}
  /\ p = InitProc /\ op[Me] \in Late =>
       x # Me /\ o \in Late

LEMMA NoticedKept ==
  ASSUME LInv, NEW x, NEW o, NEW k, NEW n, QuietStep(x, o, k, n), Stops(x, o),
         NEW p \in Procs, Carries(p, x, o), Noticed(p)
  PROVE  Noticed(p)'
<1>0. /\ Me \in Threads /\ thr.state[Me] = "RUNNING" /\ Mine = thr.pcb[Me]
      /\ Runs(Me)
  BY FamilyFacts DEF Mine
<1>1. op = [t \in Threads |-> op[t]]
  BY CoreTypes DEF LInv
<1> HIDE DEF Me, Mine
<1>2. /\ \A t \in Threads : t # Me => op'[t] = op[t]
      /\ op'[Me] = o /\ thr'.pcb = thr.pcb
  BY <1>0, <1>1, Zenon DEF QuietStep, Changed
<1>3. \A t \in Threads : t # x /\ Runs(t) => Runs(t)'
  BY ChangedFacts DEF QuietStep
<1>4. \A t \in Threads : t # x /\ thr.state[t] = "TERMINATED" =>
        thr'.state[t] = "TERMINATED"
  BY DEF QuietStep, Changed, Live
<1>5. PICK u \in Threads :
        \/ /\ Runs(u) /\ thr.pcb[u] = p
           /\ op[u] \in WaitOps \cup {"task_vanish_loop"}
        \/ /\ p = InitProc
           /\ thr.state[u] \in {"READY", "RUNNING", "TERMINATED"}
           /\ op[u] \in Late
  BY DEF Noticed
<1>6. CASE u = x /\ u # Me
  <2>1. thr'.state[x] \in {"READY", "RUNNING", "TERMINATED"}
    BY <1>6 DEF Carries
  <2>2. CASE thr.pcb[x] = p
    <3>1. o = "task_vanish_loop" /\ Mine = p
      BY <1>6, <2>2 DEF Carries, Stops
    <3>2. thr'.state[Me] \in {"READY", "RUNNING"}
      BY <1>0, <1>3, <1>6 DEF Runs
    <3> QED BY <3>1, <3>2, <1>0, <1>2 DEF Noticed, Runs
  <2>3. CASE thr.pcb[x] # p
    BY <1>2, <1>5, <1>6, <2>1, <2>3 DEF Noticed
  <2> QED BY <2>2, <2>3
<1>7. CASE u # x /\ u # Me
  <2>1. CASE Runs(u)
    <3>1. Runs(u)'
      BY <1>3, <1>7, <2>1
    <3> QED BY <3>1, <1>2, <1>5, <1>7 DEF Noticed, Runs
  <2>2. CASE ~Runs(u)
    <3>1. thr'.state[u] = "TERMINATED"
      BY <1>4, <1>5, <1>7, <2>2 DEF Runs
    <3> QED BY <3>1, <2>2, <1>2, <1>5, <1>7 DEF Noticed
  <2> QED BY <2>1, <2>2
<1>8. CASE u = Me
  <2>1. x # Me
    BY <1>0, <1>5, <1>8 DEF Carries
  <2>2. thr'.state[Me] \in {"READY", "RUNNING"}
    BY <2>1, <1>0, <1>3 DEF Runs
  <2> QED BY <2>2, <1>0, <1>2, <1>5, <1>8 DEF Noticed, Carries, Runs
<1> QED BY <1>6, <1>7, <1>8

\* A zombie stays noticed: unless a process dies or a thread goes to sleep,
\* it is enough that its parent's waiters stay noticed.
LEMMA ZombieQuiet ==
  ASSUME LInv, NEW x, NEW o, NEW k, NEW n, QuietStep(x, o, k, n), Stops(x, o),
         \A q \in Procs : NoLive(q)' => NoLive(q),
         \A t \in Threads : thr'.state[t] = "VANISH_WAIT" =>
           /\ thr.state[t] = "VANISH_WAIT"
           /\ Carries(thr.pcb[t], x, o) \/ children[thr.pcb[t]] = <<>>
  PROVE  Zombie'
<1> SUFFICES ASSUME NEW t \in Threads, thr'.state[t] = "VANISH_WAIT",
                    NEW p, p = thr.pcb[t], NEW q \in Range(children[p]),
                    NoLive(q)', ~Unused(q)'
             PROVE  Noticed(p)'
  BY DEF Zombie, QuietStep, Changed
<1>1. thr.state[t] = "VANISH_WAIT" /\ p \in Procs
  BY DEF LInv, Core, TcbInv
<1>2. children[p] \in Seq(Procs)
  BY <1>1 DEF LInv, FamilyInv, FamilyType
<1>3. q \in Procs /\ children[p] # <<>>
  BY <1>2, RangeSubset, EmptyRange
<1>4. NoLive(q) /\ ~Unused(q)
  BY <1>3, ChangedFacts DEF QuietStep
<1>5. Noticed(p)
  BY <1>1, <1>4 DEF LInv, Zombie
<1> QED BY <1>1, <1>3, <1>5, NoticedKept

\* Nobody is in the loop of task_vanish.
LEMMA NoWalk ==
  ASSUME LInv, op[Me] # "task_vanish_loop", NEW o, o # "task_vanish_loop",
         op' = [op EXCEPT ![Me] = o]
  PROVE  /\ \A t \in Threads : op[t] # "task_vanish_loop"
         /\ WalkInv'
<1>1. \A t \in Threads : op[t] # "task_vanish_loop"
  BY DEF LInv, WalkInv
<1>2. op = [t \in Threads |-> op[t]] /\ Me \in Threads
  BY CoreTypes, CoreMe DEF LInv
<1>3. \A t \in Threads : op'[t] # "task_vanish_loop"
  BY <1>1, <1>2
<1> QED BY <1>1, <1>3 DEF WalkInv

\* A step at which nobody stops and nobody's waiter is forgotten.
LEMMA CalmPreserves ==
  ASSUME LInv, Core', NEW o, NEW k, NEW n, QuietStep(NoThread, o, k, n),
         Arrives(NoThread, o, k, n),
         op[Me] \in WaitOps \cup {"task_vanish_loop"} =>
           o \in WaitOps \cup {"task_vanish_loop"} \/ children[Mine] = <<>>,
         op[Me] \in Late => o \in Late
  PROVE  FamilyInv' /\ Zombie'
<1>1. NoThread \notin Threads /\ Me \in Threads
  BY FamilyFacts, ThreadAssumption
<1>2. Stops(NoThread, o)
  BY <1>1 DEF Stops
<1>3. FamilyInv'
  BY <1>2, QuietPreserves
<1>4. \A q \in Procs : NoLive(q)' => NoLive(q)
  BY <1>1, ChangedFacts DEF QuietStep, NoLive, Changed
<1>5. \A t \in Threads : thr'.state[t] = "VANISH_WAIT" =>
           /\ thr.state[t] = "VANISH_WAIT"
           /\ Carries(thr.pcb[t], NoThread, o) \/ children[thr.pcb[t]] = <<>>
  BY <1>1, ChangedFacts DEF QuietStep, Carries
<1>6. Zombie'
  BY <1>2, <1>4, <1>5, ZombieQuiet
<1> QED BY <1>3, <1>6

-----------------------------------------------------------------------------
(***************************************************************************)
(* Preemption, yields and taking locks: the caller stays where it is.      *)
(***************************************************************************)

\* Places before and after which a lock is taken or given up keep this.
LEMMA HereArrives ==
  ASSUME LInv, NEW p \in Procs,
         \/ lock' = lock
         \/ /\ lock[p] = NoThread /\ lock' = [lock EXCEPT ![p] = Me]
            /\ Can(op[Me], kid[Me], p)
  PROVE  Arrives(NoThread, op[Me], kid[Me], node[Me])
<1> USE DEF LInv, FamilyInv
<1>0. /\ Me \in Threads /\ Mine \in Procs /\ Mine = thr.pcb[Me]
      /\ NoThread \notin Threads /\ Runs(Me) /\ Live(Me)
      /\ thr.state[Me] # "TERMINATED"
  BY FamilyFacts, ThreadAssumption DEF Mine
<1>1. /\ lock \in [Procs -> Threads \cup {NoThread}]
      /\ kid \in [Threads -> Procs \cup {NoProc}]
  BY CoreTypes DEF FamilyType
<1>2. \A q \in Procs : lock[q] = Me => lock'[q] = Me
  BY <1>1
<1>3. \A q \in Procs : lock[q] = Me => Can(op[Me], kid[Me], q)
  BY <1>0, FamilyFacts DEF Can, MayHold
<1> HIDE DEF Me, Mine
<1>4. \A q \in Procs : lock'[q] = Me => Can(op[Me], kid[Me], q)
  BY <1>1, <1>3
<1>5. Me = IdleThread => op[Me] = "user"
  BY DEF IdleHome
<1>6. op[Me] \in OwnPlaces => lock'[Mine] = Me
  BY <1>0, <1>2 DEF OwnInv
<1>7. op[Me] = "wait_scan" =>
       /\ kid[Me] \in Range(children[Mine])
       /\ \A q \in Procs : Before(children[Mine], kid[Me], q) =>
            lock'[q] = Me /\ ~NoLive(q)
  BY <1>0, <1>2 DEF ScanInv
<1>8. op[Me] \notin Forking \cup Reaping \cup {"wait_scan"} => kid[Me] = NoProc
  BY <1>0 DEF KidInv
<1>9. op[Me] \notin Inserting \cup {"task_vanish_loop"} => node[Me] = NoThread
  BY <1>0 DEF NodeInv
<1>10. kid[Me] \in Procs \cup {NoProc}
  BY <1>0, <1>1
<1> QED BY <1>0, <1>4, <1>5, <1>6, <1>7, <1>8, <1>9, <1>10 DEF Arrives

LEMMA StayPreserves ==
  ASSUME LInv, op[Me] # "task_vanish_loop",
         Moved(thr, thr', Pending, NoThread),
         UNCHANGED <<tcbs, parent, op, node, children, kid>>,
         NEW p \in Procs,
         \/ lock' = lock
         \/ /\ lock[p] = NoThread /\ lock' = [lock EXCEPT ![p] = Me]
            /\ Can(op[Me], kid[Me], p)
  PROVE  LInv'
<1>0. Me \in Threads /\ NoThread \notin Threads
  BY FamilyFacts, ThreadAssumption
<1>1. /\ op = [t \in Threads |-> op[t]]
      /\ lock \in [Procs -> Threads \cup {NoThread}]
      /\ kid \in [Threads -> Procs \cup {NoProc}]
      /\ node \in [Threads -> Threads \cup {NoThread}]
  BY CoreTypes DEF LInv, FamilyInv, FamilyType
<1>2. Arrives(NoThread, op[Me], kid[Me], node[Me])
  BY HereArrives
<1>3. Changed(NoThread)
  BY MovedChanged
<1> HIDE DEF Me, Mine
<1>4. /\ op' = [op EXCEPT ![Me] = op[Me]]
      /\ kid' = [kid EXCEPT ![Me] = kid[Me]]
      /\ node' = [node EXCEPT ![Me] = node[Me]]
  BY <1>0, <1>1
<1>5. /\ lock' \in [Procs -> Threads \cup {NoThread}]
      /\ \A q \in Procs : lock'[q] # lock[q] =>
           lock[q] \in {Me, NoThread} /\ lock'[q] \in {Me, NoThread}
  BY <1>0, <1>1
<1>6. Core'
  <2>1. op[Me] \in {"thread_fork_insert", "task_vanish_loop"} =>
           lock'[Mine] = Me /\ node[Me] \in Range(tcbs[Mine])
    BY <1>0, <1>2 DEF Arrives, OwnPlaces, LInv, Core, HoldInv, Mine
  <2>2. node[Me] \in Threads \cup {NoThread} /\ Core
    BY <1>0, <1>1 DEF LInv
  <2> QED BY <1>4, <1>5, <2>1, <2>2, CoreMoved
<1>7. QuietStep(NoThread, op[Me], kid[Me], node[Me])
  BY <1>3, <1>4, <1>5 DEF QuietStep
<1>8. FamilyInv' /\ Zombie'
  BY <1>2, <1>6, <1>7, CalmPreserves
<1>9. WalkInv'
  BY <1>4, NoWalk
<1> QED BY <1>6, <1>8, <1>9 DEF LInv

LEMMA TimerFamily ==
  ASSUME LInv, Timer, UNCHANGED family
  PROVE  LInv'
<1>1. Moved(thr, thr', Pending, NoThread)
  BY TimerMoved DEF LInv
<1>2. PICK p \in Procs : p = Mine
  BY FamilyFacts
<1> QED BY <1>1, <1>2, StayPreserves DEF Timer, InterruptsEnabled, family

LEMMA YieldFamily ==
  ASSUME LInv, NEW t, Yield(t), UNCHANGED family
  PROVE  LInv'
<1>1. Moved(thr, thr', Pending, NoThread)
  BY TakeTurnMoved, YieldToMoved DEF Yield, LInv, Core
<1>2. PICK p \in Procs : p = Mine
  BY FamilyFacts
<1> QED BY <1>1, <1>2, StayPreserves DEF Yield, family

\* mutex_lock of the PCB lock of p, at a place where the caller may hold it.
LEMMA SpinPreserves ==
  ASSUME LInv, NEW p \in Procs, SpinLock(p), Can(op[Me], kid[Me], p),
         op[Me] # "task_vanish_loop",
         UNCHANGED <<tcbs, parent, op, node, children, kid>>
  PROVE  LInv'
<1>1. Good(thr, Pending)
  BY DEF LInv, Core
<1>2. CASE lock[p] = NoThread /\ lock' = [lock EXCEPT ![p] = Me] /\ UNCHANGED thr
  <2>1. Moved(thr, thr', Pending, NoThread)
    BY <1>1, <1>2, MovedSelf
  <2> QED BY <1>2, <2>1, StayPreserves
<1>3. CASE /\ thr' = YieldTo(thr, lock[p]) \/ thr' = TakeTurn(thr)
           /\ UNCHANGED lock
  <2>1. Moved(thr, thr', Pending, NoThread)
    BY <1>1, <1>3, YieldToMoved, TakeTurnMoved
  <2> QED BY <1>3, <2>1, StayPreserves
<1> QED BY <1>2, <1>3 DEF SpinLock

LEMMA LockOwnFamily ==
  ASSUME LInv, SpinLock(Mine), op[Me] \in LockingCalls \cup WaitCalls,
         UNCHANGED <<tcbs, parent, op, node, children, kid>>
  PROVE  LInv'
<1>1. PICK p \in Procs : p = Mine
  BY FamilyFacts
<1>2. Can(op[Me], kid[Me], p) /\ op[Me] # "task_vanish_loop"
  BY <1>1 DEF Can, LockingCalls, WaitCalls
<1> QED BY <1>1, <1>2, SpinPreserves

LEMMA MutexLockFamily ==
  ASSUME LInv, (MutexLock /\ UNCHANGED family) \/ MutexLockOwn
  PROVE  LInv'
BY LockOwnFamily DEF MutexLock, MutexLockOwn, family

LEMMA WaitLockFamily ==
  ASSUME LInv, WaitLockChild \/ WaitLockInit
  PROVE  LInv'
<1>1. CASE WaitLockChild
  <2>1. PICK p \in Procs : p = kid[Me]
    <3>1. kid[Me] \in Range(children[Mine]) /\ children[Mine] \in Seq(Procs)
      BY <1>1, FamilyFacts
         DEF WaitLockChild, LInv, FamilyInv, ScanInv, FamilyType, Mine
    <3> QED BY <3>1, RangeSubset
  <2>2. Can(op[Me], kid[Me], p) /\ op[Me] # "task_vanish_loop"
    BY <1>1, <2>1 DEF Can, WaitLockChild
  <2> QED BY <1>1, <2>1, <2>2, SpinPreserves DEF WaitLockChild, family
<1>2. CASE WaitLockInit
  <2>1. PICK p \in Procs : p = InitProc
    BY ProcAssumption
  <2>2. Can(op[Me], kid[Me], p) /\ op[Me] # "task_vanish_loop"
    BY <1>2, <2>1 DEF Can, WaitLockInit
  <2> QED BY <1>2, <2>1, <2>2, SpinPreserves DEF WaitLockInit, family
<1> QED BY <1>1, <1>2

\* LInv depends on these variables only.
LEMMA SamePreserves ==
  ASSUME LInv, UNCHANGED <<thr, tcbs, parent, lock, op, node, children, kid>>
  PROVE  LInv'
<1>1. Core'
  <2>1. Pending' = Pending
    BY DEF Pending
  <2>2. TcbInv' /\ HoldInv' /\ PendInv'
    BY <2>1 DEF LInv, Core, TcbInv, HoldInv, PendInv
  <2> QED BY <2>1, <2>2 DEF LInv, Core
<1>2. WalkInv'
  BY DEF LInv, WalkInv, Me, Mine
<1>3. Zombie'
  BY DEF LInv, Zombie, NoLive, Unused, Live, Noticed, Runs
<1>4. FamilyType' /\ OwnInv' /\ NodeInv' /\ IdleHome' /\ SleepInv'
  BY DEF LInv, FamilyInv, FamilyType, OwnInv, NodeInv, IdleHome, Runs, SleepInv
<1>5. HolderInv'
  BY DEF LInv, FamilyInv, HolderInv, MayHold, Runs
<1>6. ForkInv'
  BY DEF LInv, FamilyInv, ForkInv, ChildOK, Live, Unused
<1>7. ScanInv' /\ ReapInv'
  BY DEF LInv, FamilyInv, ScanInv, ReapInv, NoLive, Live
<1>8. KidInv' /\ Home'
  BY DEF LInv, FamilyInv, KidInv, Home, Live
<1>9. Kin'
  BY DEF LInv, FamilyInv, Kin, Unused
<1>10. Tree'
  BY DEF LInv, FamilyInv, Tree, Edge, Live
<1> QED BY <1>1, <1>2, <1>3, <1>4, <1>5, <1>6, <1>7, <1>8, <1>9, <1>10
        DEF LInv, FamilyInv

-----------------------------------------------------------------------------
(***************************************************************************)
(* The caller moves on and may give up the lock of its own process.        *)
(***************************************************************************)

\* Outside of the scan and of the hand-over a thread holds no lock but that
\* of its own process.
LEMMA OwnLockOnly ==
  ASSUME LInv, op[Me] \notin {"wait_scan", "wait_adopt"},
         NEW p \in Procs, lock[p] = Me
  PROVE  /\ p = Mine
         /\ op[Me] \in LockingCalls \cup WaitCalls
              \cup {"thread_fork_insert", "task_vanish_loop"}
BY FamilyFacts DEF MayHold, OwnPlaces, Mine

LEMMA MoveOn ==
  ASSUME LInv, NEW o, o \notin OwnPlaces \cup Reaping \cup Inserting,
         o = "fork_build" => Alone,
         op[Me] \notin OwnPlaces \cup Inserting, Me # IdleThread,
         Moved(thr, thr', Pending, NoThread),
         op' = [op EXCEPT ![Me] = o], UNCHANGED <<tcbs, parent, node, children>>,
         kid[Me] = NoProc, kid' = kid,
         \/ lock' = [lock EXCEPT ![Mine] = NoThread] /\ lock[Mine] = Me
         \/ lock' = lock /\ lock[Mine] # Me
  PROVE  /\ Core' /\ FamilyInv' /\ WalkInv'
         /\ QuietStep(NoThread, o, NoProc, NoThread)
         /\ Arrives(NoThread, o, NoProc, NoThread)
<1>0. Me \in Threads /\ Mine \in Procs /\ NoThread \notin Threads
  BY FamilyFacts, ThreadAssumption
<1>1. /\ op = [t \in Threads |-> op[t]]
      /\ lock \in [Procs -> Threads \cup {NoThread}]
      /\ kid \in [Threads -> Procs \cup {NoProc}]
      /\ node \in [Threads -> Threads \cup {NoThread}]
  BY CoreTypes DEF LInv, FamilyInv, FamilyType
<1>2. node[Me] = NoThread
  BY <1>0 DEF LInv, FamilyInv, NodeInv, OwnPlaces
<1>3. \A p \in Procs : lock[p] = Me => p = Mine
  BY OwnLockOnly DEF OwnPlaces
<1> HIDE DEF Me, Mine
<1>4. /\ kid' = [kid EXCEPT ![Me] = NoProc]
      /\ node' = [node EXCEPT ![Me] = NoThread]
  BY <1>0, <1>1, <1>2
<1>5. /\ lock' \in [Procs -> Threads \cup {NoThread}]
      /\ \A p \in Procs : lock'[p] # lock[p] =>
           lock[p] \in {Me, NoThread} /\ lock'[p] \in {Me, NoThread}
      /\ \A p \in Procs : lock'[p] # Me
  BY <1>0, <1>1, <1>3
<1>6. Core'
  <2>1. o \notin {"thread_fork_insert", "task_vanish_loop"}
    BY DEF OwnPlaces
  <2>2. Core
    BY DEF LInv
  <2>3. PICK n \in Threads \cup {NoThread} : n = NoThread
    OBVIOUS
  <2> QED BY <1>4, <1>5, <2>1, <2>2, <2>3, CoreMoved
<1>7. QuietStep(NoThread, o, NoProc, NoThread)
  BY <1>4, <1>5, MovedChanged DEF QuietStep
<1>8. Arrives(NoThread, o, NoProc, NoThread)
  BY <1>5 DEF Arrives, OwnPlaces, Reaping, Forking, Inserting
<1>9. Stops(NoThread, o)
  BY <1>0 DEF Stops
<1>10. FamilyInv'
  BY <1>7, <1>8, <1>9, QuietPreserves
<1>11. WalkInv'
  BY NoWalk DEF OwnPlaces
<1> QED BY <1>6, <1>7, <1>8, <1>10, <1>11

\* A call that is left outside of wait, or with no child.
LEMMA LeavePreserves ==
  ASSUME LInv, NEW o, o \notin OwnPlaces \cup Reaping \cup Inserting,
         o = "fork_build" => Alone,
         op[Me] \notin OwnPlaces \cup Inserting, Me # IdleThread,
         UNCHANGED thr,
         op' = [op EXCEPT ![Me] = o], UNCHANGED <<tcbs, parent, node, children>>,
         kid[Me] = NoProc, kid' = kid,
         \/ lock' = [lock EXCEPT ![Mine] = NoThread] /\ lock[Mine] = Me
         \/ lock' = lock /\ lock[Mine] # Me,
         op[Me] \in WaitOps => op[Me] = "wait" /\ children[Mine] = <<>>
  PROVE  LInv'
<1>1. Moved(thr, thr', Pending, NoThread)
  BY MovedSelf DEF LInv, Core
<1>2. /\ Core' /\ FamilyInv' /\ WalkInv'
      /\ QuietStep(NoThread, o, NoProc, NoThread)
      /\ Arrives(NoThread, o, NoProc, NoThread)
  BY <1>1, MoveOn
<1>3. op[Me] \in WaitOps \cup {"task_vanish_loop"} => children[Mine] = <<>>
  BY DEF OwnPlaces
<1>4. op[Me] \notin Late
  BY DEF WaitOps, Late
<1>5. Zombie'
  BY <1>2, <1>3, <1>4, CalmPreserves
<1> QED BY <1>2, <1>5 DEF LInv

\* Outside of fork and wait the caller works on no child.
LEMMA NoKid ==
  ASSUME LInv, op[Me] \notin Forking \cup Reaping \cup {"wait_scan"}
  PROVE  kid[Me] = NoProc
BY FamilyFacts DEF LInv, FamilyInv, KidInv

LEMMA CallFamily ==
  ASSUME LInv, NEW o \in LockingCalls \cup WaitCalls, Call(o), UNCHANGED family
  PROVE  LInv'
<1>1. op[Me] = "user" /\ Me # IdleThread
  BY DEF Call
<1>2. o \notin OwnPlaces \cup Reaping \cup Inserting /\ o # "fork_build"
  BY DEF LockingCalls, WaitCalls, OwnPlaces, Reaping, Inserting
<1>3. kid[Me] = NoProc
  BY <1>1, NoKid DEF Forking, Reaping
<1>4. lock[Mine] # Me
  BY <1>1, OwnLockOnly, FamilyFacts DEF LockingCalls, WaitCalls
<1>5. op[Me] \notin OwnPlaces \cup Inserting /\ op[Me] \notin WaitOps
  BY <1>1 DEF OwnPlaces, Inserting, WaitOps
<1> QED BY <1>1, <1>2, <1>3, <1>4, <1>5, LeavePreserves DEF Call, Goto, family

\* The lock is released and the call left.
LEMMA UnlockFamily ==
  ASSUME LInv, lock[Mine] = Me, Unlock,
         op[Me] \in {"thread_fork", "fork", "fault", "wait"},
         op[Me] = "wait" => children[Mine] = <<>>,
         NEW o \in {"user", "fork_build", "fault_last", "vanish"}, Goto(o),
         o = "fork_build" => Alone,
         UNCHANGED <<thr, tcbs, parent, node, children, kid>>
  PROVE  LInv'
<1>1. Me # IdleThread
  BY FamilyFacts
<1>2. o \notin OwnPlaces \cup Reaping \cup Inserting
  BY DEF OwnPlaces, Reaping, Inserting
<1>3. kid[Me] = NoProc
  BY NoKid DEF Forking, Reaping
<1>4. op[Me] \notin OwnPlaces \cup Inserting
  BY DEF OwnPlaces, Inserting
<1>5. op[Me] \in WaitOps => op[Me] = "wait"
  BY DEF WaitOps
<1> QED BY <1>1, <1>2, <1>3, <1>4, <1>5, LeavePreserves DEF Unlock, Goto

LEMMA ForkCheckFamily ==
  ASSUME LInv, ForkCheck, UNCHANGED family
  PROVE  LInv'
<1>1. PICK o \in {"user", "fork_build", "fault_last", "vanish"} :
        o = IF AliveCount(Mine) = 1 THEN "fork_build" ELSE "user"
  OBVIOUS
<1>2. o = "fork_build" => Alone
  <2>1. Mine \in Procs /\ Live(Me) /\ Me \in Threads /\ Mine = thr.pcb[Me] /\ Core
    BY FamilyFacts DEF Mine, LInv
  <2> QED BY <1>1, <2>1, CountMeaning DEF Alone
<1> QED BY <1>1, <1>2, UnlockFamily DEF ForkCheck, Holding, family

LEMMA ThreadForkRefused ==
  ASSUME LInv, ThreadForkFail, Holding("thread_fork"), UNCHANGED family
  PROVE  LInv'
<1>1. UNCHANGED <<thr, tcbs, node>> /\ op[Me] = "thread_fork" /\ lock[Mine] = Me
  BY DEF ThreadForkFail, Holding
<1>2. PICK o \in {"user", "fork_build", "fault_last", "vanish"} : o = "user"
  OBVIOUS
<1> QED BY <1>1, <1>2, UnlockFamily DEF ThreadForkFail, family

LEMMA FaultCountFamily ==
  ASSUME LInv, FaultCount
  PROVE  LInv'
<1>1. PICK o \in {"user", "fork_build", "fault_last", "vanish"} :
        o = IF AliveCount(Mine) <= 1 THEN "fault_last" ELSE "vanish"
  OBVIOUS
<1> QED BY <1>1, UnlockFamily DEF FaultCount, Holding, family

LEMMA FaultLastFamily ==
  ASSUME LInv, FaultLast
  PROVE  LInv'
<1>1. op[Me] = "fault_last" /\ Me # IdleThread
  BY FamilyFacts DEF FaultLast
<1>2. PICK o : o = "vanish"
  OBVIOUS
<1>3. o \notin OwnPlaces \cup Reaping \cup Inserting /\ o # "fork_build"
  BY <1>2 DEF OwnPlaces, Reaping, Inserting
<1>4. kid[Me] = NoProc
  BY <1>1, NoKid DEF Forking, Reaping
<1>5. lock[Mine] # Me
  BY <1>1, OwnLockOnly, FamilyFacts DEF LockingCalls, WaitCalls
<1>6. op[Me] \notin OwnPlaces \cup Inserting /\ op[Me] \notin WaitOps
  BY <1>1 DEF OwnPlaces, Inserting, WaitOps
<1> QED BY <1>1, <1>2, <1>3, <1>4, <1>5, <1>6, LeavePreserves
        DEF FaultLast, Goto

LEMMA WaitNoneFamily ==
  ASSUME LInv, WaitNone
  PROVE  LInv'
<1>1. PICK o \in {"user", "fork_build", "fault_last", "vanish"} : o = "user"
  OBVIOUS
<1> QED BY <1>1, UnlockFamily DEF WaitNone, Holding, family

\* fork finds no memory for the child's PCB.
LEMMA ForkRefused ==
  ASSUME LInv, ForkUndo, kid[Me] = NoProc
  PROVE  LInv'
<1>1. op[Me] \in Forking /\ Me # IdleThread
  BY FamilyFacts DEF ForkUndo, Forking
<1>2. op[Me] = "fork_build"
  BY <1>1, FamilyFacts DEF Forking, LInv, FamilyInv, ForkInv
<1>3. UNCHANGED <<thr, tcbs, parent, node, lock, children, kid>> /\ Goto("user")
  BY <1>2 DEF ForkUndo, ForkFail, family
<1>4. PICK o : o = "user"
  OBVIOUS
<1>5. o \notin OwnPlaces \cup Reaping \cup Inserting /\ o # "fork_build"
  BY <1>4 DEF OwnPlaces, Reaping, Inserting
<1>6. lock[Mine] # Me
  BY <1>2, OwnLockOnly, FamilyFacts DEF LockingCalls, WaitCalls
<1>7. op[Me] \notin OwnPlaces \cup Inserting /\ op[Me] \notin WaitOps
  BY <1>2 DEF OwnPlaces, Inserting, WaitOps
<1> QED BY <1>1, <1>3, <1>4, <1>5, <1>6, <1>7, LeavePreserves DEF Goto

\* thread_fork and fork link the node of the new thread.
LEMMA LinkFamily ==
  ASSUME LInv, op[Me] \in Inserting, op' = [op EXCEPT ![Me] = "user"],
         node' = [node EXCEPT ![Me] = NoThread],
         NEW i \in 1..Len(thr.list["READY"]) + 1,
         thr' = LinkReady(node[Me], i), UNCHANGED <<tcbs, parent, children>>,
         kid' = [kid EXCEPT ![Me] = NoProc],
         \/ lock' = [lock EXCEPT ![Mine] = NoThread] /\ lock[Mine] = Me
         \/ lock' = lock /\ lock[Mine] # Me
  PROVE  LInv'
<1>0. Me \in Threads /\ Mine \in Procs /\ NoThread \notin Threads
  BY FamilyFacts, ThreadAssumption
<1>1. lock \in [Procs -> Threads \cup {NoThread}] /\ Core
  BY CoreTypes DEF LInv
<1>2. \A p \in Procs : lock[p] = Me => p = Mine
  BY OwnLockOnly DEF Inserting
<1>3. /\ lock' \in [Procs -> Threads \cup {NoThread}]
      /\ \A p \in Procs : lock'[p] # lock[p] =>
           lock[p] \in {Me, NoThread} /\ lock'[p] \in {Me, NoThread}
      /\ \A p \in Procs : lock'[p] # Me
  <2> HIDE DEF Me, Mine
  <2> QED BY <1>0, <1>1, <1>2
<1>4. Core' /\ thr'.state = thr.state /\ thr'.pcb = thr.pcb
  BY <1>1, <1>3, CoreLink
<1>5. QuietStep(NoThread, "user", NoProc, NoThread)
  BY <1>3, <1>4, SameChanged DEF QuietStep
<1>6. Arrives(NoThread, "user", NoProc, NoThread)
  BY <1>3 DEF Arrives, OwnPlaces, Reaping, Forking, Inserting
<1>7. op[Me] \notin WaitOps \cup {"task_vanish_loop"}
  BY DEF Inserting, WaitOps
<1>8. FamilyInv' /\ Zombie'
  BY <1>4, <1>5, <1>6, <1>7, CalmPreserves DEF WaitOps, Late
<1>9. WalkInv'
  <2>1. PICK o : o = "user"
    OBVIOUS
  <2> QED BY <1>7, <2>1, NoWalk
<1> QED BY <1>4, <1>8, <1>9 DEF LInv

LEMMA ThreadForkInsertFamily ==
  ASSUME LInv, ThreadForkInsert, UNCHANGED family
  PROVE  LInv'
<1>1. op[Me] = "thread_fork_insert" /\ op[Me] \in Inserting /\ lock[Mine] = Me
  BY DEF ThreadForkInsert, Holding, Inserting
<1>2. PICK i \in 1..Len(thr.list["READY"]) + 1 : i = ReadySlot(thr, Mine)
  BY ReadySlotRange DEF LInv
<1>3. kid' = [kid EXCEPT ![Me] = NoProc]
  <2>1. kid[Me] = NoProc
    BY <1>1, NoKid DEF Forking, Reaping
  <2> QED BY <2>1 DEF family, LInv, FamilyInv, FamilyType
<1> QED BY <1>1, <1>2, <1>3, LinkFamily
        DEF ThreadForkInsert, Goto, Unlock, family

LEMMA ForkDoneFamily ==
  ASSUME LInv, ForkDone
  PROVE  LInv'
<1>1. op[Me] = "fork_insert" /\ op[Me] \in Inserting
  BY DEF ForkDone, ForkInsert, Inserting
<1>2. PICK i \in 1..Len(thr.list["READY"]) + 1 : i = Len(thr.list["READY"]) + 1
  <2>1. thr.list["READY"] \in Seq(Threads)
    BY CoreTypes, ListIdxFacts DEF LInv
  <2> QED BY <2>1
<1>3. lock[Mine] # Me
  BY <1>1, OwnLockOnly, FamilyFacts DEF LockingCalls, WaitCalls
<1> QED BY <1>1, <1>2, <1>3, LinkFamily DEF ForkDone, ForkInsert, Goto, SetKid

LEMMA TaskVanishBeginFamily ==
  ASSUME LInv, TaskVanishBegin, UNCHANGED family
  PROVE  LInv'
<1>0. /\ Me \in Threads /\ Mine \in Procs /\ NoThread \notin Threads /\ Core
      /\ op[Me] = "task_vanish" /\ lock[Mine] = Me /\ Me # IdleThread
  BY FamilyFacts, ThreadAssumption DEF LInv, TaskVanishBegin, Holding
<1>1. PICK o : o = "task_vanish_loop"
  OBVIOUS
<1>2. PICK n \in Threads \cup {NoThread} : n = Head(tcbs[Mine])
  BY <1>0, HeadTcb
<1>3. /\ op' = [op EXCEPT ![Me] = o] /\ node' = [node EXCEPT ![Me] = n]
      /\ UNCHANGED <<thr, tcbs, parent, lock, children, kid>>
  BY <1>1, <1>2 DEF TaskVanishBegin, Goto, family
<1>4. lock \in [Procs -> Threads \cup {NoThread}] /\ kid[Me] = NoProc
  BY <1>0, CoreTypes, NoKid DEF Forking, Reaping
<1>5. kid' = [kid EXCEPT ![Me] = NoProc]
  BY <1>3, <1>4 DEF LInv, FamilyInv, FamilyType
<1>6. Moved(thr, thr', Pending, NoThread)
  BY <1>3, MovedSelf DEF LInv, Core
<1>7. Core'
  <2>1. op[Me] \notin Inserting /\ o \notin Inserting
    BY <1>0, <1>1 DEF Inserting
  <2>2. n \in Range(tcbs[Mine])
    BY <1>0, <1>2, HeadTcb
  <2> QED BY <1>0, <1>3, <1>4, <1>6, <2>1, <2>2, CoreMoved
<1>8. QuietStep(NoThread, o, NoProc, n)
  BY <1>3, <1>5, <1>6, MovedChanged DEF QuietStep
<1>9. \A p \in Procs : lock[p] = Me => p = Mine
  BY <1>0, OwnLockOnly
<1>10. Arrives(NoThread, o, NoProc, n)
  <2> HIDE DEF Me, Mine
  <2> QED BY <1>0, <1>1, <1>3, <1>9
          DEF Arrives, OwnPlaces, Reaping, Forking, Inserting, Can
<1>11. FamilyInv' /\ Zombie'
  BY <1>0, <1>1, <1>7, <1>8, <1>10, CalmPreserves DEF WaitOps, Late
<1>12. WalkInv'
  <2>1. \A t \in Threads : op[t] # "task_vanish_loop"
    BY <1>0 DEF LInv, WalkInv
  <2> QED BY <1>0, <2>1, WalkBegins
<1> QED BY <1>7, <1>11, <1>12 DEF LInv

-----------------------------------------------------------------------------
(***************************************************************************)
(* The scan of the children.                                               *)
(***************************************************************************)
LEMMA BeforeFacts ==
  ASSUME NEW S, NEW s \in Seq(S), IsInjective(s)
  PROVE  /\ s # <<>> => \A p : ~Before(s, Head(s), p)
         /\ \A p, q : Before(s, q, p) => p \in Range(s) /\ p # q
         /\ \A i \in 1..Len(s) : i + 1 \in 1..Len(s) =>
              \A p : Before(s, s[i + 1], p) <=> p = s[i] \/ Before(s, s[i], p)
         /\ \A p \in Range(s) : p = Last(s) \/ Before(s, Last(s), p)
<1>0. Len(s) \in Nat /\ DOMAIN s = 1..Len(s)
  BY LenProperties
<1>1. \A i, j \in 1..Len(s) : s[i] = s[j] => i = j
  BY <1>0 DEF IsInjective
<1>2. s # <<>> => \A p : ~Before(s, Head(s), p)
  <2> SUFFICES ASSUME s # <<>> PROVE \A p : ~Before(s, Head(s), p)
    OBVIOUS
  <2>1. 1 \in 1..Len(s) /\ Head(s) = s[1]
    BY <1>0
  <2> QED BY <1>0, <1>1, <2>1 DEF Before
<1>3. \A p, q : Before(s, q, p) => p \in Range(s) /\ p # q
  BY <1>0, <1>1 DEF Before, Range
<1>4. ASSUME NEW i \in 1..Len(s), i + 1 \in 1..Len(s), NEW p,
             Before(s, s[i + 1], p)
      PROVE  p = s[i] \/ Before(s, s[i], p)
  <2>1. PICK a, b \in 1..Len(s) : a < b /\ s[a] = p /\ s[b] = s[i + 1]
    BY <1>4 DEF Before
  <2>2. b = i + 1
    BY <1>1, <1>4, <2>1
  <2>3. a = i \/ a < i
    BY <2>1, <2>2
  <2> QED BY <1>4, <2>1, <2>3 DEF Before
<1>5. ASSUME NEW i \in 1..Len(s), i + 1 \in 1..Len(s), NEW p,
             p = s[i] \/ Before(s, s[i], p)
      PROVE  Before(s, s[i + 1], p)
  <2>1. i < i + 1
    OBVIOUS
  <2>2. CASE p = s[i]
    BY <1>5, <2>1, <2>2 DEF Before
  <2>3. CASE Before(s, s[i], p)
    <3>1. PICK a, b \in 1..Len(s) : a < b /\ s[a] = p /\ s[b] = s[i]
      BY <2>3 DEF Before
    <3>2. b = i
      BY <1>1, <3>1
    <3>3. a < i + 1
      BY <3>1, <3>2
    <3> QED BY <1>5, <3>1, <3>3 DEF Before
  <2> QED BY <1>5, <2>2, <2>3
<1>6. ASSUME NEW p \in Range(s) PROVE p = Last(s) \/ Before(s, Last(s), p)
  <2>1. PICK i \in 1..Len(s) : s[i] = p
    BY <1>0 DEF Range
  <2>2. Len(s) \in 1..Len(s) /\ Last(s) = s[Len(s)]
    BY <1>0, <2>1 DEF Last
  <2>3. i = Len(s) \/ i < Len(s)
    <3>1. \A n \in Nat : \A j \in 1..n : j = n \/ j < n
      OBVIOUS
    <3> QED BY ONLY <1>0, <3>1, i \in 1..Len(s)
  <2> QED BY <2>1, <2>2, <2>3 DEF Before
<1> QED BY <1>2, <1>3, <1>4, <1>5, <1>6

\* The child that wait looks at, in the list.
LEMMA KidPlace ==
  ASSUME LInv, op[Me] = "wait_scan"
  PROVE  /\ children[Mine] \in Seq(Procs) /\ IsInjective(children[Mine])
         /\ children[Mine] # <<>>
         /\ lock[Mine] = Me /\ Me # IdleThread
         /\ kid[Me] \in Range(children[Mine]) /\ kid[Me] \in Procs
         /\ KidIndex \in 1..Len(children[Mine])
         /\ children[Mine][KidIndex] = kid[Me]
         /\ \A p \in Procs : Before(children[Mine], kid[Me], p) =>
              lock[p] = Me /\ ~NoLive(p)
<1>0. Me \in Threads /\ Mine \in Procs /\ Mine = thr.pcb[Me]
  BY FamilyFacts DEF Mine
<1> HIDE DEF Me, Mine
<1>1. /\ children[Mine] \in Seq(Procs) /\ IsInjective(children[Mine])
      /\ kid[Me] \in Range(children[Mine])
      /\ \A p \in Procs : Before(children[Mine], kid[Me], p) =>
              lock[p] = Me /\ ~NoLive(p)
  BY <1>0 DEF LInv, FamilyInv, FamilyType, Kin, ScanInv
<1>2. lock[Mine] = Me
  BY <1>0 DEF LInv, FamilyInv, OwnInv, OwnPlaces
<1>3. Me # IdleThread
  BY <1>2, FamilyFacts
<1>4. kid[Me] \in Procs /\ children[Mine] # <<>>
  BY <1>1, RangeSubset, EmptyRange
<1>5. PICK s \in Seq(Procs), q \in Procs : s = children[Mine] /\ q = kid[Me]
  BY <1>1, <1>4
<1>6. PICK I : I = {j \in 1..Len(s) : s[j] = q}
  OBVIOUS
<1>7. KidIndex = IF I # {} THEN Min(I) ELSE 0
  BY <1>5, <1>6 DEF SelectInSeq, KidIndex
<1>8. Len(s) \in Nat /\ DOMAIN s = 1..Len(s)
  BY LenProperties
<1>9. I \subseteq 1..Len(s) /\ I # {}
  BY <1>1, <1>5, <1>6, <1>8 DEF Range
<1>10. KidIndex \in I
  BY <1>7, <1>8, <1>9, FirstPlace
<1> QED BY <1>1, <1>2, <1>3, <1>4, <1>5, <1>6, <1>10

\* Nobody else works on a child of the process whose lock the caller holds.
LEMMA KidFree ==
  ASSUME LInv, lock[Mine] = Me, NEW q \in Range(children[Mine])
  PROVE  \A u \in Threads : u # Me /\ Live(u) => kid[u] # q
<1> SUFFICES ASSUME NEW u \in Threads, u # Me, Live(u), kid[u] = q PROVE FALSE
  OBVIOUS
<1>0. Me \in Threads /\ Mine \in Procs /\ Mine = thr.pcb[Me] /\ Live(Me)
  BY FamilyFacts DEF Mine
<1> HIDE DEF Me, Mine
<1> USE DEF LInv, FamilyInv
<1>1. q \in Procs /\ q # NoProc
  <2>1. children[Mine] \in Seq(Procs)
    BY <1>0 DEF FamilyType
  <2> QED BY <2>1, RangeSubset, ProcAssumption
<1>2. parent[q] = Mine
  BY <1>0, <1>1 DEF Kin
<1>3. thr.pcb[u] \in Procs
  BY DEF Core, TcbInv, Live
<1>4. op[u] \in Forking \cup Reaping \cup {"wait_scan"}
  BY <1>1 DEF KidInv, Live
<1>5. CASE op[u] \in Forking
  <2>1. q \in Range(children[thr.pcb[u]])
    BY <1>1, <1>5 DEF ForkInv, ChildOK
  <2>2. thr.pcb[u] = Mine
    BY <1>1, <1>2, <1>3, <2>1 DEF Kin
  <2> QED BY <1>0, <1>5, <2>2 DEF ForkInv
<1>6. CASE op[u] = "wait_scan"
  <2>1. q \in Range(children[thr.pcb[u]])
    BY <1>6 DEF ScanInv
  <2>2. thr.pcb[u] = Mine
    BY <1>1, <1>2, <1>3, <2>1 DEF Kin
  <2> QED BY <1>6, <2>2 DEF OwnInv, OwnPlaces
<1>7. CASE op[u] \in Reaping
  <2>1. parent[q] = thr.pcb[u] /\ q \notin Range(children[thr.pcb[u]])
    BY <1>7 DEF ReapInv
  <2> QED BY <1>2, <2>1
<1> QED BY <1>4, <1>5, <1>6, <1>7

LEMMA ScanStep ==
  ASSUME LInv, lock[Mine] = Me, op[Me] \in {"wait", "wait_scan"},
         NEW k \in Range(children[Mine]),
         \A p \in Procs : Before(children[Mine], k, p) =>
           lock[p] = Me /\ ~NoLive(p),
         \A p \in Procs : lock[p] = Me => Can("wait_scan", k, p),
         op' = [op EXCEPT ![Me] = "wait_scan"], kid' = [kid EXCEPT ![Me] = k],
         UNCHANGED <<thr, tcbs, parent, lock, node, children>>
  PROVE  LInv'
<1>0. /\ Me \in Threads /\ Mine \in Procs /\ NoThread \notin Threads /\ Core
      /\ Me # IdleThread
  BY FamilyFacts, ThreadAssumption DEF LInv
<1>1. PICK o \in {"wait_scan"}, n \in Threads \cup {NoThread} : n = NoThread
  OBVIOUS
<1>2. /\ lock \in [Procs -> Threads \cup {NoThread}]
      /\ node \in [Threads -> Threads \cup {NoThread}]
      /\ node[Me] = NoThread /\ k \in Procs
  <2>1. node[Me] = NoThread
    BY <1>0 DEF LInv, FamilyInv, NodeInv, Inserting
  <2>2. k \in Procs
    BY <1>0, RangeSubset DEF LInv, FamilyInv, FamilyType
  <2> QED BY <1>0, <2>1, <2>2, CoreTypes
<1>3. node' = [node EXCEPT ![Me] = n]
  BY <1>1, <1>2
<1>4. Moved(thr, thr', Pending, NoThread)
  BY MovedSelf DEF LInv, Core
<1>5. Core'
  <2>1. op[Me] \notin Inserting /\ o \notin Inserting
    BY <1>1 DEF Inserting
  <2> QED BY <1>0, <1>1, <1>2, <1>3, <1>4, <2>1, CoreMoved
<1>6. QuietStep(NoThread, "wait_scan", k, NoThread)
  BY <1>1, <1>3, <1>4, MovedChanged DEF QuietStep
<1>7. \A u \in Threads : u # Me /\ Live(u) => kid[u] # k
  BY KidFree
<1> HIDE DEF Me, Mine
<1>8. Arrives(NoThread, "wait_scan", k, NoThread)
  BY <1>0, <1>2, <1>7 DEF Arrives, Reaping, Forking
<1>9. FamilyInv' /\ Zombie'
  BY <1>5, <1>6, <1>8, CalmPreserves DEF WaitOps, Late
<1>10. WalkInv'
  BY <1>1, NoWalk
<1> QED BY <1>5, <1>9, <1>10 DEF LInv

LEMMA WaitScanFamily ==
  ASSUME LInv, WaitScan
  PROVE  LInv'
<1>1. /\ op[Me] = "wait" /\ lock[Mine] = Me /\ children[Mine] # <<>>
      /\ Mine \in Procs
  BY FamilyFacts DEF WaitScan, Holding
<1>2. children[Mine] \in Seq(Procs) /\ IsInjective(children[Mine])
  BY <1>1 DEF LInv, FamilyInv, FamilyType, Kin
<1>3. PICK k \in Range(children[Mine]) : k = Head(children[Mine])
  BY <1>1, <1>2, HeadInRange
<1>4. \A p \in Procs : ~Before(children[Mine], k, p)
  BY <1>1, <1>2, <1>3, BeforeFacts
<1>5. \A p \in Procs : lock[p] = Me => Can("wait_scan", k, p)
  BY <1>1, OwnLockOnly DEF Can, OwnPlaces
<1> QED BY <1>1, <1>3, <1>4, <1>5, ScanStep DEF WaitScan, SetKid, Goto

LEMMA WaitNextFamily ==
  ASSUME LInv, WaitNextChild
  PROVE  LInv'
<1>0. /\ op[Me] = "wait_scan" /\ lock[kid[Me]] = Me /\ Me \in Threads
      /\ AliveCount(kid[Me]) # 0 /\ kid[Me] # Last(children[Mine]) /\ Core
  BY FamilyFacts DEF WaitNextChild, AtChild, LInv
<1>1. /\ children[Mine] \in Seq(Procs) /\ IsInjective(children[Mine])
      /\ lock[Mine] = Me /\ kid[Me] \in Procs
      /\ KidIndex \in 1..Len(children[Mine])
      /\ children[Mine][KidIndex] = kid[Me]
      /\ \A p \in Procs : Before(children[Mine], kid[Me], p) =>
           lock[p] = Me /\ ~NoLive(p)
  BY <1>0, KidPlace
<1>2. ~NoLive(kid[Me])
  BY <1>0, <1>1, CountMeaning
<1>3. PICK s \in Seq(Procs) : s = children[Mine] /\ IsInjective(s)
  BY <1>1
<1> PICK i \in 1..Len(s) : i = KidIndex /\ s[i] = kid[Me]
  BY <1>1, <1>3
<1>4. i + 1 \in 1..Len(s)
  <2>1. i # Len(s)
    BY <1>0, <1>3 DEF Last
  <2> QED BY <1>3, <2>1
<1>5. PICK k \in Range(s) : k = s[i + 1]
  BY <1>4, LenProperties DEF Range
<1>6. \A p : Before(s, k, p) <=> p = kid[Me] \/ Before(s, kid[Me], p)
  BY <1>3, <1>4, <1>5, BeforeFacts
<1>7. \A p \in Procs : lock[p] = Me => MayHold(Me, p)
  BY FamilyFacts
<1>8. \A p \in Procs : lock[p] = Me => Can("wait_scan", k, p)
  BY <1>0, <1>3, <1>6, <1>7 DEF MayHold, Can, OwnPlaces, Mine
<1>9. \A p \in Procs : Before(children[Mine], k, p) => lock[p] = Me /\ ~NoLive(p)
  BY <1>0, <1>1, <1>2, <1>3, <1>6
<1>10. op' = [op EXCEPT ![Me] = "wait_scan"]
  <2>1. op = [t \in Threads |-> op[t]]
    BY <1>0, CoreTypes
  <2> QED BY <1>0, <2>1 DEF WaitNextChild, vars
<1> QED BY <1>0, <1>1, <1>3, <1>5, <1>8, <1>9, <1>10, ScanStep
        DEF WaitNextChild, SetKid, vars

-----------------------------------------------------------------------------
(***************************************************************************)
(* Waking up those who wait.                                               *)
(***************************************************************************)

\* A process with a sleeper has one less of them after find_tcb_in_list and
\* alter_state.
LEMMA WakeWakes ==
  ASSUME NEW P, NEW T, Good(T, P), NEW t \in Threads, t \notin P,
         T.state[t] = "VANISH_WAIT", NEW p, T.pcb[t] = p
  PROVE  \E w \in Threads :
           /\ T.state[w] = "VANISH_WAIT" /\ T.pcb[w] = p
           /\ WakeWaiter(T, p).state[w] = "READY"
<1>0. T \in Bookkeeping(Threads, Details, Procs \cup {NoProc})
      /\ Agree(T, P, Threads) /\ NoThread \notin Threads
  BY ThreadAssumption DEF Good, ThrType
<1>1. PICK s \in Seq(Threads) : s = T.list["VANISH_WAIT"]
  BY <1>0, ListIdxFacts DEF Bookkeeping
<1>2. t \in Range(s)
  BY <1>0, <1>1, ListIdxFacts DEF Agree
<1>3. PICK I : I = {i \in 1..Len(s) : T.pcb[s[i]] = p}
  OBVIOUS
<1>4. PICK k : k = SelectInSeq(s, LAMBDA u : T.pcb[u] = p)
  OBVIOUS
<1>5. k = IF I # {} THEN Min(I) ELSE 0
  BY <1>3, <1>4 DEF SelectInSeq
<1>6. Len(s) \in Nat /\ DOMAIN s = 1..Len(s)
  BY LenProperties
<1>7. I \subseteq 1..Len(s) /\ I # {}
  BY <1>2, <1>3, <1>6 DEF Range
<1>8. k \in I /\ k # 0
  BY <1>5, <1>6, <1>7, FirstPlace
<1>9. FindWaiter(T, p) = s[k]
  BY <1>1, <1>4, <1>8 DEF FindWaiter
<1>10. PICK w \in Threads : w = s[k] /\ T.pcb[w] = p /\ w \in Range(s)
  BY <1>3, <1>6, <1>8, ElementOfSeq DEF Range
<1>11. T.state[w] = "VANISH_WAIT" /\ w \in Range(T.list[T.state[w]])
  BY <1>0, <1>1, <1>10, ListIdxFacts DEF Agree
<1>12. PICK to \in ListIdx, d \in Details : to = "READY" /\ d = NoDetail
  BY ListIdxFacts, NoDetailType
<1>13. WakeWaiter(T, p) = AlterState(T, w, to, d)
  BY <1>0, <1>9, <1>10, <1>12 DEF WakeWaiter
<1>14. AlterState(T, w, to, d).state = [T.state EXCEPT ![w] = to]
  BY <1>0, <1>11, <1>12, AlterStateAgree, ListIdxFacts, NoDetailType
<1>15. T.state \in [Threads -> ListIdx \cup {"NEW"}]
  BY <1>0 DEF Bookkeeping
<1> QED BY <1>10, <1>11, <1>12, <1>13, <1>14, <1>15

\* A thread of p that has been woken is on the way for the children of p.
LEMMA WokenNoticed ==
  ASSUME LInv, NEW p, NEW w \in Threads, thr.state[w] = "VANISH_WAIT",
         thr.pcb[w] = p, w # Me, thr'.pcb = thr.pcb,
         thr'.state[w] \in {"READY", "RUNNING"},
         NEW o, op' = [op EXCEPT ![Me] = o]
  PROVE  Noticed(p)'
<1>1. op'[w] = "wait"
  BY CoreTypes DEF LInv, FamilyInv, SleepInv
<1> QED BY <1>1 DEF Noticed, Runs, WaitOps

LEMMA WaitWakeFamily ==
  ASSUME LInv, WaitWake
  PROVE  LInv'
<1>0. /\ op[Me] = "wait_wake" /\ Me \in Threads /\ Mine \in Procs
      /\ Me # IdleThread /\ NoThread \notin Threads
      /\ thr.state[Me] = "RUNNING" /\ Good(thr, Pending)
  BY FamilyFacts, ThreadAssumption DEF WaitWake, LInv, Core
<1>1. PICK W : W = WakeWaiter(thr, Mine)
  OBVIOUS
<1>2. Moved(thr, W, Pending, NoThread) /\ Good(W, Pending)
  BY <1>0, <1>1, WakeWaiterMoved DEF Moved
<1>3. thr' = WakeWaiter(W, InitProc)
  BY <1>1 DEF WaitWake
<1>4. Moved(W, thr', Pending, NoThread)
  BY <1>2, <1>3, WakeWaiterMoved
<1>5. Moved(thr, thr', Pending, NoThread)
  BY <1>2, <1>4, MovedTrans
<1>6. PICK o \in {"user"} : o = "user"
  OBVIOUS
<1>7. /\ o \notin OwnPlaces \cup Reaping \cup Inserting /\ o # "fork_build"
      /\ op[Me] \notin OwnPlaces \cup Inserting
  BY <1>0, <1>6 DEF OwnPlaces, Reaping, Inserting
<1>8. kid[Me] = NoProc
  BY <1>0, NoKid DEF Forking, Reaping
<1>9. lock[Mine] # Me
  BY <1>0, OwnLockOnly DEF LockingCalls, WaitCalls
<1>10. op' = [op EXCEPT ![Me] = o]
  BY <1>6 DEF WaitWake, Goto
<1>11. /\ Core' /\ FamilyInv' /\ WalkInv'
       /\ QuietStep(NoThread, o, NoProc, NoThread)
       /\ Arrives(NoThread, o, NoProc, NoThread)
  BY <1>0, <1>5, <1>7, <1>8, <1>9, <1>10, MoveOn DEF WaitWake, family
<1>12. /\ Changed(NoThread) /\ Stops(NoThread, o)
       /\ \A t \in Threads : thr'.state[t] = "VANISH_WAIT" =>
            thr.state[t] = "VANISH_WAIT"
  BY <1>0, <1>11, ChangedFacts DEF Stops, QuietStep
<1>13. \A t \in Threads : thr.state[t] = "VANISH_WAIT" => t \notin Pending /\ t # Me
  BY <1>0 DEF LInv, Core, PendInv, Pending, Inserting
<1>14. \A t \in Threads : thr'.state[t] = "VANISH_WAIT" =>
         W.state[t] = "VANISH_WAIT" /\ W.pcb = thr.pcb /\ thr'.pcb = thr.pcb
  BY <1>0, <1>2, <1>4 DEF Moved
<1>15. Zombie'
  <2> SUFFICES ASSUME NEW t \in Threads, thr'.state[t] = "VANISH_WAIT",
                      NEW p, p = thr.pcb[t], NEW q \in Range(children[p]),
                      NoLive(q)', ~Unused(q)'
               PROVE  Noticed(p)'
    BY <1>11 DEF Zombie, QuietStep, Changed
  <2>1. thr.state[t] = "VANISH_WAIT" /\ t \notin Pending /\ thr.pcb[t] \in Procs
    BY <1>12, <1>13 DEF LInv, Core, TcbInv
  <2>2. CASE p = Mine
    <3>1. PICK w \in Threads :
            /\ thr.state[w] = "VANISH_WAIT" /\ thr.pcb[w] = p
            /\ W.state[w] = "READY"
      <4>1. \E w \in Threads :
              /\ thr.state[w] = "VANISH_WAIT" /\ thr.pcb[w] = p
              /\ WakeWaiter(thr, p).state[w] = "READY"
        BY <1>0, <2>1, WakeWakes
      <4>2. WakeWaiter(thr, p) = W
        BY <1>1, <2>2
      <4> QED BY <4>1, <4>2
    <3>2. thr'.state[w] \in {"READY", "RUNNING"}
      BY <1>0, <1>4, <3>1 DEF Moved
    <3> QED BY <1>10, <1>13, <1>14, <3>1, <3>2, WokenNoticed
  <2>3. CASE p = InitProc
    <3>1. PICK w \in Threads :
            /\ W.state[w] = "VANISH_WAIT" /\ W.pcb[w] = p
            /\ thr'.state[w] = "READY"
      <4>1. W.state[t] = "VANISH_WAIT" /\ W.pcb[t] = p
        BY <1>14
      <4>2. \E w \in Threads :
              /\ W.state[w] = "VANISH_WAIT" /\ W.pcb[w] = p
              /\ WakeWaiter(W, p).state[w] = "READY"
        BY <1>2, <2>1, <4>1, WakeWakes
      <4>3. WakeWaiter(W, p) = thr'
        BY <1>3, <2>3
      <4> QED BY <4>2, <4>3
    <3>2. thr.state[w] = "VANISH_WAIT" /\ thr.pcb[w] = p
      BY <1>0, <1>2, <1>14, <3>1 DEF Moved
    <3> QED BY <1>10, <1>13, <1>14, <3>1, <3>2, WokenNoticed
  <2>4. CASE p # Mine /\ p # InitProc
    <3>1. Carries(p, NoThread, o)
      BY <1>0, <2>4 DEF Carries
    <3>2. q \in Procs
      BY <2>1, RangeSubset DEF LInv, FamilyInv, FamilyType
    <3>3. \A u \in Threads : Live(u) => Live(u)'
      BY <1>0, <1>12, ChangedFacts
    <3>4. NoLive(q) /\ ~Unused(q)
      BY <3>2, <3>3, <1>12, ChangedFacts DEF NoLive, Changed
    <3>5. Noticed(p)
      BY <2>1, <3>4 DEF LInv, Zombie
    <3> QED BY <1>11, <1>12, <2>1, <3>1, <3>5, NoticedKept
  <2> QED BY <2>2, <2>3, <2>4
<1> QED BY <1>11, <1>15 DEF LInv

-----------------------------------------------------------------------------
(***************************************************************************)
(* The caller stops: it vanishes, or sleeps in wait.                       *)
(***************************************************************************)
LEMMA StopFamily ==
  ASSUME LInv, lock[Mine] = Me, op[Me] \in {"vanish", "wait_scan"},
         NEW o \in {"user", "wait"}, Moved(thr, thr', Pending, Me),
         thr'.state[Me] = "VANISH_WAIT" => o = "wait",
         op' = [op EXCEPT ![Me] = o], kid' = [kid EXCEPT ![Me] = NoProc],
         lock' \in [Procs -> Threads \cup {NoThread}],
         \A p \in Procs : lock'[p] # lock[p] =>
           lock[p] = Me /\ lock'[p] = NoThread,
         \A p \in Procs : lock'[p] # Me,
         UNCHANGED <<tcbs, parent, node, children>>
  PROVE  /\ Core' /\ FamilyInv' /\ WalkInv'
         /\ QuietStep(Me, o, NoProc, NoThread) /\ Stops(Me, o)
<1>0. /\ Me \in Threads /\ Mine \in Procs /\ NoThread \notin Threads /\ Core
      /\ Me # IdleThread /\ Mine = thr.pcb[Me]
  BY FamilyFacts, ThreadAssumption DEF LInv, Mine
<1>1. PICK n \in Threads \cup {NoThread} : n = NoThread
  OBVIOUS
<1>2. node[Me] = NoThread
  BY <1>0 DEF LInv, FamilyInv, NodeInv, Inserting
<1>3. node' = [node EXCEPT ![Me] = n]
  BY <1>0, <1>1, <1>2, CoreTypes
<1>4. Core'
  <2>1. op[Me] \notin Inserting /\ o \notin Inserting
        /\ o \notin {"thread_fork_insert", "task_vanish_loop"}
    BY DEF Inserting
  <2>2. \A p \in Procs : lock'[p] # lock[p] => lock[p] \in {Me, NoThread}
    OBVIOUS
  <2>3. PICK x : x = Me
    OBVIOUS
  <2>4. Moved(thr, thr', Pending, x)
    BY <2>3
  <2> QED BY ONLY <1>0, <1>3, <2>1, <2>2, <2>4, CoreMoved, tcbs' = tcbs,
       op' = [op EXCEPT ![Me] = o], n \in Threads \cup {NoThread},
       lock' \in [Procs -> Threads \cup {NoThread}]
<1>5. QuietStep(Me, o, NoProc, NoThread)
  <2>1. Changed(Me)
    BY MovedChanged
  <2> QED BY <1>1, <1>3, <2>1 DEF QuietStep
<1> HIDE DEF Me, Mine
<1>6. Stops(Me, o)
  BY <1>0 DEF Stops, Forking
<1>7. Arrives(Me, o, NoProc, NoThread)
  BY <1>0 DEF Arrives, OwnPlaces, Reaping, Forking, Inserting
<1>8. FamilyInv'
  BY <1>5, <1>6, <1>7, QuietPreserves
<1>9. WalkInv'
  BY NoWalk
<1> QED BY <1>4, <1>5, <1>6, <1>8, <1>9

\* vanish leaves no lock behind.
LEMMA VanishLock ==
  ASSUME LInv, Holding("vanish"), Unlock
  PROVE  /\ lock[Mine] = Me /\ op[Me] = "vanish"
         /\ kid[Me] = NoProc
         /\ lock' \in [Procs -> Threads \cup {NoThread}]
         /\ \A p \in Procs : lock'[p] # lock[p] =>
              lock[p] = Me /\ lock'[p] = NoThread
         /\ \A p \in Procs : lock'[p] # Me
<1>1. lock[Mine] = Me /\ op[Me] = "vanish"
  BY DEF Holding
<1>2. Me \in Threads /\ Mine \in Procs /\ NoThread \notin Threads
  BY FamilyFacts, ThreadAssumption
<1>3. lock \in [Procs -> Threads \cup {NoThread}]
  BY CoreTypes DEF LInv
<1>4. \A p \in Procs : lock[p] = Me => p = Mine
  BY <1>1, OwnLockOnly
<1>5. kid[Me] = NoProc
  BY <1>1, NoKid DEF Forking, Reaping
<1> HIDE DEF Me, Mine
<1>6. /\ lock' \in [Procs -> Threads \cup {NoThread}]
      /\ \A p \in Procs : lock'[p] # lock[p] =>
           lock[p] = Me /\ lock'[p] = NoThread
      /\ \A p \in Procs : lock'[p] # Me
  BY <1>1, <1>2, <1>3, <1>4 DEF Unlock
<1> QED BY <1>1, <1>5, <1>6

\* A caller that is not the last live thread of its process has a live
\* sibling.
LEMMA LiveSibling ==
  ASSUME LInv, AliveCount(Mine) # 1
  PROVE  \E u \in Threads : u # Me /\ Live(u) /\ thr.pcb[u] = Mine
<1>0. /\ Me \in Threads /\ Mine \in Procs /\ Live(Me) /\ thr.pcb[Me] = Mine
      /\ Core
  BY FamilyFacts DEF Mine, LInv
<1> DEFINE S == {u \in Range(tcbs[Mine]) : thr.state[u] # "TERMINATED"}
<1>1. Range(tcbs[Mine]) \subseteq Threads
  BY <1>0, CoreTypes, RangeSubset
<1>2. \A u \in Range(tcbs[Mine]) : thr.state[u] # "NEW" /\ thr.pcb[u] = Mine
  BY <1>0, <1>1 DEF Core, TcbInv
<1>3. Me \in S
  BY <1>0, CoreMe DEF Live
<1>4. S # {Me}
  BY FS_Singleton DEF AliveCount
<1>5. PICK u \in S : u # Me
  <2> HIDE DEF S
  <2> QED BY <1>3, <1>4
<1> QED BY <1>1, <1>2, <1>5 DEF Live

LEMMA VanishThreadFamily ==
  ASSUME LInv, VanishThread, UNCHANGED family
  PROVE  LInv'
<1>0. /\ Holding("vanish") /\ Unlock /\ Me \in Threads /\ Mine = thr.pcb[Me]
      /\ UNCHANGED <<tcbs, parent, node, children, kid>> /\ Core
      /\ AliveCount(Mine) # 1
  BY FamilyFacts DEF VanishThread, Block, family, LInv, Mine
<1>1. /\ lock[Mine] = Me /\ op[Me] = "vanish" /\ kid[Me] = NoProc
      /\ lock' \in [Procs -> Threads \cup {NoThread}]
      /\ \A p \in Procs : lock'[p] # lock[p] =>
           lock[p] = Me /\ lock'[p] = NoThread
      /\ \A p \in Procs : lock'[p] # Me
  BY <1>0, VanishLock
<1>2. PICK to \in ListIdx \ {"RUNNING", "READY"}, d \in Details :
         to = "TERMINATED" /\ d = NoDetail
  BY ListIdxFacts, NoDetailType
<1>3. Moved(thr, thr', Pending, Me) /\ thr'.state[Me] = "TERMINATED"
  <2>1. /\ Moved(thr, SwitchContext(FindNextRotate(thr, tcbs[Mine]),
                                     FindNextThread(thr, tcbs[Mine]), to, d),
                  Pending, Me)
        /\ SwitchContext(FindNextRotate(thr, tcbs[Mine]),
                         FindNextThread(thr, tcbs[Mine]), to, d).state[Me] = to
    BY <1>0, <1>1, BlockMoved DEF VanishThread, Block
  <2> QED BY <1>2, <2>1 DEF VanishThread, Block
<1>4. PICK o \in {"user", "wait"} : o = "user"
  OBVIOUS
<1>5. op' = [op EXCEPT ![Me] = o]
  BY <1>4 DEF VanishThread, Block, Goto
<1>6. kid' = [kid EXCEPT ![Me] = NoProc]
  BY <1>0, <1>1 DEF LInv, FamilyInv, FamilyType
<1>7. /\ Core' /\ FamilyInv' /\ WalkInv'
      /\ QuietStep(Me, o, NoProc, NoThread) /\ Stops(Me, o)
  BY <1>0, <1>1, <1>3, <1>5, <1>6, StopFamily
<1>8. PICK u \in Threads : u # Me /\ Live(u) /\ thr.pcb[u] = Mine
  BY <1>0, LiveSibling
<1> HIDE DEF Me, Mine
<1>9. /\ Changed(Me) /\ \A t \in Threads : t # Me /\ Live(t) => Live(t)'
      /\ \A t \in Threads : t # Me /\ thr'.state[t] = "VANISH_WAIT" =>
           thr.state[t] = "VANISH_WAIT"
  BY <1>7, ChangedFacts DEF QuietStep
<1>10. \A q \in Procs : NoLive(q)' => NoLive(q)
  BY <1>0, <1>8, <1>9 DEF NoLive, Changed
<1>11. \A t \in Threads : thr'.state[t] = "VANISH_WAIT" =>
         /\ thr.state[t] = "VANISH_WAIT"
         /\ Carries(thr.pcb[t], Me, o)
  BY <1>1, <1>3, <1>9 DEF Carries, WaitOps, Late
<1>12. Zombie'
  BY <1>7, <1>10, <1>11, ZombieQuiet
<1> QED BY <1>7, <1>12 DEF LInv

\* The last thread of a process wakes the parent's first waiter before it is
\* gone.
LEMMA VanishLastFamily ==
  ASSUME LInv, VanishLast, UNCHANGED family
  PROVE  LInv'
<1>0. /\ Holding("vanish") /\ Unlock /\ Me \in Threads /\ Mine = thr.pcb[Me]
      /\ UNCHANGED <<tcbs, parent, node, children, kid>> /\ Core
      /\ Mine \in Procs /\ Good(thr, Pending) /\ thr.state[Me] = "RUNNING"
  BY FamilyFacts DEF VanishLast, family, LInv, Mine, Core
<1>1. /\ lock[Mine] = Me /\ op[Me] = "vanish" /\ kid[Me] = NoProc
      /\ lock' \in [Procs -> Threads \cup {NoThread}]
      /\ \A p \in Procs : lock'[p] # lock[p] =>
           lock[p] = Me /\ lock'[p] = NoThread
      /\ \A p \in Procs : lock'[p] # Me
  BY <1>0, VanishLock
<1>2. PICK W : /\ W = WakeWaiter(thr, parent[Mine])
               /\ Moved(W, thr', Pending, Me)
               /\ Moved(thr, thr', Pending, Me)
               /\ thr'.state[Me] = "TERMINATED"
  BY <1>0, VanishLastMoved
<1>4. PICK o \in {"user", "wait"} : o = "user"
  OBVIOUS
<1>5. op' = [op EXCEPT ![Me] = o]
  BY <1>4 DEF VanishLast, Goto
<1>6. kid' = [kid EXCEPT ![Me] = NoProc]
  BY <1>0, <1>1 DEF LInv, FamilyInv, FamilyType
<1>7. /\ Core' /\ FamilyInv' /\ WalkInv'
      /\ QuietStep(Me, o, NoProc, NoThread) /\ Stops(Me, o)
  BY <1>0, <1>1, <1>2, <1>5, <1>6, StopFamily
<1> HIDE DEF Me, Mine
<1>8. /\ Changed(Me) /\ thr'.pcb = thr.pcb
      /\ \A t \in Threads : t # Me /\ Live(t) => Live(t)'
      /\ \A t \in Threads : t # Me /\ thr'.state[t] = "VANISH_WAIT" =>
           thr.state[t] = "VANISH_WAIT"
      /\ \A q \in Procs : Unused(q)' <=> Unused(q)
  BY <1>7, ChangedFacts DEF QuietStep, Changed
<1>9. Zombie'
  <2> SUFFICES ASSUME NEW t \in Threads, thr'.state[t] = "VANISH_WAIT",
                      NEW p, p = thr.pcb[t], NEW q \in Range(children[p]),
                      NoLive(q)', ~Unused(q)'
               PROVE  Noticed(p)'
    BY <1>7 DEF Zombie, QuietStep, Changed
  <2>1. t # Me /\ thr.state[t] = "VANISH_WAIT" /\ p \in Procs /\ t \notin Pending
    BY <1>2, <1>8 DEF Core, TcbInv, LInv, PendInv, Pending, Inserting
  <2>2. q \in Procs /\ parent[q] = p
    <3>1. children[p] \in Seq(Procs)
      BY <2>1 DEF LInv, FamilyInv, FamilyType
    <3>2. q \in Procs
      BY <3>1, RangeSubset
    <3> QED BY <2>1, <3>2 DEF LInv, FamilyInv, Kin
  <2>3. CASE NoLive(q)
    <3>1. Noticed(p)
      BY <1>8, <2>1, <2>2, <2>3 DEF LInv, Zombie
    <3>2. Carries(p, Me, o)
      BY <1>1 DEF Carries, WaitOps, Late
    <3> QED BY <1>7, <2>1, <3>1, <3>2, NoticedKept
  <2>4. CASE ~NoLive(q)
    <3>1. q = Mine
      BY <1>0, <1>8, <2>4 DEF NoLive
    <3>2. W = WakeWaiter(thr, p)
      BY <1>2, <2>2, <3>1
    <3>3. \E w \in Threads :
            /\ thr.state[w] = "VANISH_WAIT" /\ thr.pcb[w] = p
            /\ WakeWaiter(thr, p).state[w] = "READY"
      BY <1>0, <2>1, WakeWakes
    <3>4. PICK w \in Threads :
            /\ thr.state[w] = "VANISH_WAIT" /\ thr.pcb[w] = p
            /\ W.state[w] = "READY"
      BY <3>2, <3>3
    <3>5. w # Me
      BY <1>0, <3>4
    <3>6. thr'.state[w] \in {"READY", "RUNNING"}
      BY <1>2, <3>4, <3>5 DEF Moved
    <3> QED BY <1>5, <1>8, <3>4, <3>5, <3>6, WokenNoticed
  <2> QED BY <2>3, <2>4
<1> QED BY <1>7, <1>9 DEF LInv

LEMMA WaitBlockFamily ==
  ASSUME LInv, WaitBlock
  PROVE  LInv'
<1>0. /\ op[Me] = "wait_scan" /\ lock[kid[Me]] = Me /\ Me \in Threads
      /\ AliveCount(kid[Me]) # 0 /\ kid[Me] = Last(children[Mine])
      /\ UNCHANGED <<tcbs, parent, node, children>> /\ Core
      /\ Mine = thr.pcb[Me] /\ NoThread \notin Threads
  BY FamilyFacts, ThreadAssumption DEF WaitBlock, AtChild, LInv, Mine
<1>1. /\ children[Mine] \in Seq(Procs) /\ IsInjective(children[Mine])
      /\ lock[Mine] = Me /\ kid[Me] \in Procs
      /\ kid[Me] \in Range(children[Mine])
      /\ \A p \in Procs : Before(children[Mine], kid[Me], p) =>
           lock[p] = Me /\ ~NoLive(p)
  BY <1>0, KidPlace
<1>2. \A p \in Range(children[Mine]) : p \in Procs /\ lock[p] = Me /\ ~NoLive(p)
  <2>1. ~NoLive(kid[Me])
    BY <1>0, <1>1, CountMeaning
  <2>2. \A p \in Range(children[Mine]) :
          p = kid[Me] \/ Before(children[Mine], kid[Me], p)
    BY <1>0, <1>1, BeforeFacts
  <2>3. \A p \in Range(children[Mine]) : p \in Procs
    BY <1>1, RangeSubset
  <2> QED BY <1>0, <1>1, <2>1, <2>2, <2>3
<1>3. \A p \in Procs : lock[p] = Me => p = Mine \/ p \in Range(children[Mine])
  <2>1. \A p \in Procs : lock[p] = Me => MayHold(Me, p)
    BY FamilyFacts
  <2>2. \A p : Before(children[Mine], kid[Me], p) => p \in Range(children[Mine])
    BY <1>1, BeforeFacts
  <2> QED BY <1>0, <1>1, <2>1, <2>2 DEF MayHold
<1>4. lock \in [Procs -> Threads \cup {NoThread}]
  BY <1>0, CoreTypes
<1>5. /\ lock' \in [Procs -> Threads \cup {NoThread}]
      /\ \A p \in Procs : lock'[p] # lock[p] =>
           lock[p] = Me /\ lock'[p] = NoThread
      /\ \A p \in Procs : lock'[p] # Me
  <2>1. lock' = [p \in Procs |->
                    IF p = Mine \/ p \in Range(children[Mine])
                    THEN NoThread ELSE lock[p]]
    BY DEF WaitBlock
  <2> HIDE DEF Me, Mine
  <2> QED BY <1>0, <1>1, <1>2, <1>3, <1>4, <2>1
<1>6. PICK to \in ListIdx \ {"RUNNING", "READY"}, d \in Details :
         to = "VANISH_WAIT" /\ d = NoDetail
  BY ListIdxFacts, NoDetailType
<1>7. Moved(thr, thr', Pending, Me) /\ thr'.state[Me] = "VANISH_WAIT"
  <2>1. /\ Moved(thr, SwitchContext(FindNextRotate(thr, tcbs[Mine]),
                                     FindNextThread(thr, tcbs[Mine]), to, d),
                  Pending, Me)
        /\ SwitchContext(FindNextRotate(thr, tcbs[Mine]),
                         FindNextThread(thr, tcbs[Mine]), to, d).state[Me] = to
    BY <1>0, <1>1, BlockMoved DEF WaitBlock
  <2> QED BY <1>6, <2>1 DEF WaitBlock
<1>8. PICK o \in {"user", "wait"} : o = "wait"
  OBVIOUS
<1>9. op' = [op EXCEPT ![Me] = o] /\ kid' = [kid EXCEPT ![Me] = NoProc]
  BY <1>8 DEF WaitBlock, Goto, SetKid
<1>10. /\ Core' /\ FamilyInv' /\ WalkInv'
       /\ QuietStep(Me, o, NoProc, NoThread) /\ Stops(Me, o)
  BY <1>0, <1>1, <1>5, <1>7, <1>8, <1>9, StopFamily
<1> HIDE DEF Me, Mine
<1>11. /\ Changed(Me) /\ thr'.pcb = thr.pcb
       /\ \A t \in Threads : Live(t) => Live(t)'
       /\ \A t \in Threads : t # Me /\ thr'.state[t] = "VANISH_WAIT" =>
            thr.state[t] = "VANISH_WAIT"
       /\ \A q \in Procs : Unused(q)' <=> Unused(q)
  BY <1>7, <1>10, ChangedFacts DEF QuietStep, Changed, Live
<1>12. \A q \in Procs : NoLive(q)' => NoLive(q)
  BY <1>11 DEF NoLive
<1>13. Zombie'
  <2> SUFFICES ASSUME NEW t \in Threads, thr'.state[t] = "VANISH_WAIT",
                      NEW p, p = thr.pcb[t], NEW q \in Range(children[p]),
                      NoLive(q)', ~Unused(q)'
               PROVE  Noticed(p)'
    BY <1>10 DEF Zombie, QuietStep, Changed
  <2>1. p # Mine /\ t # Me
    BY <1>0, <1>2, <1>12
  <2>2. thr.state[t] = "VANISH_WAIT" /\ p \in Procs
    BY <1>11, <2>1 DEF Core, TcbInv, LInv
  <2>3. q \in Procs
    BY <2>2, RangeSubset DEF LInv, FamilyInv, FamilyType
  <2>4. Noticed(p)
    BY <1>11, <1>12, <2>2, <2>3 DEF LInv, Zombie
  <2>5. Carries(p, Me, o)
    BY <1>0, <2>1 DEF Carries, Late
  <2> QED BY <1>10, <2>2, <2>4, <2>5, NoticedKept
<1> QED BY <1>10, <1>13 DEF LInv

\* task_vanish: whoever was on the way for the children of the process dies
\* in the walk; the caller is left, and when it leaves the walk nobody sleeps.
LEMMA TaskVanishFamily ==
  ASSUME LInv, TaskVanishStep, UNCHANGED <<children, kid>>
  PROVE  LInv'
<1>0. /\ op[Me] = "task_vanish_loop" /\ Me \in Threads /\ Mine \in Procs
      /\ UNCHANGED <<tcbs, parent>> /\ Core /\ WalkInv
      /\ Mine = thr.pcb[Me] /\ NoThread \notin Threads /\ Me # IdleThread
      /\ thr.state[Me] = "RUNNING"
  BY FamilyFacts, ThreadAssumption DEF TaskVanishStep, LInv, Mine
<1>1. /\ lock[Mine] = Me /\ node[Me] \in Range(tcbs[Mine])
      /\ node[Me] \in Threads /\ thr.pcb[node[Me]] = Mine
      /\ \E x \in {node[Me], NoThread} :
           x # Me /\ Moved(thr, thr', Pending, x)
  BY <1>0, TaskVanishMoved
<1>2. PICK x \in {node[Me], NoThread} :
        x # Me /\ Moved(thr, thr', Pending, x)
  BY <1>1
<1>3. PICK o \in {"task_vanish_loop", "vanish"}, n \in Threads \cup {NoThread} :
        /\ op' = [op EXCEPT ![Me] = o] /\ node' = [node EXCEPT ![Me] = n]
        /\ \/ /\ o = "task_vanish_loop" /\ lock' = lock
              /\ n \in Range(tcbs[Mine])
           \/ /\ o = "vanish" /\ n = NoThread
              /\ lock' = [lock EXCEPT ![Mine] = NoThread]
  BY <1>0, WalkShape
<1>4. /\ node[Me] # Me => thr'.state[node[Me]] = "TERMINATED"
      /\ thr'.state[Me] = "RUNNING"
  BY <1>0, KillFacts
<1>5. Changed(x) /\ thr'.pcb = thr.pcb
  BY <1>2, MovedChanged DEF Changed
<1>6. DeadKept
  BY <1>5 DEF DeadKept, Changed, Live
<1>7. /\ lock \in [Procs -> Threads \cup {NoThread}]
      /\ op = [t \in Threads |-> op[t]]
      /\ kid \in [Threads -> Procs \cup {NoProc}]
      /\ tcbs \in [Procs -> Seq(Threads)]
  BY <1>0, CoreTypes DEF LInv, FamilyInv, FamilyType
<1>8. \A p \in Procs : lock[p] = Me => p = Mine
  BY <1>0, OwnLockOnly
<1>9. kid[Me] = NoProc
  BY <1>0, NoKid DEF Forking, Reaping
<1>10. op'[Me] = "vanish" => \A u \in Range(tcbs[Mine]) \ {Me} :
         thr'.state[u] = "TERMINATED"
  BY <1>0, <1>6, WalkEnds
<1> HIDE DEF Me, Mine
<1>11. op'[Me] = o
  BY <1>0, <1>3, <1>7
<1>12. /\ lock' \in [Procs -> Threads \cup {NoThread}]
       /\ \A p \in Procs : lock'[p] # lock[p] =>
            p = Mine /\ lock[p] = Me /\ lock'[p] = NoThread
  BY <1>0, <1>1, <1>3, <1>7
<1>13. Core'
  <2>1. o \in {"thread_fork_insert", "task_vanish_loop"} =>
            lock'[Mine] = Me /\ n \in Range(tcbs[Mine])
    BY <1>1, <1>3
  <2>2. op[Me] \notin Inserting /\ o \notin Inserting
    BY <1>0 DEF Inserting
  <2>3. \A p \in Procs : lock'[p] # lock[p] => lock[p] \in {Me, NoThread}
    BY <1>12
  <2> QED BY <1>0, <1>2, <1>3, <1>12, <2>1, <2>2, <2>3, CoreMoved
<1>14. QuietStep(x, o, NoProc, n)
  <2>1. kid' = [kid EXCEPT ![Me] = NoProc]
    BY <1>0, <1>7, <1>9
  <2> QED BY <1>0, <1>3, <1>5, <1>12, <2>1 DEF QuietStep
<1>15. Stops(x, o)
  BY <1>0, <1>1, <1>2, <1>4 DEF Stops
<1>16. Arrives(x, o, NoProc, n)
  <2>1. \A p \in Procs : lock'[p] = Me => x # Me /\ Can(o, NoProc, p)
    <3> SUFFICES ASSUME NEW p \in Procs, lock'[p] = Me PROVE Can(o, NoProc, p)
      BY <1>2
    <3>1. lock[p] = Me /\ p = Mine
      BY <1>0, <1>8, <1>12
    <3>2. o = "task_vanish_loop"
      BY <1>0, <1>3, <1>7, <3>1
    <3> QED BY <3>1, <3>2 DEF Can, OwnPlaces
  <2>2. o \in OwnPlaces => lock'[Mine] = Me
    BY <1>1, <1>3 DEF OwnPlaces
  <2>3. o \notin Forking /\ o # "wait_scan" /\ o \notin Reaping
    BY DEF Forking, Reaping
  <2>4. o \notin Inserting \cup {"task_vanish_loop"} => n = NoThread
    BY <1>3
  <2> QED BY <1>0, <2>1, <2>2, <2>3, <2>4 DEF Arrives
<1>17. FamilyInv'
  BY <1>14, <1>15, <1>16, QuietPreserves
<1>18. WalkInv'
  BY <1>0, <1>6, <1>13, WalkGoesOn
<1>19. \A q \in Procs : NoLive(q)' => NoLive(q)
  <2> SUFFICES ASSUME NEW q \in Procs, ~NoLive(q) PROVE ~NoLive(q)'
    OBVIOUS
  <2>1. CASE q = Mine
    BY <1>0, <1>4, <1>5, <2>1 DEF NoLive, Live
  <2>2. CASE q # Mine
    <3>1. PICK u \in Threads : thr.pcb[u] = q /\ Live(u)
      BY DEF NoLive
    <3>2. u # x
      BY <1>0, <1>1, <2>2, <3>1
    <3>3. Live(u)'
      BY <1>5, <3>1, <3>2, ChangedFacts
    <3> QED BY <1>5, <3>1, <3>3 DEF NoLive
  <2> QED BY <2>1, <2>2
<1>20. ASSUME NEW t \in Threads, thr'.state[t] = "VANISH_WAIT"
       PROVE  /\ thr.state[t] = "VANISH_WAIT"
              /\ Carries(thr.pcb[t], x, o)
  <2>1. t # x /\ t # Me /\ thr.state[t] = "VANISH_WAIT"
    BY <1>0, <1>2, <1>4, <1>5, <1>20 DEF Changed
  <2>2. o = "vanish" => thr.pcb[t] # Mine
    <3> SUFFICES ASSUME o = "vanish", thr.pcb[t] = Mine PROVE FALSE
      OBVIOUS
    <3>1. t \in Range(tcbs[Mine])
      BY <1>0, <2>1 DEF Core, TcbInv
    <3> QED BY <1>10, <1>11, <1>20, <2>1, <3>1
  <2> QED BY <1>0, <1>1, <1>2, <1>3, <1>4, <2>1, <2>2 DEF Carries, Late
<1>21. Zombie'
  BY <1>14, <1>15, <1>19, <1>20, ZombieQuiet
<1> QED BY <1>13, <1>17, <1>18, <1>21 DEF LInv
-----------------------------------------------------------------------------
(***************************************************************************)
(* A TCB is built or thrown away again.                                    *)
(***************************************************************************)

\* The process a TCB is built for: the caller's, or the child it forks.
Builds(o, p) ==
  \/ /\ o = "thread_fork_insert" /\ p = Mine /\ lock[Mine] = Me
     /\ op[Me] \in {"thread_fork", o}
  \/ /\ o = "fork_insert" /\ p = kid[Me] /\ op[Me] \in {"fork_build", o}

\* It has its place in the family, and nobody else works on it.
LEMMA BuildsFor ==
  ASSUME LInv, NEW o, NEW p \in Procs, Builds(o, p)
  PROVE  /\ Me # IdleThread /\ p # IdleProc
         /\ parent[p] \in Procs /\ p \in Range(children[parent[p]])
         /\ \A t \in Threads : t # Me /\ op[t] \in Forking \cup Reaping /\ Live(t) =>
              kid[t] # p
         /\ \A t \in Threads : t # Me /\ op[t] \in Forking => thr.pcb[t] # p
         /\ o = "fork_insert" => p # Mine
<1> USE DEF LInv, FamilyInv
<1>0. /\ Me \in Threads /\ Mine \in Procs /\ Mine = thr.pcb[Me] /\ Live(Me)
      /\ Me # IdleThread /\ Mine # IdleProc /\ NoProc \notin Procs
  BY FamilyFacts, ProcAssumption DEF Mine, Builds
<1> HIDE DEF Me, Mine
<1>1. CASE o = "thread_fork_insert" /\ p = Mine
  <2>1. parent[p] \in Procs /\ p \in Range(children[parent[p]])
    BY <1>0, <1>1 DEF Home
  <2>2. ASSUME NEW t \in Threads, t # Me, op[t] \in Forking \cup Reaping, Live(t),
               kid[t] = p
        PROVE  FALSE
    <3>1. CASE op[t] \in Reaping
      BY <1>0, <1>1, <2>2, <3>1 DEF ReapInv, NoLive
    <3>2. CASE op[t] \in Forking
      <4>1. ChildOK(t)
        BY <1>0, <1>1, <2>2, <3>2 DEF ForkInv
      <4>2. op[t] = "fork_insert"
        BY <1>0, <1>1, <2>2, <3>2, <4>1 DEF ChildOK, Unused, Forking, Live
      <4>3. thr.pcb[node[t]] = Mine
        BY <1>1, <2>2, <4>2 DEF ForkInv, Forking
      <4>5. Range(tcbs[Mine]) = {node[t]}
        BY <2>2, <4>2, <4>3 DEF Core, PendInv
      <4>4. Me = node[t]
        BY <4>5, CoreMe
      <4> QED BY <4>2, <4>4, CoreMe DEF Pending
    <3> QED BY <2>2, <3>1, <3>2
  <2>3. \A t \in Threads : t # Me /\ op[t] \in Forking => thr.pcb[t] # p
    BY <1>0, <1>1 DEF ForkInv
  <2> QED BY <1>0, <1>1, <2>1, <2>2, <2>3
<1>2. CASE o = "fork_insert" /\ p = kid[Me] /\ op[Me] \in Forking
  <2>1. ChildOK(Me)
    BY <1>0, <1>2 DEF ForkInv
  <2>2. p \in Range(children[Mine]) /\ parent[p] = Mine
    BY <1>0, <1>2, <2>1 DEF ChildOK, Kin
  <2>3. p # IdleProc /\ p # Mine
    BY <1>0, <2>2 DEF Kin
  <2>4. \A t \in Threads : t # Me /\ op[t] \in Forking \cup Reaping /\ Live(t) =>
          kid[t] # p
    BY <1>0, <1>2 DEF KidInv
  <2>5. ASSUME NEW t \in Threads, t # Me, op[t] \in Forking, thr.pcb[t] = p
        PROVE  FALSE
    <3>1. Live(t)
      BY <2>5 DEF ForkInv
    <3>2. CASE op[Me] = "fork_build"
      BY <1>2, <2>1, <2>5, <3>1, <3>2 DEF ChildOK, Unused, Live
    <3>3. CASE op[Me] = "fork_insert"
      <4>1. thr.pcb[node[Me]] = p /\ Range(tcbs[p]) = {node[Me]}
        BY <1>0, <1>2, <3>3 DEF ForkInv, Forking, Core, PendInv
      <4>2. t = node[Me]
        BY <2>5, <3>1, <4>1 DEF Core, TcbInv, Live
      <4>3. op[t] = "user"
        BY <1>0, <3>3, <4>2 DEF Core, PendInv, Pending
      <4> QED BY <2>5, <4>3 DEF Forking
    <3> QED BY <1>2, <3>2, <3>3 DEF Forking
  <2> QED BY <1>0, <2>2, <2>3, <2>4, <2>5
<1> QED BY <1>1, <1>2 DEF Builds, Forking

LEMMA CreateFamily ==
  ASSUME LInv, NEW u \in Threads, thr.state[u] = "NEW", NEW p \in Procs,
         NEW o \in Inserting, Builds(o, p), op[Me] \notin Inserting,
         op' = [op EXCEPT ![Me] = o], node' = [node EXCEPT ![Me] = u],
         thr' = NewTcb(u, p), tcbs' = [tcbs EXCEPT ![p] = Append(@, u)],
         UNCHANGED <<lock, parent, children, kid>>
  PROVE  LInv'
<1> USE DEF LInv, FamilyInv
<1>0. /\ Me \in Threads /\ Mine \in Procs /\ Mine = thr.pcb[Me] /\ Live(Me)
      /\ Runs(Me) /\ NoProc \notin Procs /\ NoThread \notin Threads
      /\ thr.state[Me] = "RUNNING"
  BY FamilyFacts, ProcAssumption, ThreadAssumption DEF Mine
<1>1. /\ Me # IdleThread /\ p # IdleProc
      /\ parent[p] \in Procs /\ p \in Range(children[parent[p]])
      /\ \A t \in Threads : t # Me /\ op[t] \in Forking \cup Reaping /\ Live(t) =>
           kid[t] # p
      /\ \A t \in Threads : t # Me /\ op[t] \in Forking => thr.pcb[t] # p
      /\ o = "fork_insert" => p # Mine
  BY BuildsFor
<1>2. /\ op = [t \in Threads |-> op[t]]
      /\ lock \in [Procs -> Threads \cup {NoThread}]
      /\ kid \in [Threads -> Procs \cup {NoProc}]
      /\ node \in [Threads -> Threads \cup {NoThread}]
      /\ thr.pcb \in [Threads -> Procs \cup {NoProc}]
      /\ thr.state \in [Threads -> ListIdx \cup {"NEW"}]
  BY CoreTypes DEF FamilyType
<1>3. CASE o = "fork_insert" /\ tcbs[p] # <<>>
  <2>1. op[Me] = "fork_build" /\ p = kid[Me]
    BY <1>3 DEF Builds, Inserting
  <2>2. Unused(p)
    BY <1>0, <2>1 DEF ForkInv, Forking, ChildOK
  <2> QED BY <1>3, <2>2, CountMeaning
<1>4. ASSUME o = "fork_insert" => tcbs[p] = <<>> PROVE LInv'
  <2>1. /\ Core' /\ u # Me /\ op[u] = "user"
        /\ thr'.state = [thr.state EXCEPT ![u] = "READY"]
        /\ thr'.pcb = [thr.pcb EXCEPT ![u] = p]
    <3>1. \/ o = "thread_fork_insert" /\ p = Mine /\ lock[Mine] = Me
          \/ o = "fork_insert" /\ tcbs[p] = <<>>
      BY <1>4 DEF Builds
    <3> QED BY <3>1, CoreCreate
  <2>2. WalkInv'
    <3>1. op[Me] # "task_vanish_loop" /\ o # "task_vanish_loop"
      BY DEF Builds, Inserting
    <3> QED BY <3>1, NoWalk
  <2>3. \A q \in Procs : lock[q] = Me => q = Mine /\ op[Me] = "thread_fork"
    <3>1. op[Me] \in {"thread_fork", "fork_build"}
      BY DEF Builds, Inserting
    <3> QED BY <3>1, OwnLockOnly DEF LockingCalls, WaitCalls
  <2>4. /\ op[Me] \in {"thread_fork", "fork_build"}
        /\ op[Me] = "thread_fork" =>
             o = "thread_fork_insert" /\ p = Mine /\ lock[Mine] = Me /\ kid[Me] = NoProc
        /\ op[Me] = "fork_build" => o = "fork_insert" /\ p = kid[Me]
    <3>1. op[Me] = "thread_fork" => kid[Me] = NoProc
      BY NoKid DEF Forking, Reaping
    <3> QED BY <3>1 DEF Builds, Inserting
  <2> HIDE DEF Me, Mine
  <2>5. /\ \A t \in Threads : t # Me => op'[t] = op[t] /\ node'[t] = node[t]
        /\ op'[Me] = o /\ node'[Me] = u
        /\ \A t \in Threads : t # u =>
             thr'.state[t] = thr.state[t] /\ thr'.pcb[t] = thr.pcb[t]
        /\ thr'.state[u] = "READY" /\ thr'.pcb[u] = p
    BY <1>0, <1>2, <2>1
  <2>6. /\ ~Live(u) /\ ~Runs(u) /\ Live(u)' /\ u # IdleThread
        /\ \A t \in Threads : t # u => (Live(t)' <=> Live(t)) /\ (Runs(t)' <=> Runs(t))
    BY <2>5 DEF Live, Runs, IdleHome
  <2>7. /\ \A q \in Procs : NoLive(q)' <=> NoLive(q) /\ q # p
        /\ \A q \in Procs : Unused(q)' <=> Unused(q) /\ q # p
    <3>1. ASSUME NEW q \in Procs PROVE NoLive(q)' <=> NoLive(q) /\ q # p
      BY <2>5, <2>6 DEF NoLive
    <3>2. ASSUME NEW q \in Procs PROVE Unused(q)' <=> Unused(q) /\ q # p
      BY <2>5 DEF Unused
    <3> QED BY <3>1, <3>2
  <2>8. FamilyType' /\ NodeInv' /\ SleepInv' /\ IdleHome'
    <3>1. FamilyType'
      BY DEF FamilyType
    <3>2. NodeInv'
      BY <2>5 DEF NodeInv
    <3>3. SleepInv'
      BY <1>0, <2>5 DEF SleepInv
    <3>4. IdleHome'
      BY <1>1, <2>5, <2>6, ThreadAssumption DEF IdleHome
    <3> QED BY <3>1, <3>2, <3>3, <3>4
  <2>9. OwnInv'
    <3> SUFFICES ASSUME NEW t \in Threads, op'[t] \in OwnPlaces
                 PROVE  lock[thr'.pcb[t]] = t
      BY DEF OwnInv
    <3>1. CASE t = Me
      BY <1>0, <2>1, <2>4, <2>5, <3>1 DEF OwnPlaces
    <3>2. CASE t # Me
      BY <2>1, <2>5, <3>2 DEF OwnInv, OwnPlaces
    <3> QED BY <3>1, <3>2
  <2>10. HolderInv'
    <3> SUFFICES ASSUME NEW q \in Procs, NEW h, h = lock[q], h # NoThread
                 PROVE  thr'.state[h] \in {"READY", "RUNNING"} /\ MayHold(h, q)'
      BY DEF HolderInv, Runs
    <3>1. h \in Threads /\ Runs(h) /\ MayHold(h, q)
      BY <1>2 DEF HolderInv
    <3>2. h # u
      BY <2>6, <3>1
    <3>3. CASE h = Me
      BY <1>0, <2>3, <2>4, <2>5, <3>2, <3>3, <3>1 DEF MayHold, OwnPlaces, Runs
    <3>4. CASE h # Me
      BY <2>5, <3>1, <3>2, <3>4 DEF MayHold, Runs
    <3> QED BY <3>3, <3>4
  <2>11. ForkInv'
    <3> SUFFICES ASSUME NEW t \in Threads, op'[t] \in Forking
                 PROVE  /\ Live(t)'
                        /\ \A w \in Threads : thr'.pcb[w] = thr'.pcb[t] /\ Live(w)' => w = t
                        /\ op'[t] = "fork_insert" => kid[t] # NoProc /\ thr'.pcb[node'[t]] = kid[t]
                        /\ kid[t] # NoProc => ChildOK(t)'
      BY DEF ForkInv
    <3>1. op[t] \in Forking /\ t # u
      BY <2>1, <2>4, <2>5 DEF Forking
    <3>2. Live(t)' /\ thr'.pcb[t] = thr.pcb[t] /\ thr.pcb[t] # p
      <4>1. Live(t)'
        BY <2>6, <3>1 DEF ForkInv
      <4>2. thr.pcb[t] # p
        BY <1>0, <1>1, <2>4, <3>1 DEF Forking
      <4> QED BY <2>5, <3>1, <4>1, <4>2
    <3>3. \A w \in Threads : thr'.pcb[w] = thr'.pcb[t] /\ Live(w)' => w = t
      BY <2>5, <2>6, <3>1, <3>2 DEF ForkInv
    <3>4. ASSUME op'[t] = "fork_insert" PROVE kid[t] # NoProc /\ thr'.pcb[node'[t]] = kid[t]
      <4>1. CASE t = Me
        BY <1>0, <2>4, <2>5, <3>1, <4>1 DEF Forking
      <4>2. CASE t # Me
        <5>1. kid[t] # NoProc /\ thr.pcb[node[t]] = kid[t] /\ node[t] \in Threads
              /\ thr.state[node[t]] = "READY"
          BY <2>5, <3>1, <3>4, <4>2 DEF ForkInv, Core, PendInv, Inserting
        <5> QED BY <2>5, <4>2, <5>1
      <4> QED BY <4>1, <4>2
    <3>5. ASSUME kid[t] # NoProc PROVE ChildOK(t)'
      <4>1. ChildOK(t) /\ kid[t] \in Procs
        BY <1>2, <3>1, <3>5 DEF ForkInv
      <4>2. op'[t] = "fork_build" => Unused(kid[t])'
        <5> SUFFICES ASSUME op'[t] = "fork_build" PROVE Unused(kid[t])'
          OBVIOUS
        <5>1. t # Me /\ op[t] = "fork_build" /\ Live(t)
          BY <2>5, <3>1 DEF Inserting, ForkInv
        <5>2. kid[t] # p
          BY <1>1, <5>1, <3>1
        <5> QED BY <4>1, <5>1, <5>2, <2>7 DEF ChildOK, Unused
      <4> QED BY <3>2, <4>1, <4>2 DEF ChildOK
    <3> QED BY <3>2, <3>3, <3>4, <3>5
  <2>12. ScanInv'
    <3> SUFFICES ASSUME NEW t \in Threads, op'[t] = "wait_scan"
                 PROVE  /\ kid[t] \in Range(children[thr'.pcb[t]])
                        /\ \A q \in Procs : Before(children[thr'.pcb[t]], kid[t], q) =>
                             lock[q] = t /\ ~NoLive(q)'
      BY DEF ScanInv
    <3>1. op[t] = "wait_scan" /\ t # u /\ thr'.pcb[t] = thr.pcb[t]
      BY <2>1, <2>5 DEF Inserting
    <3> QED BY <2>7, <3>1 DEF ScanInv
  <2>13. ReapInv'
    <3> SUFFICES ASSUME NEW t \in Threads, Live(t)', op'[t] \in Reaping
                 PROVE  /\ kid[t] \in Procs /\ parent[kid[t]] = thr'.pcb[t]
                        /\ kid[t] \notin Range(children[thr'.pcb[t]])
                        /\ NoLive(kid[t])'
                        /\ op'[t] \in Freeing => children[kid[t]] = <<>>
      BY DEF ReapInv
    <3>1. op[t] = op'[t] /\ t # u /\ t # Me /\ thr'.pcb[t] = thr.pcb[t] /\ Live(t)
      BY <2>1, <2>5, <2>6 DEF Inserting, Reaping
    <3>2. kid[t] \in Procs /\ NoLive(kid[t]) /\ kid[t] # p
      BY <1>1, <3>1 DEF ReapInv
    <3>3. NoLive(kid[t])'
      BY <2>7, <3>2 DEF NoLive
    <3> QED BY <3>1, <3>3 DEF ReapInv
  <2>14. KidInv'
    <3>1. kid[u] = NoProc
      BY <2>1 DEF KidInv, Forking, Reaping
    <3>2. ASSUME NEW t \in Threads, thr'.state[t] # "TERMINATED",
                 op'[t] \notin Forking \cup Reaping \cup {"wait_scan"}
          PROVE  kid[t] = NoProc
      <4>1. CASE t = Me
        BY <2>4, <2>5, <3>2, <4>1 DEF Forking
      <4>2. CASE t = u
        BY <3>1, <4>2
      <4>3. CASE t # Me /\ t # u
        BY <2>5, <3>2, <4>3 DEF KidInv
      <4> QED BY <4>1, <4>2, <4>3
    <3>3. ASSUME NEW t \in Threads, NEW w \in Threads, Live(t)', Live(w)', t # w,
                 kid[t] # NoProc
          PROVE  kid[t] # kid[w]
      BY <2>6, <3>1, <3>3 DEF KidInv
    <3> QED BY <3>2, <3>3 DEF KidInv
  <2>15. Kin'
    BY <1>0, <1>1, <2>7 DEF Kin
  <2>16. Home'
    <3> SUFFICES ASSUME NEW t \in Threads, Live(t)', t # IdleThread
                 PROVE  /\ parent[thr'.pcb[t]] \in Procs
                        /\ thr'.pcb[t] \in Range(children[parent[thr'.pcb[t]]])
      BY DEF Home
    <3> QED BY <1>1, <2>5, <2>6 DEF Home
  <2>17. Tree'
    <3>1. \A t \in Threads : Live(t)' /\ op'[t] = "wait_adopt" <=> Live(t) /\ op[t] = "wait_adopt"
      BY <2>1, <2>4, <2>5, <2>6 DEF Inserting
    <3>2. \A t \in Threads : Live(t) => thr'.pcb[t] = thr.pcb[t]
      BY <2>5, <2>6
    <3>3. \A q, r \in Procs : Edge(q, r)' <=> Edge(q, r)
      BY <3>1, <3>2 DEF Edge
    <3> QED BY <3>3 DEF Tree
  <2>18. Zombie'
    <3> SUFFICES ASSUME NEW t \in Threads, thr'.state[t] = "VANISH_WAIT",
                        NEW r, r = thr'.pcb[t], NEW q \in Range(children[r]),
                        NoLive(q)', ~Unused(q)'
                 PROVE  Noticed(r)'
      BY DEF Zombie
    <3>1. t # u /\ thr.state[t] = "VANISH_WAIT" /\ r = thr.pcb[t] /\ r \in Procs
      BY <2>5 DEF Core, TcbInv
    <3>2. q \in Procs
      BY <3>1, RangeSubset DEF FamilyType
    <3>3. NoLive(q) /\ ~Unused(q)
      BY <2>7, <3>2
    <3>4. Noticed(r)
      BY <3>1, <3>3 DEF Zombie
    <3>5. PICK w \in Threads :
            \/ /\ Runs(w) /\ thr.pcb[w] = r
               /\ op[w] \in WaitOps \cup {"task_vanish_loop"}
            \/ /\ r = InitProc
               /\ thr.state[w] \in {"READY", "RUNNING", "TERMINATED"}
               /\ op[w] \in Late
      BY <3>4 DEF Noticed
    <3>6. w # u /\ w # Me
      BY <2>4, <2>6, <3>5 DEF WaitOps, Late
    <3>7. op'[w] = op[w] /\ thr'.pcb[w] = thr.pcb[w] /\ thr'.state[w] = thr.state[w]
      BY <2>5, <3>6
    <3> QED BY <3>5, <3>7 DEF Noticed, Runs
  <2> QED BY <2>1, <2>2, <2>8, <2>9, <2>10, <2>11, <2>12, <2>13, <2>14, <2>15,
             <2>16, <2>17, <2>18
<1> QED BY <1>3, <1>4

LEMMA ThreadForkCreateFamily ==
  ASSUME LInv, NEW u \in Threads, ThreadForkCreate(u),
         UNCHANGED <<children, kid>>
  PROVE  LInv'
<1>1. PICK p \in Procs : p = Mine
  BY FamilyFacts
<1>2. PICK o \in Inserting : o = "thread_fork_insert"
  BY DEF Inserting
<1>3. /\ Builds(o, p) /\ op[Me] \notin Inserting /\ thr.state[u] = "NEW"
      /\ op' = [op EXCEPT ![Me] = o] /\ node' = [node EXCEPT ![Me] = u]
      /\ thr' = NewTcb(u, p) /\ tcbs' = [tcbs EXCEPT ![p] = Append(@, u)]
      /\ UNCHANGED <<lock, parent, children, kid>>
  BY <1>1, <1>2 DEF ThreadForkCreate, Holding, Goto, Builds, Inserting
<1> QED BY <1>3, CreateFamily

LEMMA ForkCopyFamily ==
  ASSUME LInv, NEW u \in Threads, ForkCopy(u)
  PROVE  LInv'
<1>0. /\ Me \in Threads /\ Mine = thr.pcb[Me]
      /\ op[Me] = "fork_build" /\ kid[Me] # NoProc /\ thr.state[u] = "NEW"
      /\ kid \in [Threads -> Procs \cup {NoProc}]
      /\ tcbs \in [Procs -> Seq(Threads)]
      /\ parent \in [Procs -> Procs \cup {NoProc}]
  BY FamilyFacts, CoreTypes DEF ForkCopy, ForkBuild, Mine, LInv, FamilyInv, FamilyType
<1>1. PICK p \in Procs : p = kid[Me]
  BY <1>0
<1>2. PICK o \in Inserting : o = "fork_insert"
  BY DEF Inserting
<1>3. parent[p] = Mine
  <2>1. ChildOK(Me)
    BY <1>0 DEF LInv, FamilyInv, ForkInv, Forking
  <2> QED BY <1>0, <1>1, <2>1, FamilyFacts DEF ChildOK, LInv, FamilyInv, Kin
<1>4. parent' = parent
  BY <1>0, <1>1, <1>3 DEF ForkCopy, ForkBuild
<1>5. tcbs' = [tcbs EXCEPT ![p] = Append(@, u)]
  BY <1>0, <1>1 DEF ForkCopy, ForkBuild
<1>6. /\ Builds(o, p) /\ op[Me] \notin Inserting
      /\ op' = [op EXCEPT ![Me] = o] /\ node' = [node EXCEPT ![Me] = u]
      /\ thr' = NewTcb(u, p) /\ UNCHANGED <<lock, children, kid>>
  BY <1>0, <1>1, <1>2 DEF ForkCopy, ForkBuild, TakeTid, Goto, Builds, Inserting
<1> QED BY <1>0, <1>4, <1>5, <1>6, CreateFamily

LEMMA ThreadForkFreeFamily ==
  ASSUME LInv, ThreadForkFail, Holding("thread_fork_insert"), UNCHANGED family
  PROVE  LInv'
<1> USE DEF LInv, FamilyInv
<1>0. /\ Me \in Threads /\ Mine \in Procs /\ Mine = thr.pcb[Me] /\ Live(Me)
      /\ NoProc \notin Procs /\ NoThread \notin Threads
      /\ lock[Mine] = Me /\ op[Me] = "thread_fork_insert" /\ Mine # IdleProc
      /\ op' = [op EXCEPT ![Me] = "user"]
      /\ node' = [node EXCEPT ![Me] = NoThread]
      /\ lock' = [lock EXCEPT ![Mine] = NoThread]
      /\ thr' = FreeTcb(node[Me])
      /\ tcbs' = [tcbs EXCEPT ![Mine] = Front(@)]
      /\ UNCHANGED <<parent, children, kid>>
  BY FamilyFacts, ProcAssumption, ThreadAssumption
     DEF Mine, Holding, ThreadForkFail, Unlock, Goto, family
<1>1. /\ op = [t \in Threads |-> op[t]]
      /\ lock \in [Procs -> Threads \cup {NoThread}]
      /\ kid \in [Threads -> Procs \cup {NoProc}]
      /\ node \in [Threads -> Threads \cup {NoThread}]
      /\ thr.pcb \in [Threads -> Procs \cup {NoProc}]
      /\ thr.state \in [Threads -> ListIdx \cup {"NEW"}]
  BY CoreTypes DEF FamilyType
<1>2. /\ \A q \in Procs : lock[q] = Me => q = Mine
      /\ kid[Me] = NoProc
  BY <1>0, OwnLockOnly, NoKid DEF Forking, Reaping
<1>3. PICK p \in Procs, z \in Seq(Threads) :
        /\ p = Mine /\ p = thr.pcb[node[Me]]
        /\ z = Front(tcbs[p]) /\ IsInjective(z)
        /\ Range(z) = Range(tcbs[p]) \ {node[Me]}
        /\ \A t \in Threads :
             op[t] \in {"thread_fork_insert", "task_vanish_loop"}
               /\ thr.pcb[t] = p => t = Me
  BY <1>0, PopBack
<1>4. WalkInv'
  <2>1. PICK o : o = "user"
    OBVIOUS
  <2> QED BY <1>0, <2>1, NoWalk
<1> HIDE DEF Me, Mine
<1>5. /\ Core'
      /\ node[Me] \in Threads /\ node[Me] # Me
      /\ thr.state[node[Me]] = "READY" /\ op[node[Me]] = "user"
      /\ thr'.state = [thr.state EXCEPT ![node[Me]] = "NEW"]
      /\ thr'.pcb = [thr.pcb EXCEPT ![node[Me]] = NoProc]
  <2>1. op[Me] \in Inserting
    BY <1>0 DEF Inserting
  <2>2. /\ lock' \in [Procs -> Threads \cup {NoThread}]
        /\ \A q \in Procs : lock'[q] # lock[q] => lock[q] \in {Me, NoThread}
    BY <1>0, <1>1
  <2>3. tcbs' = [tcbs EXCEPT ![p] = z]
    BY <1>0, <1>3
  <2> QED BY <1>0, <1>3, <2>1, <2>2, <2>3, CoreFree
<1>6. PICK u \in Threads : u = node[Me]
  BY <1>5
<1>7. /\ \A t \in Threads : t # Me => op'[t] = op[t] /\ node'[t] = node[t]
      /\ op'[Me] = "user" /\ node'[Me] = NoThread
      /\ \A t \in Threads : t # u =>
           thr'.state[t] = thr.state[t] /\ thr'.pcb[t] = thr.pcb[t]
      /\ thr'.state[u] = "NEW" /\ thr'.pcb[u] = NoProc
      /\ thr.state[u] = "READY" /\ thr.pcb[u] = Mine /\ op[u] = "user" /\ u # Me
      /\ \A q \in Procs : lock'[q] = IF q = Mine THEN NoThread ELSE lock[q]
  BY <1>0, <1>1, <1>3, <1>5, <1>6
<1>8. /\ ~Live(u)' /\ u # IdleThread /\ kid[u] = NoProc
      /\ \A t \in Threads : t # u => (Live(t)' <=> Live(t)) /\ (Runs(t)' <=> Runs(t))
  BY <1>0, <1>7 DEF Live, Runs, IdleHome, KidInv, Forking, Reaping
<1>9. /\ \A q \in Procs : NoLive(q)' <=> NoLive(q)
      /\ \A q \in Procs : Unused(q)' <=> Unused(q)
  <2>1. ASSUME NEW q \in Procs PROVE NoLive(q)' <=> NoLive(q)
    BY <1>0, <1>7, <1>8 DEF NoLive
  <2>2. ASSUME NEW q \in Procs PROVE Unused(q)' <=> Unused(q)
    <3>1. thr.state[Me] # "NEW"
      BY <1>0 DEF Live
    <3> QED BY <1>0, <1>7, <3>1 DEF Unused
  <2> QED BY <2>1, <2>2
<1>10. FamilyType' /\ NodeInv' /\ SleepInv' /\ IdleHome'
  <2>1. FamilyType'
    BY <1>0 DEF FamilyType
  <2>2. NodeInv'
    BY <1>7 DEF NodeInv
  <2>3. SleepInv'
    <3> SUFFICES ASSUME NEW t \in Threads, thr'.state[t] = "VANISH_WAIT"
                 PROVE  op'[t] = "wait"
      BY DEF SleepInv
    <3>1. thr.state[t] = "VANISH_WAIT"
      BY <1>7
    <3> QED BY <1>0, <1>7, <3>1 DEF SleepInv
  <2>4. IdleHome'
    BY <1>0, <1>7, <1>8, ThreadAssumption, ProcAssumption DEF IdleHome
  <2> QED BY <2>1, <2>2, <2>3, <2>4
<1>11. OwnInv'
  <2> SUFFICES ASSUME NEW t \in Threads, op'[t] \in OwnPlaces
               PROVE  lock'[thr'.pcb[t]] = t
    BY DEF OwnInv
  <2>1. t # Me /\ t # u /\ op[t] \in OwnPlaces
    BY <1>7 DEF OwnPlaces
  <2>2. lock[thr.pcb[t]] = t /\ thr'.pcb[t] = thr.pcb[t]
    BY <1>7, <2>1 DEF OwnInv
  <2>3. thr.pcb[t] \in Procs
    <3>1. op[t] # "user"
      BY <2>1 DEF OwnPlaces
    <3> QED BY <3>1 DEF Core, PendInv, TcbInv
  <2> QED BY <1>0, <1>7, <2>1, <2>2, <2>3
<1>12. HolderInv'
  <2> SUFFICES ASSUME NEW q \in Procs, NEW h, h = lock'[q], h # NoThread
               PROVE  thr'.state[h] \in {"READY", "RUNNING"} /\ MayHold(h, q)'
    BY DEF HolderInv, Runs
  <2>1. q # Mine /\ h = lock[q] /\ h # Me
    BY <1>2, <1>7
  <2>2. h \in Threads /\ Runs(h) /\ MayHold(h, q)
    BY <1>1, <2>1 DEF HolderInv
  <2>3. h # u
    BY <1>7, <2>2 DEF MayHold, LockingCalls, WaitCalls, OwnPlaces
  <2> QED BY <1>0, <1>7, <2>1, <2>2, <2>3 DEF MayHold, Runs
<1>13. ForkInv'
  <2> SUFFICES ASSUME NEW t \in Threads, op'[t] \in Forking
               PROVE  /\ Live(t)'
                      /\ \A w \in Threads : thr'.pcb[w] = thr'.pcb[t] /\ Live(w)' => w = t
                      /\ op'[t] = "fork_insert" => kid[t] # NoProc /\ thr'.pcb[node'[t]] = kid[t]
                      /\ kid[t] # NoProc => ChildOK(t)'
    BY <1>0 DEF ForkInv
  <2>1. op[t] \in Forking /\ op'[t] = op[t] /\ t # u /\ t # Me /\ thr'.pcb[t] = thr.pcb[t]
    BY <1>7 DEF Forking
  <2>2. Live(t)'
    BY <1>8, <2>1 DEF ForkInv
  <2>3. \A w \in Threads : thr'.pcb[w] = thr'.pcb[t] /\ Live(w)' => w = t
    BY <1>7, <1>8, <2>1 DEF ForkInv
  <2>4. ASSUME op'[t] = "fork_insert" PROVE kid[t] # NoProc /\ thr'.pcb[node'[t]] = kid[t]
    <3>1. kid[t] # NoProc /\ thr.pcb[node[t]] = kid[t] /\ node[t] \in Threads
      BY <2>1, <2>4 DEF ForkInv, Core, PendInv, Inserting
    <3>2. node[t] # u
      BY <1>0, <1>6, <2>1, <2>4 DEF Core, PendInv, Inserting
    <3> QED BY <1>7, <2>1, <3>1, <3>2
  <2>5. ASSUME kid[t] # NoProc PROVE ChildOK(t)'
    <3>1. ChildOK(t) /\ kid[t] \in Procs
      BY <1>1, <2>1, <2>5 DEF ForkInv
    <3> QED BY <1>0, <1>9, <2>1, <3>1 DEF ChildOK
  <2> QED BY <2>2, <2>3, <2>4, <2>5
<1>14. ScanInv'
  <2> SUFFICES ASSUME NEW t \in Threads, op'[t] = "wait_scan"
               PROVE  /\ kid[t] \in Range(children[thr'.pcb[t]])
                      /\ \A q \in Procs : Before(children[thr'.pcb[t]], kid[t], q) =>
                           lock'[q] = t /\ ~NoLive(q)'
    BY <1>0 DEF ScanInv
  <2>1. op[t] = "wait_scan" /\ t # u /\ t # Me /\ thr'.pcb[t] = thr.pcb[t]
    BY <1>7
  <2> QED BY <1>0, <1>7, <1>9, <2>1 DEF ScanInv
<1>15. ReapInv'
  <2> SUFFICES ASSUME NEW t \in Threads, Live(t)', op'[t] \in Reaping
               PROVE  /\ kid[t] \in Procs /\ parent[kid[t]] = thr'.pcb[t]
                      /\ kid[t] \notin Range(children[thr'.pcb[t]])
                      /\ NoLive(kid[t])'
                      /\ op'[t] \in Freeing => children[kid[t]] = <<>>
    BY <1>0 DEF ReapInv
  <2>1. op[t] = op'[t] /\ t # u /\ t # Me /\ thr'.pcb[t] = thr.pcb[t] /\ Live(t)
    BY <1>7, <1>8 DEF Reaping
  <2>2. kid[t] \in Procs /\ NoLive(kid[t])
    BY <2>1 DEF ReapInv
  <2>3. NoLive(kid[t])'
    BY <1>0, <1>9, <2>2 DEF NoLive
  <2> QED BY <2>1, <2>3 DEF ReapInv
<1>16. KidInv'
  <2>1. ASSUME NEW t \in Threads, thr'.state[t] # "TERMINATED",
               op'[t] \notin Forking \cup Reaping \cup {"wait_scan"}
        PROVE  kid[t] = NoProc
    BY <1>2, <1>7, <1>8, <2>1 DEF KidInv
  <2>2. ASSUME NEW t \in Threads, NEW w \in Threads, Live(t)', Live(w)', t # w,
               kid[t] # NoProc
        PROVE  kid[t] # kid[w]
    BY <1>8, <2>2 DEF KidInv
  <2> QED BY <1>0, <2>1, <2>2 DEF KidInv
<1>17. Kin'
  BY <1>0, <1>9 DEF Kin
<1>18. Home'
  BY <1>0, <1>7, <1>8 DEF Home
<1>19. Tree'
  <2>1. \A t \in Threads : Live(t)' /\ op'[t] = "wait_adopt" <=> Live(t) /\ op[t] = "wait_adopt"
    BY <1>0, <1>7, <1>8
  <2>2. \A t \in Threads : Live(t)' => thr'.pcb[t] = thr.pcb[t]
    BY <1>7, <1>8
  <2>3. \A q, r \in Procs : Edge(q, r)' <=> Edge(q, r)
    BY <1>0, <2>1, <2>2 DEF Edge
  <2> QED BY <2>3 DEF Tree
<1>20. Zombie'
  <2> SUFFICES ASSUME NEW t \in Threads, thr'.state[t] = "VANISH_WAIT",
                      NEW r, r = thr'.pcb[t], NEW q \in Range(children[r]),
                      NoLive(q)', ~Unused(q)'
               PROVE  Noticed(r)'
    BY <1>0 DEF Zombie
  <2>1. t # u /\ thr.state[t] = "VANISH_WAIT" /\ r = thr.pcb[t] /\ r \in Procs
    BY <1>7 DEF Core, TcbInv
  <2>2. q \in Procs
    BY <2>1, RangeSubset DEF FamilyType
  <2>3. Noticed(r)
    BY <1>9, <2>1, <2>2 DEF Zombie
  <2>4. PICK w \in Threads :
          \/ /\ Runs(w) /\ thr.pcb[w] = r
             /\ op[w] \in WaitOps \cup {"task_vanish_loop"}
          \/ /\ r = InitProc
             /\ thr.state[w] \in {"READY", "RUNNING", "TERMINATED"}
             /\ op[w] \in Late
    BY <2>3 DEF Noticed
  <2>5. w # u /\ w # Me
    BY <1>0, <1>7, <2>4 DEF WaitOps, Late
  <2>6. op'[w] = op[w] /\ thr'.pcb[w] = thr.pcb[w] /\ thr'.state[w] = thr.state[w]
    BY <1>7, <2>5
  <2> QED BY <2>4, <2>6 DEF Noticed, Runs
<1> QED BY <1>4, <1>5, <1>10, <1>11, <1>12, <1>13, <1>14, <1>15, <1>16, <1>17,
           <1>18, <1>19, <1>20
-----------------------------------------------------------------------------
(***************************************************************************)
(* fork adds a child, and takes it back when it fails.                     *)
(***************************************************************************)

\* The process that runs is nobody's child under construction or collection.
LEMMA NotMine ==
  ASSUME LInv, NEW t \in Threads, Live(t), op[t] \in Forking \cup Reaping
  PROVE  kid[t] # Mine
<1> USE DEF LInv, FamilyInv
<1>0. /\ Me \in Threads /\ Mine \in Procs /\ Mine = thr.pcb[Me] /\ Live(Me)
      /\ NoProc \notin Procs
  BY FamilyFacts, ProcAssumption DEF Mine
<1> SUFFICES ASSUME kid[t] = Mine PROVE FALSE
  OBVIOUS
<1> HIDE DEF Me, Mine
<1>1. CASE op[t] \in Reaping
  BY <1>0, <1>1 DEF ReapInv, NoLive
<1>2. CASE op[t] \in Forking
  <2>1. ChildOK(t)
    BY <1>0, <1>2 DEF ForkInv
  <2>2. op[t] = "fork_insert"
    BY <1>0, <1>2, <2>1 DEF ChildOK, Unused, Forking, Live
  <2>3. thr.pcb[node[t]] = Mine
    BY <2>2 DEF ForkInv, Forking
  <2>4. Range(tcbs[Mine]) = {node[t]}
    BY <2>2, <2>3 DEF Core, PendInv
  <2>5. Me = node[t]
    BY <2>4, CoreMe
  <2> QED BY <2>2, <2>5, CoreMe DEF Pending
<1> QED BY <1>1, <1>2

\* Who holds its own process's lock can run.
LEMMA OwnersLive ==
  ASSUME LInv, NEW t \in Threads, op[t] \in OwnPlaces
  PROVE  Runs(t) /\ Live(t) /\ thr.pcb[t] \in Procs
<1> USE DEF LInv, FamilyInv
<1>1. thr.pcb[t] \in Procs
  <2>1. op[t] # "user"
    BY DEF OwnPlaces
  <2> QED BY <2>1 DEF Core, PendInv, TcbInv
<1>2. lock[thr.pcb[t]] = t
  BY DEF OwnInv
<1> QED BY <1>1, <1>2, ThreadAssumption DEF HolderInv, Runs, Live

\* A step that changes nothing but child lists, parents and the caller's kid.
LEMMA SameThreads ==
  ASSUME LInv, UNCHANGED <<thr, tcbs, lock, op, node>>
  PROVE  /\ Core' /\ WalkInv' /\ OwnInv' /\ NodeInv' /\ IdleHome' /\ SleepInv'
         /\ \A t \in Threads : (Live(t)' <=> Live(t)) /\ (Runs(t)' <=> Runs(t))
         /\ \A q \in Procs : (NoLive(q)' <=> NoLive(q)) /\ (Unused(q)' <=> Unused(q))
         /\ \A q \in Procs : Noticed(q)' <=> Noticed(q)
<1>1. Core'
  <2>1. Pending' = Pending
    BY DEF Pending
  <2>2. TcbInv' /\ HoldInv' /\ PendInv'
    BY <2>1 DEF LInv, Core, TcbInv, HoldInv, PendInv
  <2> QED BY <2>1, <2>2 DEF LInv, Core
<1>2. WalkInv'
  BY DEF LInv, WalkInv, Me, Mine
<1>3. OwnInv' /\ NodeInv' /\ IdleHome' /\ SleepInv'
  BY DEF LInv, FamilyInv, OwnInv, NodeInv, IdleHome, Runs, SleepInv
<1>4. /\ \A t \in Threads : (Live(t)' <=> Live(t)) /\ (Runs(t)' <=> Runs(t))
      /\ \A q \in Procs : (NoLive(q)' <=> NoLive(q)) /\ (Unused(q)' <=> Unused(q))
  BY DEF Live, Runs, NoLive, Unused
<1>5. \A q \in Procs : Noticed(q)' <=> Noticed(q)
  BY DEF Noticed, Runs
<1> QED BY <1>1, <1>2, <1>3, <1>4, <1>5

LEMMA ForkPushFamily ==
  ASSUME LInv, NEW q \in Procs, ForkPush(q)
  PROVE  LInv'
<1> USE DEF LInv, FamilyInv
<1>0. /\ Me \in Threads /\ Mine \in Procs /\ Mine = thr.pcb[Me] /\ Live(Me)
      /\ NoProc \notin Procs /\ op[Me] = "fork_build" /\ kid[Me] = NoProc
      /\ Me # IdleThread /\ Mine # IdleProc
      /\ q # IdleProc /\ parent[q] = NoProc
      /\ children' = [children EXCEPT ![Mine] = Append(@, q)]
      /\ parent' = [parent EXCEPT ![q] = Mine]
      /\ kid' = [kid EXCEPT ![Me] = q]
      /\ UNCHANGED <<thr, tcbs, lock, op, node>>
  BY FamilyFacts, ProcAssumption DEF Mine, ForkPush, SetKid
<1>1. /\ children \in [Procs -> Seq(Procs)]
      /\ parent \in [Procs -> Procs \cup {NoProc}]
      /\ kid \in [Threads -> Procs \cup {NoProc}]
      /\ thr.pcb \in [Threads -> Procs \cup {NoProc}]
      /\ lock \in [Procs -> Threads \cup {NoThread}]
  BY CoreTypes DEF FamilyType
<1>2. /\ Core' /\ WalkInv' /\ OwnInv' /\ NodeInv' /\ IdleHome' /\ SleepInv'
      /\ \A t \in Threads : (Live(t)' <=> Live(t)) /\ (Runs(t)' <=> Runs(t))
      /\ \A p \in Procs : (NoLive(p)' <=> NoLive(p)) /\ (Unused(p)' <=> Unused(p))
      /\ \A p \in Procs : Noticed(p)' <=> Noticed(p)
  BY <1>0, SameThreads
<1>3. \A t \in Threads : Live(t) /\ op[t] \in Forking \cup Reaping => kid[t] # Mine
  BY NotMine
<1>4. \A t \in Threads : op[t] \in OwnPlaces => Live(t) /\ Runs(t)
  BY OwnersLive
<1> HIDE DEF Me, Mine
<1>5. /\ children[q] = <<>> /\ Unused(q) /\ q # Mine /\ q # InitProc
      /\ \A p \in Procs : q \notin Range(children[p])
      /\ parent[Mine] \in Procs
  BY <1>0, ProcAssumption DEF Kin, Home
<1>6. /\ children' \in [Procs -> Seq(Procs)]
      /\ \A p \in Procs : p # Mine => children'[p] = children[p]
      /\ children'[Mine] = Append(children[Mine], q)
      /\ IsInjective(children'[Mine])
      /\ Range(children'[Mine]) = Range(children[Mine]) \cup {q}
      /\ Last(children'[Mine]) = q
      /\ \A p \in Procs : Range(children[p]) \subseteq Range(children'[p])
  <2>1. children[Mine] \in Seq(Procs) /\ IsInjective(children[Mine])
    BY <1>0, <1>1 DEF Kin
  <2>2. /\ Append(children[Mine], q) \in Seq(Procs)
        /\ IsInjective(Append(children[Mine], q))
        /\ Range(Append(children[Mine], q)) = Range(children[Mine]) \cup {q}
        /\ Last(Append(children[Mine], q)) = q
    BY <1>0, <1>5, <2>1, AppendNew
  <2> QED BY <1>0, <1>1, <2>2
<1>7. /\ \A p \in Procs : p # q => parent'[p] = parent[p]
      /\ parent'[q] = Mine
      /\ \A t \in Threads : t # Me => kid'[t] = kid[t]
      /\ kid'[Me] = q
  BY <1>0, <1>1
<1>8. \A t \in Threads : Live(t) /\ t # Me => thr.pcb[t] # Mine
  BY <1>0 DEF ForkInv, Forking
<1>9. \A t \in Threads : Live(t) => kid[t] # q /\ thr.pcb[t] # q /\ thr.pcb[t] \in Procs
  <2> SUFFICES ASSUME NEW t \in Threads, Live(t)
               PROVE  kid[t] # q /\ thr.pcb[t] # q /\ thr.pcb[t] \in Procs
    OBVIOUS
  <2>1. thr.pcb[t] # q /\ thr.pcb[t] \in Procs
    BY <1>5 DEF Unused, Live, Core, TcbInv
  <2>2. CASE op[t] \in Forking
    <3>1. kid[t] # NoProc => ChildOK(t)
      BY <2>2 DEF ForkInv
    <3> QED BY <1>0, <1>5, <2>1, <3>1 DEF ChildOK
  <2>3. CASE op[t] \in Reaping
    BY <1>0, <2>1, <2>3 DEF ReapInv
  <2>4. CASE op[t] = "wait_scan"
    BY <1>5, <2>1, <2>4 DEF ScanInv
  <2>5. CASE op[t] \notin Forking \cup Reaping \cup {"wait_scan"}
    BY <1>0, <2>1, <2>5 DEF KidInv, Live
  <2> QED BY <2>1, <2>2, <2>3, <2>4, <2>5
<1>10. FamilyType'
  BY <1>0, <1>1, <1>6 DEF FamilyType
<1>11. HolderInv'
  <2> SUFFICES ASSUME NEW p \in Procs, NEW h, h = lock[p], h # NoThread
               PROVE  thr'.state[h] \in {"READY", "RUNNING"} /\ MayHold(h, p)'
    BY <1>0 DEF HolderInv, Runs
  <2>1. h \in Threads /\ Runs(h) /\ MayHold(h, p)
    BY <1>1 DEF HolderInv
  <2>2. op[h] = "wait_scan" => h # Me /\ thr.pcb[h] # Mine /\ thr.pcb[h] \in Procs
    BY <1>0, <1>8, <1>9, <2>1 DEF Runs, Live
  <2> QED BY <1>0, <1>6, <1>7, <2>1, <2>2 DEF MayHold, Runs
<1>12. ForkInv'
  <2> SUFFICES ASSUME NEW t \in Threads, op[t] \in Forking
               PROVE  /\ op[t] = "fork_insert" => kid'[t] # NoProc /\ thr.pcb[node[t]] = kid'[t]
                      /\ kid'[t] # NoProc => ChildOK(t)'
    BY <1>0, <1>2 DEF ForkInv
  <2>1. CASE t = Me
    <3>1. kid'[t] = q /\ thr'.pcb[t] = Mine /\ op'[t] = "fork_build"
      BY <1>0, <1>7, <2>1
    <3>2. Unused(kid[t])'
      BY <1>0, <1>5, <3>1 DEF Unused
    <3>3. ChildOK(t)'
      BY <1>5, <1>6, <3>1, <3>2 DEF ChildOK
    <3> QED BY <1>0, <3>1, <3>3
  <2>2. CASE t # Me
    <3>1. kid'[t] = kid[t] /\ Live(t) /\ thr.pcb[t] # Mine /\ kid[t] # Mine
          /\ thr.pcb[t] \in Procs
      BY <1>3, <1>7, <1>8, <1>9, <2>2 DEF ForkInv
    <3>2. ASSUME kid[t] # NoProc PROVE ChildOK(t)'
      <4>1. ChildOK(t) /\ kid[t] \in Procs
        BY <1>1, <3>2 DEF ForkInv
      <4> QED BY <1>0, <1>2, <1>6, <3>1, <4>1 DEF ChildOK
    <3> QED BY <3>1, <3>2 DEF ForkInv
  <2> QED BY <2>1, <2>2
<1>13. ScanInv'
  <2> SUFFICES ASSUME NEW t \in Threads, op[t] = "wait_scan"
               PROVE  /\ kid'[t] \in Range(children'[thr.pcb[t]])
                      /\ \A p \in Procs : Before(children'[thr.pcb[t]], kid'[t], p) =>
                           lock[p] = t /\ ~NoLive(p)'
    BY <1>0 DEF ScanInv
  <2>1. t # Me /\ Live(t)
    BY <1>0, <1>4 DEF OwnPlaces
  <2>2. kid'[t] = kid[t] /\ children'[thr.pcb[t]] = children[thr.pcb[t]]
    BY <1>6, <1>7, <1>8, <1>9, <2>1
  <2> QED BY <1>2, <2>2 DEF ScanInv
<1>14. ReapInv'
  <2> SUFFICES ASSUME NEW t \in Threads, Live(t), op[t] \in Reaping
               PROVE  /\ kid'[t] \in Procs /\ parent'[kid'[t]] = thr.pcb[t]
                      /\ kid'[t] \notin Range(children'[thr.pcb[t]])
                      /\ NoLive(kid[t])'
                      /\ op[t] \in Freeing => children'[kid'[t]] = <<>>
    BY <1>0, <1>2 DEF ReapInv
  <2>1. t # Me /\ kid'[t] = kid[t] /\ kid[t] # q /\ kid[t] # Mine
        /\ thr.pcb[t] # Mine /\ thr.pcb[t] \in Procs /\ kid[t] \in Procs
    BY <1>0, <1>3, <1>7, <1>8, <1>9 DEF ReapInv, Reaping
  <2>2. NoLive(kid[t])'
    BY <1>0, <2>1 DEF ReapInv, NoLive, Live
  <2>3. parent[kid[t]] = thr.pcb[t] /\ kid[t] \notin Range(children[thr.pcb[t]])
        /\ (op[t] \in Freeing => children[kid[t]] = <<>>)
    BY DEF ReapInv
  <2> QED BY <1>6, <1>7, <2>1, <2>2, <2>3
<1>15. KidInv'
  <2>1. ASSUME NEW t \in Threads, thr.state[t] # "TERMINATED",
               op[t] \notin Forking \cup Reaping \cup {"wait_scan"}
        PROVE  kid'[t] = NoProc
    BY <1>0, <1>7, <2>1 DEF KidInv, Forking
  <2>2. ASSUME NEW t \in Threads, NEW w \in Threads, Live(t), Live(w), t # w,
               kid'[t] # NoProc
        PROVE  kid'[t] # kid'[w]
    BY <1>7, <1>9, <2>2 DEF KidInv
  <2> QED BY <1>0, <1>2, <2>1, <2>2 DEF KidInv
<1>16. Kin'
  <2>1. \A p \in Procs : IsInjective(children'[p])
    BY <1>6 DEF Kin
  <2>2. \A p, r \in Procs : r \in Range(children'[p]) => parent'[r] = p
    BY <1>5, <1>6, <1>7, ZenonT(30) DEF Kin
  <2>3. parent'[InitProc] = IdleProc /\ parent'[IdleProc] = NoProc
        /\ children'[IdleProc] = <<InitProc>>
    BY <1>0, <1>5, <1>6, <1>7, ProcAssumption DEF Kin
  <2>4. \A p \in Procs : parent'[p] # p
    BY <1>5, <1>7 DEF Kin
  <2>5. \A p \in Procs : parent'[p] = NoProc /\ p # IdleProc =>
          children'[p] = <<>> /\ Unused(p)'
    <3> SUFFICES ASSUME NEW p \in Procs, parent'[p] = NoProc, p # IdleProc
                 PROVE  children'[p] = <<>> /\ Unused(p)'
      OBVIOUS
    <3>1. p # q /\ p # Mine /\ parent[p] = NoProc
      BY <1>0, <1>5, <1>7
    <3> QED BY <1>2, <1>6, <3>1 DEF Kin
  <2> QED BY <2>1, <2>2, <2>3, <2>4, <2>5 DEF Kin
<1>17. Home'
  <2> SUFFICES ASSUME NEW t \in Threads, Live(t), t # IdleThread
               PROVE  /\ parent'[thr.pcb[t]] \in Procs
                      /\ thr.pcb[t] \in Range(children'[parent'[thr.pcb[t]]])
    BY <1>0, <1>2 DEF Home
  <2> QED BY <1>6, <1>7, <1>9 DEF Home
<1>18. Tree'
  <2>1. \A p, r \in Procs : Edge(p, r)' <=> Edge(p, r) \/ (p = Mine /\ r = q)
    BY <1>0, <1>2, <1>6, <1>7, ZenonT(30) DEF Edge
  <2> SUFFICES ASSUME NEW S \in SUBSET Procs, IdleProc \in S,
                      \A p \in S, r \in Procs : Edge(p, r)' => r \in S,
                      NEW p \in Procs, NEW r \in Procs, Edge(p, r)'
               PROVE  r \in S
    BY DEF Tree
  <2>2. \A x, y \in Procs : Edge(x, y) => y \in S
    BY <2>1 DEF Tree
  <2>3. Mine \in S
    BY <1>0, <2>2 DEF Home, Edge
  <2> QED BY <2>1, <2>2, <2>3
<1>19. Zombie'
  <2> SUFFICES ASSUME NEW t \in Threads, thr.state[t] = "VANISH_WAIT",
                      NEW p, p = thr.pcb[t], NEW r \in Range(children'[p]),
                      NoLive(r)', ~Unused(r)'
               PROVE  Noticed(p)'
    BY <1>0 DEF Zombie
  <2>1. p \in Procs
    BY <1>9 DEF Live
  <2>2. r \in Procs
    BY <1>6, <2>1, RangeSubset
  <2>3. r \in Range(children[p])
    BY <1>2, <1>5, <1>6, <2>1, <2>2
  <2> QED BY <1>2, <2>1, <2>2, <2>3 DEF Zombie
<1> QED BY <1>2, <1>10, <1>11, <1>12, <1>13, <1>14, <1>15, <1>16, <1>17, <1>18, <1>19

\* What a failing fork throws away: the last child q, and its TCB u if there
\* is one already.
Undoes(q, u) ==
  /\ q = kid[Me] /\ u = node[Me]
  /\ q \in Range(children[Mine]) /\ q = Last(children[Mine])
  /\ children[q] = <<>>
  /\ children' = [children EXCEPT ![Mine] = Front(@)]
  /\ parent' = [parent EXCEPT ![q] = NoProc]
  /\ \A t \in Threads : t # u =>
       thr'.state[t] = thr.state[t] /\ thr'.pcb[t] = thr.pcb[t]
  /\ u \in Threads =>
       /\ u # Me /\ op[u] = "user" /\ thr.pcb[u] = q
       /\ thr.state[u] = "READY" /\ op[Me] = "fork_insert"
       /\ thr'.state[u] = "NEW" /\ thr'.pcb[u] = NoProc
  /\ \A t \in Threads : thr.pcb[t] = q /\ thr.state[t] # "NEW" => t = u

LEMMA UndoFacts ==
  ASSUME LInv, ForkUndo, kid[Me] # NoProc, UndoesOwn
  PROVE  Core' /\ \E q \in Procs, u \in Threads \cup {NoThread} : Undoes(q, u)
<1> USE DEF LInv, FamilyInv
<1>0. /\ Me \in Threads /\ Mine \in Procs /\ Mine = thr.pcb[Me]
      /\ NoProc \notin Procs /\ NoThread \notin Threads
      /\ op[Me] \in Forking
      /\ lock' = lock /\ op' = [op EXCEPT ![Me] = "user"]
      /\ node' = [node EXCEPT ![Me] = NoThread]
      /\ children' = [children EXCEPT ![Mine] = Front(@)]
      /\ parent' = [parent EXCEPT ![Last(children[Mine])] = NoProc]
      /\ thr' = IF node[Me] = NoThread THEN thr ELSE FreeTcb(node[Me])
      /\ tcbs' = [tcbs EXCEPT ![kid[Me]] = <<>>]
  BY FamilyFacts, ProcAssumption, ThreadAssumption
     DEF ForkUndo, Mine, Goto, Forking
<1>1. /\ kid \in [Threads -> Procs \cup {NoProc}]
      /\ node \in [Threads -> Threads \cup {NoThread}]
      /\ tcbs \in [Procs -> Seq(Threads)]
      /\ lock \in [Procs -> Threads \cup {NoThread}]
      /\ thr.state \in [Threads -> ListIdx \cup {"NEW"}]
      /\ thr.pcb \in [Threads -> Procs \cup {NoProc}]
      /\ op = [t \in Threads |-> op[t]]
  BY CoreTypes DEF FamilyType
<1>2. PICK q \in Procs, u \in Threads \cup {NoThread} : q = kid[Me] /\ u = node[Me]
  BY <1>0, <1>1
<1>3. ChildOK(Me)
  BY <1>0 DEF ForkInv
<1>4. /\ q \in Range(children[Mine]) /\ q = Last(children[Mine])
      /\ children[q] = <<>> /\ parent' = [parent EXCEPT ![q] = NoProc]
  BY <1>0, <1>2, <1>3 DEF ChildOK, UndoesOwn
<1>5. CASE op[Me] = "fork_build"
  <2>1. u = NoThread /\ Unused(q)
    BY <1>0, <1>2, <1>3, <1>5 DEF NodeInv, ChildOK, Inserting
  <2>2. tcbs[q] = <<>>
    BY <2>1, CountMeaning
  <2>3. thr' = thr /\ tcbs' = tcbs
    BY <1>0, <1>1, <1>2, <2>1, <2>2
  <2>4. Core'
    <3>1. Moved(thr, thr', Pending, NoThread)
      BY <2>3, MovedSelf DEF Core
    <3>2. PICK o \in {"user"}, n \in Threads \cup {NoThread} : o = "user" /\ n = NoThread
      OBVIOUS
    <3>3. o \notin Inserting /\ op[Me] \notin Inserting /\ o \notin {"thread_fork_insert", "task_vanish_loop"}
      BY <1>5, <3>2 DEF Inserting
    <3> QED BY <1>0, <1>1, <2>3, <3>1, <3>2, <3>3, CoreMoved
  <2>5. \A t \in Threads : thr.pcb[t] = q /\ thr.state[t] # "NEW" => t = u
    BY <2>1 DEF Unused
  <2>6. Undoes(q, u)
    BY <1>0, <1>2, <1>4, <2>1, <2>3, <2>5 DEF Undoes
  <2> QED BY <2>4, <2>6
<1>6. CASE op[Me] = "fork_insert"
  <2>0. u \in Threads /\ u # NoThread /\ thr.pcb[u] = q
    BY <1>0, <1>2, <1>6 DEF ForkInv, Core, PendInv, Inserting
  <2>1. u \in Threads /\ u # NoThread /\ thr.pcb[u] = q /\ Range(tcbs[q]) = {u}
    BY <1>0, <1>2, <1>6, <2>0 DEF Core, PendInv
  <2>2. PICK z \in Seq(Threads) : z = <<>>
    BY ShortSequences
  <2>3. /\ thr' = FreeTcb(node[Me]) /\ q = thr.pcb[node[Me]]
        /\ tcbs' = [tcbs EXCEPT ![q] = z] /\ IsInjective(z)
        /\ Range(z) = Range(tcbs[q]) \ {node[Me]}
    BY <1>0, <1>2, <2>1, <2>2, ShortSequences
  <2>4. \A t \in Threads :
          op[t] \in {"thread_fork_insert", "task_vanish_loop"}
            /\ thr.pcb[t] = q => t = Me
    <3> SUFFICES ASSUME NEW t \in Threads, thr.pcb[t] = q,
                        op[t] \in {"thread_fork_insert", "task_vanish_loop"}
                 PROVE  FALSE
      OBVIOUS
    <3>1. thr.state[t] # "NEW" /\ t \notin Pending
      BY DEF Core, PendInv
    <3>2. t = u
      BY <2>1, <3>1 DEF Core, TcbInv
    <3> QED BY <1>0, <1>2, <1>6, <3>1, <3>2 DEF Pending
  <2>5. /\ Core' /\ u # Me /\ thr.state[u] = "READY" /\ op[u] = "user"
        /\ thr'.state = [thr.state EXCEPT ![u] = "NEW"]
        /\ thr'.pcb = [thr.pcb EXCEPT ![u] = NoProc]
    <3>1. op[Me] \in Inserting
      BY <1>6 DEF Inserting
    <3>2. \A p \in Procs : lock'[p] # lock[p] => lock[p] \in {Me, NoThread}
      BY <1>0
    <3>3. lock' \in [Procs -> Threads \cup {NoThread}]
      BY <1>0, <1>1
    <3>4. /\ Core' /\ node[Me] # Me /\ thr.state[node[Me]] = "READY"
          /\ op[node[Me]] = "user"
          /\ thr'.state = [thr.state EXCEPT ![node[Me]] = "NEW"]
          /\ thr'.pcb = [thr.pcb EXCEPT ![node[Me]] = NoProc]
      BY <1>0, <2>3, <2>4, <3>1, <3>2, <3>3, CoreFree
    <3> QED BY <1>2, <3>4
  <2>6. \A t \in Threads : thr.pcb[t] = q /\ thr.state[t] # "NEW" => t = u
    BY <2>1 DEF Core, TcbInv
  <2>7. /\ \A t \in Threads : t # u =>
             thr'.state[t] = thr.state[t] /\ thr'.pcb[t] = thr.pcb[t]
        /\ thr'.state[u] = "NEW" /\ thr'.pcb[u] = NoProc
    BY <1>1, <2>1, <2>5
  <2>8. Undoes(q, u)
    BY <1>0, <1>2, <1>4, <1>6, <2>1, <2>5, <2>6, <2>7 DEF Undoes
  <2> QED BY <2>5, <2>8
<1> QED BY <1>0, <1>5, <1>6 DEF Forking

LEMMA ForkUndoFamily ==
  ASSUME LInv, ForkUndo, kid[Me] # NoProc, UndoesOwn
  PROVE  LInv'
<1> USE DEF LInv, FamilyInv
<1>0. /\ Me \in Threads /\ Mine \in Procs /\ Mine = thr.pcb[Me] /\ Live(Me)
      /\ NoProc \notin Procs /\ NoThread \notin Threads
      /\ op[Me] \in Forking /\ Mine # IdleProc
      /\ lock' = lock /\ op' = [op EXCEPT ![Me] = "user"]
      /\ node' = [node EXCEPT ![Me] = NoThread]
      /\ kid' = [kid EXCEPT ![Me] = NoProc]
  BY FamilyFacts, ProcAssumption, ThreadAssumption
     DEF ForkUndo, Mine, Goto, SetKid, Forking
<1>1. /\ children \in [Procs -> Seq(Procs)]
      /\ parent \in [Procs -> Procs \cup {NoProc}]
      /\ kid \in [Threads -> Procs \cup {NoProc}]
      /\ node \in [Threads -> Threads \cup {NoThread}]
      /\ lock \in [Procs -> Threads \cup {NoThread}]
      /\ op = [t \in Threads |-> op[t]]
  BY CoreTypes DEF FamilyType
<1>2. Core' /\ \E q \in Procs, u \in Threads \cup {NoThread} : Undoes(q, u)
  BY UndoFacts
<1>3. PICK q \in Procs, u \in Threads \cup {NoThread} : Undoes(q, u)
  BY <1>2
<1>4. WalkInv'
  <2>1. PICK o \in {"user"} : o = "user"
    OBVIOUS
  <2> QED BY <1>0, <2>1, NoWalk DEF Forking
<1>5. \A t \in Threads : Live(t) /\ op[t] \in Forking \cup Reaping => kid[t] # Mine
  BY NotMine
<1>6. \A t \in Threads : op[t] \in OwnPlaces => Live(t) /\ Runs(t)
  BY OwnersLive
<1>7. \A p \in Procs : lock[p] # Me
  BY <1>0, OwnLockOnly DEF Forking, LockingCalls, WaitCalls
<1> HIDE DEF Me, Mine
<1>8. /\ q \in Range(children[Mine]) /\ q = Last(children[Mine]) /\ q = kid[Me]
      /\ u = node[Me] /\ children[q] = <<>>
      /\ \A t \in Threads : t # u =>
           thr'.state[t] = thr.state[t] /\ thr'.pcb[t] = thr.pcb[t]
      /\ u \in Threads =>
           /\ u # Me /\ op[u] = "user" /\ thr.pcb[u] = q
           /\ thr.state[u] = "READY" /\ op[Me] = "fork_insert"
           /\ thr'.state[u] = "NEW" /\ thr'.pcb[u] = NoProc
      /\ \A t \in Threads : thr.pcb[t] = q /\ thr.state[t] # "NEW" => t = u
  BY <1>3 DEF Undoes
<1>9. /\ parent[q] = Mine /\ q # Mine /\ q # IdleProc /\ q # InitProc
      /\ \A p \in Procs : p # Mine => q \notin Range(children[p])
  BY <1>0, <1>8, ProcAssumption DEF Kin
<1>10. /\ children' \in [Procs -> Seq(Procs)]
       /\ \A p \in Procs : p # Mine => children'[p] = children[p]
       /\ IsInjective(children'[Mine])
       /\ Range(children'[Mine]) = Range(children[Mine]) \ {q}
  <2>1. children[Mine] \in Seq(Procs) /\ IsInjective(children[Mine])
    BY <1>0, <1>1 DEF Kin
  <2>2. /\ Front(children[Mine]) \in Seq(Procs)
        /\ IsInjective(Front(children[Mine]))
        /\ Range(Front(children[Mine])) = Range(children[Mine]) \ {q}
    <3>1. PICK s \in Seq(Procs) : s = children[Mine]
      BY <2>1
    <3>2. IsInjective(s) /\ q \in Range(s) /\ q = Last(s)
      BY <1>8, <2>1, <3>1
    <3>3. Front(s) \in Seq(Procs) /\ IsInjective(Front(s)) /\ Range(Front(s)) = Range(s) \ {q}
      BY ONLY <3>2, DropLast
    <3> QED BY <3>1, <3>3
  <2>3. children' = [children EXCEPT ![Mine] = Front(@)]
    BY <1>3 DEF Undoes
  <2> QED BY <1>0, <1>1, <2>2, <2>3
<1>11. /\ \A p \in Procs : p # q => parent'[p] = parent[p]
       /\ parent'[q] = NoProc
       /\ parent' \in [Procs -> Procs \cup {NoProc}]
       /\ \A t \in Threads : t # Me =>
            kid'[t] = kid[t] /\ op'[t] = op[t] /\ node'[t] = node[t]
       /\ kid'[Me] = NoProc /\ op'[Me] = "user" /\ node'[Me] = NoThread
  <2>1. parent' = [parent EXCEPT ![q] = NoProc]
    BY <1>3 DEF Undoes
  <2> QED BY <1>0, <1>1, <2>1
<1>12. /\ \A t \in Threads : Live(t) /\ t # Me => thr.pcb[t] # Mine
       /\ \A t \in Threads : Live(t) => thr.pcb[t] \in Procs
       /\ \A t \in Threads : Live(t) /\ t # Me => kid[t] # q
       /\ \A t \in Threads : Live(t) /\ t # u => thr.pcb[t] # q
  BY <1>0, <1>8 DEF ForkInv, KidInv, Live, Core, TcbInv
<1>13. \A t \in Threads : (Live(t)' <=> Live(t) /\ t # u) /\ (Runs(t)' <=> Runs(t) /\ t # u)
  BY <1>8 DEF Live, Runs
<1>14. /\ \A p \in Procs : p # q => (NoLive(p)' <=> NoLive(p)) /\ (Unused(p)' <=> Unused(p))
       /\ Unused(q)'
  <2>1. ASSUME NEW p \in Procs, p # q PROVE NoLive(p)' <=> NoLive(p)
    BY <1>0, <1>8, <1>13, <2>1 DEF NoLive
  <2>2. ASSUME NEW p \in Procs, p # q PROVE Unused(p)' <=> Unused(p)
    BY <1>0, <1>8, <2>2 DEF Unused
  <2>3. Unused(q)'
    BY <1>0, <1>8 DEF Unused
  <2> QED BY <2>1, <2>2, <2>3
<1>15. FamilyType' /\ NodeInv' /\ SleepInv' /\ IdleHome'
  <2>1. FamilyType'
    BY <1>0, <1>1, <1>10, <1>11 DEF FamilyType
  <2>2. NodeInv'
    BY <1>11 DEF NodeInv
  <2>3. SleepInv'
    <3> SUFFICES ASSUME NEW t \in Threads, thr'.state[t] = "VANISH_WAIT"
                 PROVE  op'[t] = "wait"
      BY DEF SleepInv
    <3>1. thr.state[t] = "VANISH_WAIT"
      BY <1>8
    <3> QED BY <1>0, <1>11, <3>1 DEF SleepInv, Forking
  <2>4. IdleHome'
    <3>1. u # IdleThread
      BY <1>8, <1>9, ThreadAssumption DEF IdleHome
    <3>2. op'[IdleThread] = "user"
      BY <1>11, ThreadAssumption DEF IdleHome
    <3>3. Runs(IdleThread)'
      BY <1>13, <3>1, ThreadAssumption DEF IdleHome
    <3>4. \A t \in Threads : thr'.pcb[t] = IdleProc <=> t = IdleThread
      BY <1>0, <1>8, <3>1, ProcAssumption DEF IdleHome
    <3> QED BY <3>2, <3>3, <3>4 DEF IdleHome
  <2> QED BY <2>1, <2>2, <2>3, <2>4
<1>16. OwnInv'
  <2> SUFFICES ASSUME NEW t \in Threads, op'[t] \in OwnPlaces
               PROVE  lock[thr'.pcb[t]] = t
    BY <1>0 DEF OwnInv
  <2> QED BY <1>8, <1>11 DEF OwnInv, OwnPlaces
<1>17. HolderInv'
  <2> SUFFICES ASSUME NEW p \in Procs, NEW h, h = lock[p], h # NoThread
               PROVE  thr'.state[h] \in {"READY", "RUNNING"} /\ MayHold(h, p)'
    BY <1>0 DEF HolderInv, Runs
  <2>1. h \in Threads /\ Runs(h) /\ MayHold(h, p) /\ h # Me
    BY <1>1, <1>7 DEF HolderInv
  <2>2. h # u /\ Live(h)
    BY <1>8, <2>1 DEF MayHold, LockingCalls, WaitCalls, OwnPlaces, Runs, Live
  <2>3. children'[thr.pcb[h]] = children[thr.pcb[h]]
    BY <1>10, <1>12, <2>1, <2>2
  <2> QED BY <1>8, <1>11, <2>1, <2>2, <2>3 DEF MayHold, Runs
<1>18. ForkInv'
  <2> SUFFICES ASSUME NEW t \in Threads, op'[t] \in Forking
               PROVE  /\ Live(t)'
                      /\ \A w \in Threads : thr'.pcb[w] = thr'.pcb[t] /\ Live(w)' => w = t
                      /\ op'[t] = "fork_insert" => kid'[t] # NoProc /\ thr'.pcb[node'[t]] = kid'[t]
                      /\ kid'[t] # NoProc => ChildOK(t)'
    BY DEF ForkInv
  <2>1. /\ op[t] \in Forking /\ t # Me /\ t # u /\ op'[t] = op[t] /\ Live(t)
        /\ kid'[t] = kid[t] /\ node'[t] = node[t] /\ thr'.pcb[t] = thr.pcb[t]
    BY <1>8, <1>11 DEF Forking, ForkInv
  <2>2. Live(t)' /\ \A w \in Threads : thr'.pcb[w] = thr'.pcb[t] /\ Live(w)' => w = t
    BY <1>8, <1>13, <2>1 DEF ForkInv
  <2>3. ASSUME op[t] = "fork_insert" PROVE kid[t] # NoProc /\ thr'.pcb[node[t]] = kid[t]
    <3>1. kid[t] # NoProc /\ thr.pcb[node[t]] = kid[t] /\ node[t] \in Threads
      BY <2>3, <2>1 DEF ForkInv, Core, PendInv, Inserting
    <3>2. node[t] # u
      BY <1>0, <1>8, <2>1, <2>3, <3>1 DEF Core, PendInv, Inserting
    <3> QED BY <1>8, <3>1, <3>2
  <2>4. ASSUME kid[t] # NoProc PROVE ChildOK(t)'
    <3>1. ChildOK(t) /\ kid[t] \in Procs /\ kid[t] # q /\ kid[t] # Mine
          /\ thr.pcb[t] # Mine /\ thr.pcb[t] \in Procs
      BY <1>1, <1>5, <1>12, <2>1, <2>4 DEF ForkInv
    <3>2. children'[kid[t]] = children[kid[t]] /\ children'[thr.pcb[t]] = children[thr.pcb[t]]
      BY <1>10, <3>1
    <3>3. Unused(kid[t]) => Unused(kid[t])'
      BY <1>14, <2>1, <3>1 DEF Unused
    <3> QED BY <2>1, <3>1, <3>2, <3>3 DEF ChildOK
  <2> QED BY <2>1, <2>2, <2>3, <2>4
<1>19. ScanInv'
  <2> SUFFICES ASSUME NEW t \in Threads, op'[t] = "wait_scan"
               PROVE  /\ kid'[t] \in Range(children'[thr'.pcb[t]])
                      /\ \A p \in Procs : Before(children'[thr'.pcb[t]], kid'[t], p) =>
                           lock[p] = t /\ ~NoLive(p)'
    BY <1>0 DEF ScanInv
  <2>1. /\ op[t] = "wait_scan" /\ t # Me /\ t # u /\ kid'[t] = kid[t]
        /\ thr'.pcb[t] = thr.pcb[t]
    BY <1>8, <1>11
  <2>2. Live(t) /\ thr.pcb[t] # Mine /\ thr.pcb[t] \in Procs
    BY <1>6, <1>12, <2>1 DEF OwnPlaces
  <2>3. children'[thr.pcb[t]] = children[thr.pcb[t]]
    BY <1>10, <2>2
  <2>4. \A p \in Procs : Before(children[thr.pcb[t]], kid[t], p) => p # q
    <3>1. children[thr.pcb[t]] \in Seq(Procs) /\ IsInjective(children[thr.pcb[t]])
      BY <1>1, <2>2 DEF Kin
    <3> QED BY <1>9, <2>2, <3>1, BeforeFacts
  <2> QED BY <1>14, <2>1, <2>3, <2>4 DEF ScanInv
<1>20. ReapInv'
  <2> SUFFICES ASSUME NEW t \in Threads, Live(t)', op'[t] \in Reaping
               PROVE  /\ kid'[t] \in Procs /\ parent'[kid'[t]] = thr'.pcb[t]
                      /\ kid'[t] \notin Range(children'[thr'.pcb[t]])
                      /\ NoLive(kid[t])'
                      /\ op'[t] \in Freeing => children'[kid'[t]] = <<>>
    BY DEF ReapInv
  <2>1. /\ op'[t] = op[t] /\ t # Me /\ t # u /\ kid'[t] = kid[t]
        /\ thr'.pcb[t] = thr.pcb[t] /\ Live(t)
    BY <1>8, <1>11, <1>13 DEF Reaping
  <2>2. /\ kid[t] \in Procs /\ parent[kid[t]] = thr.pcb[t] /\ NoLive(kid[t])
        /\ kid[t] \notin Range(children[thr.pcb[t]])
        /\ op[t] \in Freeing => children[kid[t]] = <<>>
    BY <2>1 DEF ReapInv
  <2>3. kid[t] # q /\ kid[t] # Mine /\ thr.pcb[t] # Mine /\ thr.pcb[t] \in Procs
    BY <1>5, <1>12, <2>1
  <2>4. NoLive(kid[t])'
    BY <1>14, <2>1, <2>2, <2>3 DEF NoLive
  <2> QED BY <1>10, <1>11, <2>1, <2>2, <2>3, <2>4
<1>21. KidInv'
  <2>1. ASSUME NEW t \in Threads, thr'.state[t] # "TERMINATED",
               op'[t] \notin Forking \cup Reaping \cup {"wait_scan"}
        PROVE  kid'[t] = NoProc
    BY <1>8, <1>11, <2>1 DEF KidInv
  <2>2. ASSUME NEW t \in Threads, NEW w \in Threads, Live(t)', Live(w)', t # w,
               kid'[t] # NoProc
        PROVE  kid'[t] # kid'[w]
    BY <1>11, <1>13, <2>2 DEF KidInv
  <2> QED BY <2>1, <2>2 DEF KidInv
<1>22. Kin'
  <2>1. \A p \in Procs : IsInjective(children'[p])
    BY <1>10 DEF Kin
  <2>2. \A p, r \in Procs : r \in Range(children'[p]) => parent'[r] = p
    BY <1>9, <1>10, <1>11 DEF Kin
  <2>3. parent'[InitProc] = IdleProc /\ parent'[IdleProc] = NoProc
        /\ children'[IdleProc] = <<InitProc>>
    BY <1>0, <1>9, <1>10, <1>11, ProcAssumption DEF Kin
  <2>4. \A p \in Procs : parent'[p] # p
    BY <1>0, <1>11 DEF Kin
  <2>5. \A p \in Procs : parent'[p] = NoProc /\ p # IdleProc =>
          children'[p] = <<>> /\ Unused(p)'
    <3> SUFFICES ASSUME NEW p \in Procs, parent'[p] = NoProc, p # IdleProc
                 PROVE  children'[p] = <<>> /\ Unused(p)'
      OBVIOUS
    <3>1. parent[Mine] \in Procs
      BY <1>0 DEF Home, IdleHome
    <3>2. CASE p = q
      BY <1>8, <1>9, <1>10, <1>14, <3>2
    <3>3. CASE p # q
      <4>1. parent[p] = NoProc /\ p # Mine
        BY <1>0, <1>9, <1>11, <3>1, <3>3
      <4> QED BY <1>10, <1>14, <3>3, <4>1 DEF Kin
    <3> QED BY <3>2, <3>3
  <2> QED BY <2>1, <2>2, <2>3, <2>4, <2>5 DEF Kin
<1>23. Home'
  <2> SUFFICES ASSUME NEW t \in Threads, Live(t)', t # IdleThread
               PROVE  /\ parent'[thr'.pcb[t]] \in Procs
                      /\ thr'.pcb[t] \in Range(children'[parent'[thr'.pcb[t]]])
    BY DEF Home
  <2>1. Live(t) /\ t # u /\ thr'.pcb[t] = thr.pcb[t] /\ thr.pcb[t] # q /\ thr.pcb[t] \in Procs
    BY <1>8, <1>12, <1>13
  <2>2. parent[thr.pcb[t]] \in Procs /\ thr.pcb[t] \in Range(children[parent[thr.pcb[t]]])
    BY <2>1 DEF Home
  <2>3. parent'[thr.pcb[t]] = parent[thr.pcb[t]]
    BY <1>11, <2>1
  <2>4. thr.pcb[t] \in Range(children'[parent[thr.pcb[t]]])
    BY <1>10, <2>1, <2>2
  <2> QED BY <2>1, <2>2, <2>3, <2>4
<1>24. Tree'
  <2>1. \A p, r \in Procs : Edge(p, r)' <=> Edge(p, r) /\ ~(p = Mine /\ r = q)
    <3> SUFFICES ASSUME NEW p \in Procs, NEW r \in Procs
                 PROVE  Edge(p, r)' <=> Edge(p, r) /\ ~(p = Mine /\ r = q)
      OBVIOUS
    <3>1. r \in Range(children'[p]) <=> r \in Range(children[p]) /\ ~(p = Mine /\ r = q)
      BY <1>10
    <3>2. \A t \in Threads :
            Live(t)' /\ op'[t] = "wait_adopt" /\ thr'.pcb[t] = p /\ kid'[t] = r
            <=> Live(t) /\ op[t] = "wait_adopt" /\ thr.pcb[t] = p /\ kid[t] = r
      BY <1>0, <1>8, <1>11, <1>13 DEF Forking
    <3>3. \A t \in Threads : Live(t) /\ op[t] = "wait_adopt" => t # Me /\ kid[t] # q
      BY <1>0, <1>12 DEF Forking
    <3> QED BY <3>1, <3>2, <3>3 DEF Edge
  <2>2. \A p, r \in Procs : Edge(p, r)' => r # q
    <3>1. \A t \in Threads : Live(t) /\ op[t] = "wait_adopt" => kid[t] # q
      BY <1>0, <1>12 DEF Forking
    <3> QED BY <1>9, <2>1, <3>1 DEF Edge
  <2>3. \A r \in Procs : ~Edge(q, r)
    <3>1. \A t \in Threads : Live(t) /\ op[t] = "wait_adopt" => thr.pcb[t] # q
      BY <1>8, <1>12
    <3>2. Range(children[q]) = {}
      BY <1>8, ShortSequences
    <3> QED BY <3>1, <3>2 DEF Edge
  <2> SUFFICES ASSUME NEW S \in SUBSET Procs, IdleProc \in S,
                      \A p \in S, r \in Procs : Edge(p, r)' => r \in S,
                      NEW p \in Procs, NEW r \in Procs, Edge(p, r)'
               PROVE  r \in S
    BY DEF Tree
  <2>4. PICK R \in SUBSET Procs : R = S \cup {q}
    OBVIOUS
  <2>5. IdleProc \in R /\ \A x \in R, y \in Procs : Edge(x, y) => y \in R
    BY <2>1, <2>3, <2>4
  <2>6. r \in R
    BY <2>1, <2>5 DEF Tree
  <2> QED BY <2>2, <2>4, <2>6
<1>25. Zombie'
  <2> SUFFICES ASSUME NEW t \in Threads, thr'.state[t] = "VANISH_WAIT",
                      NEW r, r = thr'.pcb[t], NEW p \in Range(children'[r]),
                      NoLive(p)', ~Unused(p)'
               PROVE  Noticed(r)'
    BY DEF Zombie
  <2>1. t # u /\ thr.state[t] = "VANISH_WAIT" /\ r = thr.pcb[t] /\ r \in Procs
    BY <1>8, <1>12 DEF Live
  <2>2. p \in Procs /\ p \in Range(children[r])
    BY <1>10, <2>1, RangeSubset
  <2>3. p # q
    BY <1>14
  <2>4. Noticed(r)
    BY <1>14, <2>1, <2>2, <2>3 DEF Zombie
  <2>5. PICK w \in Threads :
          \/ /\ Runs(w) /\ thr.pcb[w] = r
             /\ op[w] \in WaitOps \cup {"task_vanish_loop"}
          \/ /\ r = InitProc
             /\ thr.state[w] \in {"READY", "RUNNING", "TERMINATED"}
             /\ op[w] \in Late
    BY <2>4 DEF Noticed
  <2>6. w # u /\ w # Me
    BY <1>0, <1>8, <2>5 DEF WaitOps, Forking, Late
  <2>7. op'[w] = op[w] /\ thr'.pcb[w] = thr.pcb[w] /\ thr'.state[w] = thr.state[w]
    BY <1>8, <1>11, <2>6
  <2> QED BY <2>5, <2>7 DEF Noticed, Runs
<1> QED BY <1>2, <1>4, <1>15, <1>16, <1>17, <1>18, <1>19, <1>20, <1>21, <1>22,
           <1>23, <1>24, <1>25
-----------------------------------------------------------------------------
(***************************************************************************)
(* wait collects an exited child: detach, hand over, free.                 *)
(***************************************************************************)

\* What is left of the list and of the locks when an exited child is found.
LEMMA FoundFacts ==
  ASSUME LInv, WaitFound
  PROVE  /\ \A p \in Procs : lock'[p] =
              IF p = kid[Me] \/ Before(children[Mine], kid[Me], p)
              THEN NoThread ELSE lock[p]
         /\ lock' \in [Procs -> Threads \cup {NoThread}]
         /\ children' \in [Procs -> Seq(Procs)]
         /\ \A p \in Procs : p # Mine => children'[p] = children[p]
         /\ IsInjective(children'[Mine])
         /\ Range(children'[Mine]) = Range(children[Mine]) \ {kid[Me]}
<1>0. /\ Me \in Threads /\ Mine \in Procs /\ op[Me] = "wait_scan"
      /\ children \in [Procs -> Seq(Procs)]
      /\ lock \in [Procs -> Threads \cup {NoThread}]
  BY FamilyFacts, CoreTypes DEF WaitFound, AtChild, LInv, FamilyInv, FamilyType
<1>1. /\ children[Mine] \in Seq(Procs) /\ IsInjective(children[Mine])
      /\ kid[Me] \in Range(children[Mine]) /\ kid[Me] \in Procs
      /\ KidIndex \in 1..Len(children[Mine])
      /\ children[Mine][KidIndex] = kid[Me]
  BY <1>0, KidPlace
<1>21. PICK s \in Seq(Procs) : s = children[Mine]
  BY <1>1
<1>22. PICK k \in 1..Len(s) : k = KidIndex
  BY <1>1, <1>21
<1>2. s = children[Mine] /\ k = KidIndex
  BY <1>21, <1>22
<1>3. PICK q \in Procs : q = kid[Me]
  BY <1>1
<1>4. RemoveAt(s, k) = RemoveFirst(s, q)
  <2>1. \E i \in 1..Len(s) : s[i] = q
    BY <1>1, <1>2, <1>3
  <2>2. k = SelectInSeq(s, LAMBDA p : p = q)
    BY <1>2, <1>3 DEF KidIndex
  <2> QED BY <2>1, <2>2 DEF RemoveFirst
<1>5. /\ RemoveAt(s, k) \in Seq(Procs) /\ IsInjective(RemoveAt(s, k))
      /\ Range(RemoveAt(s, k)) = Range(s) \ {q}
  BY <1>1, <1>2, <1>3, <1>4, RemoveFirstProperties
<1>6. lock' = [p \in Procs |-> IF \E i \in 1..k : s[i] = p THEN NoThread ELSE lock[p]]
  BY <1>2 DEF WaitFound
<1>7. \A p : (\E i \in 1..k : s[i] = p) <=> p = q \/ Before(s, q, p)
  <2>1. \A i \in 1..Len(s) : s[i] = q => i = k
    BY <1>1, <1>2, <1>3 DEF IsInjective
  <2>2. s[k] = q /\ k \in Nat /\ Len(s) \in Nat
    BY <1>1, <1>2, <1>3
  <2>3. ASSUME NEW p, NEW i \in 1..k, s[i] = p PROVE p = q \/ Before(s, q, p)
    <3>1. CASE i = k
      BY <2>2, <2>3, <3>1
    <3>2. CASE i < k
      BY <2>2, <2>3, <3>2 DEF Before
    <3> QED BY <2>2, <3>1, <3>2
  <2>4. ASSUME NEW p, p = q \/ Before(s, q, p) PROVE \E i \in 1..k : s[i] = p
    <3>1. CASE p = q
      BY <2>2, <3>1
    <3>2. CASE Before(s, q, p)
      <4>1. PICK i \in 1..Len(s), j \in 1..Len(s) : i < j /\ s[i] = p /\ s[j] = q
        BY <3>2 DEF Before
      <4>2. j = k
        BY <2>1, <4>1
      <4> QED BY <2>2, <4>1, <4>2
    <3> QED BY <2>4, <3>1, <3>2
  <2> QED BY <2>3, <2>4
<1>8. children' = [children EXCEPT ![Mine] = RemoveAt(s, k)]
  BY <1>2 DEF WaitFound
<1> HIDE DEF Me, Mine
<1>9. /\ children' \in [Procs -> Seq(Procs)] /\ children'[Mine] = RemoveAt(s, k)
      /\ \A p \in Procs : p # Mine => children'[p] = children[p]
  BY <1>0, <1>5, <1>8
<1>10. lock' \in [Procs -> Threads \cup {NoThread}]
  BY <1>0, <1>6
<1>11. \A p \in Procs : lock'[p] =
         IF p = kid[Me] \/ Before(children[Mine], kid[Me], p)
         THEN NoThread ELSE lock[p]
  BY <1>2, <1>3, <1>6, <1>7
<1> QED BY <1>2, <1>3, <1>5, <1>9, <1>10, <1>11

LEMMA WaitFoundFamily ==
  ASSUME LInv, WaitFound
  PROVE  LInv'
<1> USE DEF LInv, FamilyInv
<1>0. /\ Me \in Threads /\ Mine \in Procs /\ Mine = thr.pcb[Me] /\ Live(Me)
      /\ NoProc \notin Procs /\ NoThread \notin Threads
      /\ op[Me] = "wait_scan" /\ lock[kid[Me]] = Me /\ Mine # IdleProc
      /\ AliveCount(kid[Me]) = 0 /\ Me # IdleThread
      /\ op' = [op EXCEPT ![Me] = "wait_adopt"]
      /\ UNCHANGED <<thr, tcbs, parent, node, kid>>
  BY FamilyFacts, ProcAssumption, ThreadAssumption
     DEF WaitFound, AtChild, Mine, Goto
<1>1. /\ children \in [Procs -> Seq(Procs)]
      /\ parent \in [Procs -> Procs \cup {NoProc}]
      /\ kid \in [Threads -> Procs \cup {NoProc}]
      /\ node \in [Threads -> Threads \cup {NoThread}]
      /\ lock \in [Procs -> Threads \cup {NoThread}]
      /\ op = [t \in Threads |-> op[t]]
  BY CoreTypes DEF FamilyType
<1>2. /\ lock[Mine] = Me /\ kid[Me] \in Range(children[Mine]) /\ kid[Me] \in Procs
      /\ \A p \in Procs : Before(children[Mine], kid[Me], p) => lock[p] = Me
  BY <1>0, KidPlace
<1>3. /\ \A p \in Procs : lock'[p] =
           IF p = kid[Me] \/ Before(children[Mine], kid[Me], p)
           THEN NoThread ELSE lock[p]
      /\ lock' \in [Procs -> Threads \cup {NoThread}]
      /\ children' \in [Procs -> Seq(Procs)]
      /\ \A p \in Procs : p # Mine => children'[p] = children[p]
      /\ IsInjective(children'[Mine])
      /\ Range(children'[Mine]) = Range(children[Mine]) \ {kid[Me]}
  BY FoundFacts
<1>4. \A t \in Threads : Live(t) /\ op[t] \in Forking \cup Reaping => kid[t] # Mine
  BY NotMine
<1>5. \A t \in Threads : op[t] \in OwnPlaces => Live(t) /\ thr.pcb[t] \in Procs
  BY OwnersLive
<1>6. \A p \in Procs : lock[p] = Me => MayHold(Me, p)
  BY FamilyFacts
<1>7. WalkInv'
  <2>1. PICK o \in {"wait_adopt"} : o = "wait_adopt"
    OBVIOUS
  <2> QED BY <1>0, <2>1, NoWalk
<1>8. NoLive(kid[Me])
  BY <1>0, <1>2, CountMeaning
<1> HIDE DEF Me, Mine
<1>9. PICK q \in Procs : q = kid[Me]
  BY <1>2
<1>10. /\ parent[q] = Mine /\ q # Mine /\ q # InitProc /\ q # IdleProc
       /\ \A p \in Procs : q \in Range(children[p]) => p = Mine
       /\ parent[Mine] \in Procs
  BY <1>0, <1>2, <1>9, ProcAssumption DEF Kin, Home
<1>11. /\ \A p \in Procs : lock'[p] # lock[p] => lock[p] = Me /\ lock'[p] = NoThread
       /\ lock'[Mine] = Me /\ \A p \in Procs : lock'[p] = Me => p = Mine
  <2>1. \A p \in Procs : Before(children[Mine], kid[Me], p) => p # Mine
    <3>1. children[Mine] \in Seq(Procs) /\ IsInjective(children[Mine])
      BY <1>0, <1>1 DEF Kin
    <3> QED BY <1>0, <3>1, BeforeFacts DEF Kin
  <2> QED BY <1>0, <1>2, <1>3, <1>6, <1>9, <1>10, <2>1, ZenonT(30) DEF MayHold
<1>12. Core'
  <2>1. Moved(thr, thr', Pending, NoThread)
    BY <1>0, MovedSelf DEF Core
  <2>2. PICK o \in {"wait_adopt"}, n \in Threads \cup {NoThread} :
           o = "wait_adopt" /\ n = node[Me]
    BY <1>0, <1>1
  <2>3. /\ o \notin Inserting /\ op[Me] \notin Inserting
        /\ o \notin {"thread_fork_insert", "task_vanish_loop"}
    BY <1>0, <2>2 DEF Inserting
  <2>4. op' = [op EXCEPT ![Me] = o] /\ node' = [node EXCEPT ![Me] = n]
    BY <1>0, <1>1, <2>2
  <2>5. \A p \in Procs : lock'[p] # lock[p] => lock[p] \in {Me, NoThread}
    BY <1>11
  <2> QED BY <1>0, <1>3, <2>1, <2>2, <2>3, <2>4, <2>5, CoreMoved
<1>13. /\ \A t \in Threads : t # Me => op'[t] = op[t]
       /\ op'[Me] = "wait_adopt"
       /\ \A t \in Threads : (Live(t)' <=> Live(t)) /\ (Runs(t)' <=> Runs(t))
       /\ \A p \in Procs : (NoLive(p)' <=> NoLive(p)) /\ (Unused(p)' <=> Unused(p))
  <2>1. /\ \A t \in Threads : t # Me => op'[t] = op[t]
        /\ op'[Me] = "wait_adopt"
    BY <1>0, <1>1
  <2>2. \A t \in Threads : (Live(t)' <=> Live(t)) /\ (Runs(t)' <=> Runs(t))
    BY <1>0 DEF Live, Runs
  <2>3. \A p \in Procs : (NoLive(p)' <=> NoLive(p)) /\ (Unused(p)' <=> Unused(p))
    BY <1>0 DEF NoLive, Unused, Live
  <2> QED BY <2>1, <2>2, <2>3
<1>14. FamilyType' /\ NodeInv' /\ SleepInv' /\ IdleHome'
  <2>1. FamilyType'
    BY <1>0, <1>3 DEF FamilyType
  <2>2. NodeInv'
    BY <1>0, <1>13 DEF NodeInv, Inserting
  <2>3. SleepInv'
    BY <1>0, <1>13 DEF SleepInv
  <2>4. IdleHome'
    BY <1>0, <1>13, ThreadAssumption DEF IdleHome
  <2> QED BY <2>1, <2>2, <2>3, <2>4
<1>15. OwnInv'
  <2> SUFFICES ASSUME NEW t \in Threads, op'[t] \in OwnPlaces
               PROVE  lock'[thr.pcb[t]] = t
    BY <1>0 DEF OwnInv
  <2>1. CASE t = Me
    BY <1>0, <1>11, <2>1
  <2>2. CASE t # Me
    <3>1. lock[thr.pcb[t]] = t /\ thr.pcb[t] \in Procs
      BY <1>5, <1>13, <2>2 DEF OwnInv
    <3> QED BY <1>11, <2>2, <3>1
  <2> QED BY <2>1, <2>2
<1>16. \A t \in Threads : t # Me /\ op[t] = "wait_scan" =>
         thr.pcb[t] # Mine /\ thr.pcb[t] \in Procs
  BY <1>2, <1>5 DEF OwnInv, OwnPlaces
<1>17. HolderInv'
  <2> SUFFICES ASSUME NEW p \in Procs, NEW h, h = lock'[p], h # NoThread
               PROVE  thr.state[h] \in {"READY", "RUNNING"} /\ MayHold(h, p)'
    BY <1>0 DEF HolderInv, Runs
  <2>1. h = lock[p]
    BY <1>11
  <2>2. h \in Threads /\ Runs(h) /\ MayHold(h, p)
    BY <1>1, <2>1 DEF HolderInv
  <2>3. CASE h = Me
    BY <1>0, <1>11, <1>13, <2>2, <2>3 DEF MayHold, OwnPlaces, Runs
  <2>4. CASE h # Me
    BY <1>0, <1>3, <1>13, <1>16, <2>2, <2>4 DEF MayHold, Runs
  <2> QED BY <2>3, <2>4
<1>18. ForkInv'
  <2> SUFFICES ASSUME NEW t \in Threads, op'[t] \in Forking
               PROVE  /\ Live(t)
                      /\ \A w \in Threads : thr.pcb[w] = thr.pcb[t] /\ Live(w) => w = t
                      /\ op'[t] = "fork_insert" => kid[t] # NoProc /\ thr.pcb[node[t]] = kid[t]
                      /\ kid[t] # NoProc => ChildOK(t)'
    BY <1>0, <1>13 DEF ForkInv
  <2>1. op[t] \in Forking /\ t # Me /\ op'[t] = op[t] /\ Live(t)
    BY <1>13 DEF Forking, ForkInv
  <2>2. thr.pcb[t] # Mine /\ kid[t] # Mine /\ thr.pcb[t] \in Procs
    BY <1>0, <1>4, <2>1 DEF ForkInv, Live, Core, TcbInv
  <2>3. ASSUME kid[t] # NoProc PROVE ChildOK(t)'
    <3>1. ChildOK(t) /\ kid[t] \in Procs
      BY <1>1, <2>1, <2>3 DEF ForkInv
    <3>2. Unused(kid[t]) => Unused(kid[t])'
      BY <1>0 DEF Unused
    <3> QED BY <1>0, <1>3, <2>1, <2>2, <3>1, <3>2 DEF ChildOK
  <2> QED BY <2>1, <2>3 DEF ForkInv
<1>19. ScanInv'
  <2> SUFFICES ASSUME NEW t \in Threads, op'[t] = "wait_scan"
               PROVE  /\ kid[t] \in Range(children'[thr.pcb[t]])
                      /\ \A p \in Procs : Before(children'[thr.pcb[t]], kid[t], p) =>
                           lock'[p] = t /\ ~NoLive(p)'
    BY <1>0 DEF ScanInv
  <2>1. op[t] = "wait_scan" /\ t # Me
    BY <1>13
  <2>2. children'[thr.pcb[t]] = children[thr.pcb[t]]
    BY <1>3, <1>16, <2>1
  <2>3. \A p \in Procs : lock[p] = t => lock'[p] = t
    BY <1>11, <2>1
  <2> QED BY <1>13, <2>1, <2>2, <2>3 DEF ScanInv
<1>20. ReapInv'
  <2> SUFFICES ASSUME NEW t \in Threads, Live(t), op'[t] \in Reaping
               PROVE  /\ kid[t] \in Procs /\ parent[kid[t]] = thr.pcb[t]
                      /\ kid[t] \notin Range(children'[thr.pcb[t]])
                      /\ NoLive(kid[t])
                      /\ op'[t] \in Freeing => children'[kid[t]] = <<>>
    <3>1. \A t \in Threads : NoLive(kid[t])' <=> NoLive(kid[t])
      BY <1>0 DEF NoLive, Live
    <3> QED BY <1>0, <1>13, <3>1 DEF ReapInv
  <2>1. CASE t = Me
    BY <1>0, <1>3, <1>8, <1>9, <1>10, <1>13, <2>1 DEF Freeing
  <2>2. CASE t # Me
    <3>1. op'[t] = op[t] /\ thr.pcb[t] \in Procs /\ kid[t] # Mine
      BY <1>4, <1>13, <2>2 DEF Core, TcbInv, Live
    <3>2. kid[t] \notin Range(children'[thr.pcb[t]])
      BY <1>3, <3>1 DEF ReapInv
    <3> QED BY <1>3, <3>1, <3>2 DEF ReapInv
  <2> QED BY <2>1, <2>2
<1>23. KidInv'
  BY <1>0, <1>13 DEF KidInv, Reaping
<1>24. Kin'
  <2>1. \A p \in Procs : IsInjective(children'[p])
    BY <1>3 DEF Kin
  <2>2. \A p, r \in Procs : r \in Range(children'[p]) => parent[r] = p
    BY <1>3 DEF Kin
  <2>3. children'[IdleProc] = <<InitProc>>
    BY <1>0, <1>3, ProcAssumption DEF Kin
  <2>4. \A p \in Procs : parent[p] = NoProc /\ p # IdleProc =>
          children'[p] = <<>> /\ Unused(p)'
    BY <1>0, <1>3, <1>10, <1>13 DEF Kin
  <2> QED BY <1>0, <2>1, <2>2, <2>3, <2>4 DEF Kin
<1>25. Home'
  <2> SUFFICES ASSUME NEW t \in Threads, Live(t), t # IdleThread
               PROVE  /\ parent[thr.pcb[t]] \in Procs
                      /\ thr.pcb[t] \in Range(children'[parent[thr.pcb[t]]])
    BY <1>0, <1>13 DEF Home
  <2>1. thr.pcb[t] # kid[Me]
    BY <1>8 DEF NoLive
  <2> QED BY <1>3, <2>1 DEF Home
<1>26. Tree'
  <2>1. \A p, r \in Procs : Edge(p, r)' <=> Edge(p, r)
    <3> SUFFICES ASSUME NEW p \in Procs, NEW r \in Procs
                 PROVE  Edge(p, r)' <=> Edge(p, r)
      OBVIOUS
    <3>1. CASE p = Mine /\ r = q
      <4>1. Edge(p, r)
        BY <1>2, <1>9, <3>1 DEF Edge
      <4>2. Edge(p, r)'
        BY <1>0, <1>9, <1>13, <3>1 DEF Edge
      <4> QED BY <4>1, <4>2
    <3>2. CASE ~(p = Mine /\ r = q)
      <4>1. r \in Range(children'[p]) <=> r \in Range(children[p])
        BY <1>3, <1>9, <3>2
      <4> QED BY <1>0, <1>9, <1>13, <3>2, <4>1 DEF Edge
    <3> QED BY <3>1, <3>2
  <2> QED BY <2>1 DEF Tree
<1>27. Zombie'
  <2> SUFFICES ASSUME NEW t \in Threads, thr.state[t] = "VANISH_WAIT",
                      NEW r, r = thr.pcb[t], NEW p \in Range(children'[r]),
                      NoLive(p)', ~Unused(p)'
               PROVE  Noticed(r)'
    BY <1>0 DEF Zombie
  <2>1. r \in Procs
    BY DEF Core, TcbInv
  <2>2. p \in Procs /\ p \in Range(children[r])
    BY <1>3, <2>1, RangeSubset
  <2>3. Noticed(r)
    BY <1>13, <2>1, <2>2 DEF Zombie
  <2>4. \A w \in Threads : op[w] \in WaitOps \cup {"task_vanish_loop"} =>
          op'[w] \in WaitOps \cup {"task_vanish_loop"}
    BY <1>13 DEF WaitOps
  <2>5. \A w \in Threads : op[w] \in Late =>
          op'[w] \in Late
    BY <1>0, <1>13 DEF Late
  <2> QED BY <1>0, <2>3, <2>4, <2>5 DEF Noticed, Runs
<1> QED BY <1>7, <1>12, <1>14, <1>15, <1>17, <1>18, <1>19, <1>20, <1>23,
           <1>24, <1>25, <1>26, <1>27

-----------------------------------------------------------------------------
(***************************************************************************)
(* The orphans of the collected child go to init.                          *)
(***************************************************************************)

\* init has a child unless the caller belongs to init: the caller's process
\* descends from the root, whose only child is init.
LEMMA InitHasChild ==
  ASSUME LInv, op[Me] = "wait_adopt", lock[InitProc] = Me, Mine # InitProc
  PROVE  children[InitProc] # <<>>
<1> SUFFICES ASSUME children[InitProc] = <<>> PROVE FALSE
  OBVIOUS
<1> USE DEF LInv, FamilyInv
<1>0. /\ Me \in Threads /\ Mine \in Procs /\ Mine = thr.pcb[Me] /\ Live(Me)
      /\ Me # IdleThread /\ Mine # IdleProc
      /\ InitProc \in Procs /\ IdleProc \in Procs /\ InitProc # IdleProc
  BY FamilyFacts, ProcAssumption DEF Mine
<1> HIDE DEF Me, Mine
<1>1. PICK S \in SUBSET Procs : S = {IdleProc, InitProc}
  BY <1>0
<1>2. ASSUME NEW p \in S, NEW r \in Procs, Edge(p, r) PROVE r \in S
  <2>1. ASSUME r \in Range(children[p]) PROVE r \in S
    <3>1. CASE p = IdleProc
      BY <1>1, <2>1, <3>1 DEF Kin, Range
    <3>2. CASE p = InitProc
      BY <1>0, <2>1, <3>2, EmptyRange DEF FamilyType
    <3> QED BY <1>1, <3>1, <3>2
  <2>2. ASSUME NEW t \in Threads, op[t] = "wait_adopt", thr.pcb[t] = p
        PROVE  FALSE
    <3>1. t # IdleThread /\ p # IdleProc
      BY <2>2 DEF IdleHome
    <3>2. p = InitProc
      BY <1>1, <3>1
    <3>3. lock[InitProc] = t
      BY <2>2, <3>2 DEF OwnInv, OwnPlaces
    <3> QED BY <1>0, <2>2, <3>2, <3>3
  <2> QED BY <1>2, <2>1, <2>2 DEF Edge
<1>3. \A p, r \in Procs : Edge(p, r) => r \in S
  BY <1>1, <1>2 DEF Tree
<1>4. parent[Mine] \in Procs /\ Edge(parent[Mine], Mine)
  BY <1>0 DEF Home, Edge
<1>5. Mine \in S
  BY <1>0, <1>3, <1>4
<1> QED BY <1>0, <1>1, <1>5

\* The lists and the parents after the orphans of q have gone to init.
Adopts(q) ==
  /\ children' \in [Procs -> Seq(Procs)]
  /\ children'[q] = <<>>
  /\ IsInjective(children'[InitProc])
  /\ Range(children'[InitProc]) = Range(children[InitProc]) \cup Range(children[q])
  /\ \A p \in Procs : p \notin {q, InitProc} => children'[p] = children[p]
  /\ parent' \in [Procs -> Procs \cup {NoProc}]
  /\ \A p \in Procs : parent'[p] =
       IF p \in Range(children[q]) THEN InitProc ELSE parent[p]

LEMMA AdoptFacts ==
  ASSUME LInv, WaitAdopt
  PROVE  /\ kid[Me] \in Procs \ {Mine, InitProc, IdleProc, NoProc}
         /\ parent[kid[Me]] = Mine /\ NoLive(kid[Me])
         /\ kid[Me] \notin Range(children[Mine])
         /\ lock[Mine] = Me
         /\ Range(children[kid[Me]]) \subseteq Procs \ {kid[Me], InitProc, IdleProc}
         /\ Adopts(kid[Me])
<1> USE DEF LInv, FamilyInv
<1>0. /\ Me \in Threads /\ Mine \in Procs /\ Mine = thr.pcb[Me] /\ Live(Me)
      /\ op[Me] = "wait_adopt" /\ lock[InitProc] = Me
      /\ Mine # IdleProc /\ NoProc \notin Procs
      /\ InitProc \in Procs /\ IdleProc \in Procs /\ InitProc # IdleProc
  BY FamilyFacts, ProcAssumption DEF Mine, WaitAdopt
<1>1. /\ children \in [Procs -> Seq(Procs)]
      /\ parent \in [Procs -> Procs \cup {NoProc}]
  BY DEF FamilyType
<1>2. Mine # InitProc => children[InitProc] # <<>>
  BY <1>0, InitHasChild
<1>3. /\ lock[Mine] = Me /\ kid[Me] \in Procs /\ parent[kid[Me]] = Mine
      /\ NoLive(kid[Me]) /\ kid[Me] \notin Range(children[Mine])
  BY <1>0 DEF OwnInv, OwnPlaces, ReapInv, Reaping
<1>4. PICK q \in Procs : q = kid[Me]
  BY <1>3
<1>5. q \notin {Mine, InitProc, IdleProc, NoProc}
  BY <1>0, <1>3, <1>4 DEF Kin
<1>6. PICK s \in Seq(Procs) : s = children[q]
  BY <1>1
<1>7. IsInjective(s) /\ Range(s) \subseteq Procs /\ \A p \in Range(s) : parent[p] = q
  BY <1>6, RangeSubset DEF Kin
<1>8. Range(s) \subseteq Procs \ {q, InitProc, IdleProc}
  BY <1>0, <1>4, <1>5, <1>7 DEF Kin
<1>9. /\ children' =
           IF s = <<>> THEN children
           ELSE IF children[InitProc] = <<>>
                THEN [children EXCEPT ![q] = <<>>, ![Mine] = s]
                ELSE [children EXCEPT ![q] = <<>>, ![InitProc] = @ \o s]
      /\ parent' = [p \in Procs |-> IF p \in Range(s) THEN InitProc ELSE parent[p]]
  BY <1>4, <1>6 DEF WaitAdopt
<1> HIDE DEF Me, Mine
<1>10. PICK c \in Seq(Procs) : c = children[InitProc]
  BY <1>0, <1>1
<1>11. IsInjective(c) /\ \A p \in Range(c) : parent[p] = InitProc
  <2>1. Range(c) \subseteq Procs
    BY RangeSubset
  <2> QED BY <1>0, <1>10, <2>1 DEF Kin
<1>12. /\ c \o s \in Seq(Procs) /\ IsInjective(c \o s)
       /\ Range(c \o s) = Range(c) \cup Range(s)
  <2>1. Range(c) \cap Range(s) = {}
    BY <1>5, <1>7, <1>11
  <2> QED BY <1>7, <1>11, <2>1, Concatenation
<1>13. <<>> \in Seq(Procs) /\ <<>> \o s = s
  OBVIOUS
<1>14. children' = [children EXCEPT ![q] = <<>>, ![InitProc] = c \o s]
  <2>1. CASE s = <<>>
    <3>1. c \o s = c
      BY <2>1
    <3> QED BY <1>0, <1>1, <1>5, <1>6, <1>9, <1>10, <2>1, <3>1
  <2>2. CASE s # <<>> /\ children[InitProc] = <<>>
    BY <1>2, <1>9, <1>10, <1>13, <2>2
  <2>3. CASE s # <<>> /\ children[InitProc] # <<>>
    <3>1. [children EXCEPT ![q] = <<>>][InitProc] = c
      BY <1>0, <1>1, <1>5, <1>10
    <3> QED BY <1>0, <1>1, <1>5, <1>9, <1>10, <2>3, <3>1
  <2> QED BY <2>1, <2>2, <2>3
<1>15. /\ children' \in [Procs -> Seq(Procs)]
       /\ children'[q] = <<>> /\ children'[InitProc] = c \o s
       /\ \A p \in Procs : p \notin {q, InitProc} => children'[p] = children[p]
  BY <1>0, <1>1, <1>5, <1>12, <1>13, <1>14
<1>16. /\ parent' \in [Procs -> Procs \cup {NoProc}]
       /\ \A p \in Procs : parent'[p] = IF p \in Range(s) THEN InitProc ELSE parent[p]
  BY <1>0, <1>1, <1>9
<1>17. Adopts(q)
  BY <1>6, <1>10, <1>12, <1>15, <1>16 DEF Adopts
<1> QED BY <1>3, <1>4, <1>5, <1>6, <1>8, <1>17

LEMMA WaitAdoptFamily ==
  ASSUME LInv, WaitAdopt
  PROVE  LInv'
<1> USE DEF LInv, FamilyInv
<1>0. /\ Me \in Threads /\ Mine \in Procs /\ Mine = thr.pcb[Me] /\ Live(Me) /\ Runs(Me)
      /\ NoProc \notin Procs /\ NoThread \notin Threads
      /\ op[Me] = "wait_adopt" /\ lock[InitProc] = Me /\ Mine # IdleProc
      /\ InitProc \in Procs /\ IdleProc \in Procs /\ InitProc # IdleProc
      /\ Me # IdleThread /\ IdleThread \in Threads
      /\ op' = [op EXCEPT ![Me] = "wait_free"]
      /\ lock' = [lock EXCEPT ![InitProc] = NoThread, ![Mine] = NoThread]
      /\ UNCHANGED <<thr, tcbs, node, kid>>
  BY FamilyFacts, ProcAssumption, ThreadAssumption DEF WaitAdopt, Mine, Goto
<1>1. /\ children \in [Procs -> Seq(Procs)]
      /\ parent \in [Procs -> Procs \cup {NoProc}]
      /\ kid \in [Threads -> Procs \cup {NoProc}]
      /\ node \in [Threads -> Threads \cup {NoThread}]
      /\ lock \in [Procs -> Threads \cup {NoThread}]
      /\ op = [t \in Threads |-> op[t]]
  BY CoreTypes DEF FamilyType
<1>2. /\ kid[Me] \in Procs \ {Mine, InitProc, IdleProc, NoProc}
      /\ parent[kid[Me]] = Mine /\ NoLive(kid[Me])
      /\ kid[Me] \notin Range(children[Mine])
      /\ lock[Mine] = Me
      /\ Range(children[kid[Me]]) \subseteq Procs \ {kid[Me], InitProc, IdleProc}
      /\ Adopts(kid[Me])
  BY AdoptFacts
<1>3. \A t \in Threads : Live(t) /\ op[t] \in Forking \cup Reaping => kid[t] # Mine
  BY NotMine
<1>4. \A t \in Threads : op[t] \in OwnPlaces => Live(t) /\ thr.pcb[t] \in Procs
  BY OwnersLive
<1>5. \A p \in Procs : lock[p] = Me => MayHold(Me, p)
  BY FamilyFacts
<1>6. WalkInv'
  <2>1. PICK o \in {"wait_free"} : o = "wait_free"
    OBVIOUS
  <2> QED BY <1>0, <2>1, NoWalk
<1> HIDE DEF Me, Mine
<1>7. PICK q \in Procs : q = kid[Me]
  BY <1>2
<1>8. /\ q \notin {Mine, InitProc, IdleProc, NoProc} /\ parent[q] = Mine /\ NoLive(q)
      /\ q \notin Range(children[Mine])
      /\ \A p \in Procs : q \notin Range(children[p])
  BY <1>0, <1>2, <1>7 DEF Kin
<1>9. /\ children' \in [Procs -> Seq(Procs)] /\ children'[q] = <<>>
      /\ IsInjective(children'[InitProc])
      /\ Range(children'[InitProc]) = Range(children[InitProc]) \cup Range(children[q])
      /\ \A p \in Procs : p \notin {q, InitProc} => children'[p] = children[p]
      /\ parent' \in [Procs -> Procs \cup {NoProc}]
      /\ \A p \in Procs : parent'[p] =
           IF p \in Range(children[q]) THEN InitProc ELSE parent[p]
      /\ Range(children[q]) \subseteq Procs \ {q, InitProc, IdleProc}
      /\ \A p \in Range(children[q]) : parent[p] = q
  BY <1>2, <1>7 DEF Adopts, Kin
<1>10. /\ lock' \in [Procs -> Threads \cup {NoThread}]
       /\ \A p \in Procs : lock'[p] =
            IF p \in {Mine, InitProc} THEN NoThread ELSE lock[p]
       /\ \A p \in Procs : lock'[p] # Me
  <2>1. /\ lock' \in [Procs -> Threads \cup {NoThread}]
        /\ \A p \in Procs : lock'[p] =
            IF p \in {Mine, InitProc} THEN NoThread ELSE lock[p]
    BY <1>0, <1>1
  <2>2. \A p \in Procs : lock[p] = Me => p \in {Mine, InitProc}
    BY <1>0, <1>5 DEF MayHold
  <2> QED BY <1>0, <2>1, <2>2
<1>11. Core'
  <2>1. Moved(thr, thr', Pending, NoThread)
    BY <1>0, MovedSelf DEF Core
  <2>2. PICK o \in {"wait_free"}, n \in Threads \cup {NoThread} :
           o = "wait_free" /\ n = node[Me]
    BY <1>0, <1>1
  <2>3. /\ o \notin Inserting /\ op[Me] \notin Inserting
        /\ o \notin {"thread_fork_insert", "task_vanish_loop"}
    BY <1>0, <2>2 DEF Inserting
  <2>4. op' = [op EXCEPT ![Me] = o] /\ node' = [node EXCEPT ![Me] = n]
    BY <1>0, <1>1, <2>2
  <2>5. \A p \in Procs : lock'[p] # lock[p] => lock[p] \in {Me, NoThread}
    BY <1>0, <1>2, <1>10
  <2> QED BY <1>0, <1>10, <2>1, <2>2, <2>3, <2>4, <2>5, CoreMoved
<1>12. /\ \A t \in Threads : t # Me => op'[t] = op[t]
       /\ op'[Me] = "wait_free"
       /\ \A t \in Threads : (Live(t)' <=> Live(t)) /\ (Runs(t)' <=> Runs(t))
       /\ \A p \in Procs : (NoLive(p)' <=> NoLive(p)) /\ (Unused(p)' <=> Unused(p))
  <2>1. /\ \A t \in Threads : t # Me => op'[t] = op[t]
        /\ op'[Me] = "wait_free"
    BY <1>0, <1>1
  <2>2. \A t \in Threads : (Live(t)' <=> Live(t)) /\ (Runs(t)' <=> Runs(t))
    BY <1>0 DEF Live, Runs
  <2>3. \A p \in Procs : (NoLive(p)' <=> NoLive(p)) /\ (Unused(p)' <=> Unused(p))
    BY <1>0 DEF NoLive, Unused, Live
  <2> QED BY <2>1, <2>2, <2>3
<1>13. FamilyType' /\ NodeInv' /\ SleepInv' /\ IdleHome'
  <2>1. FamilyType'
    BY <1>0, <1>1, <1>9 DEF FamilyType
  <2>2. NodeInv'
    BY <1>0, <1>12 DEF NodeInv, Inserting
  <2>3. SleepInv'
    BY <1>0, <1>12 DEF SleepInv
  <2>4. IdleHome'
    BY <1>0, <1>12, ThreadAssumption DEF IdleHome
  <2> QED BY <2>1, <2>2, <2>3, <2>4
<1>14. \A t \in Threads : t # Me /\ op[t] \in OwnPlaces =>
         /\ thr.pcb[t] \in Procs \ {Mine, InitProc, q}
         /\ lock[thr.pcb[t]] = t
  BY <1>0, <1>2, <1>4, <1>8 DEF OwnInv, NoLive
<1>15. OwnInv'
  <2> SUFFICES ASSUME NEW t \in Threads, op'[t] \in OwnPlaces
               PROVE  lock'[thr.pcb[t]] = t
    BY <1>0 DEF OwnInv
  <2>1. t # Me
    BY <1>12 DEF OwnPlaces
  <2> QED BY <1>10, <1>12, <1>14, <2>1
<1>16. HolderInv'
  <2> SUFFICES ASSUME NEW p \in Procs, NEW h, h = lock'[p], h # NoThread
               PROVE  thr.state[h] \in {"READY", "RUNNING"} /\ MayHold(h, p)'
    BY <1>0 DEF HolderInv, Runs
  <2>1. h = lock[p] /\ h # Me
    BY <1>10
  <2>2. h \in Threads /\ Runs(h) /\ MayHold(h, p)
    BY <1>1, <2>1 DEF HolderInv
  <2>3. op'[h] = op[h]
    BY <1>12, <2>1, <2>2
  <2>4. op[h] = "wait_scan" => children'[thr.pcb[h]] = children[thr.pcb[h]]
    BY <1>9, <1>14, <2>1, <2>2 DEF OwnPlaces
  <2> QED BY <1>0, <2>2, <2>3, <2>4 DEF MayHold, Runs
<1>17. ForkInv'
  <2> SUFFICES ASSUME NEW t \in Threads, op'[t] \in Forking
               PROVE  /\ Live(t)
                      /\ \A w \in Threads : thr.pcb[w] = thr.pcb[t] /\ Live(w) => w = t
                      /\ op'[t] = "fork_insert" => kid[t] # NoProc /\ thr.pcb[node[t]] = kid[t]
                      /\ kid[t] # NoProc => ChildOK(t)'
    BY <1>0, <1>12 DEF ForkInv
  <2>1. op[t] \in Forking /\ t # Me /\ op'[t] = op[t] /\ Live(t)
    BY <1>12 DEF Forking, ForkInv
  <2>2. thr.pcb[t] \in Procs \ {Mine, q, IdleProc}
    BY <1>0, <1>8, <2>1 DEF ForkInv, Live, Core, TcbInv, NoLive, IdleHome, Forking
  <2>3. ASSUME kid[t] # NoProc PROVE ChildOK(t)'
    <3>1. ChildOK(t) /\ kid[t] \in Procs
      BY <1>1, <2>1, <2>3 DEF ForkInv
    <3>2. parent[kid[t]] = thr.pcb[t]
      BY <2>2, <3>1 DEF ChildOK, Kin
    <3>3. kid[t] # q /\ kid[t] # InitProc
      BY <1>0, <1>8, <2>2, <3>2 DEF Kin
    <3>4. children'[kid[t]] = <<>>
      BY <1>9, <3>1, <3>3 DEF ChildOK
    <3>5. Unused(kid[t]) => Unused(kid[t])'
      BY <1>0 DEF Unused
    <3>6. kid[t] \in Range(children'[thr.pcb[t]])
      BY <1>9, <2>2, <3>1 DEF ChildOK
    <3>7. thr.pcb[t] # InitProc => kid[t] = Last(children'[thr.pcb[t]])
      BY <1>9, <2>2, <3>1 DEF ChildOK
    <3> QED BY <1>0, <2>1, <3>1, <3>4, <3>5, <3>6, <3>7 DEF ChildOK
  <2> QED BY <2>1, <2>3 DEF ForkInv
<1>18. ScanInv'
  <2> SUFFICES ASSUME NEW t \in Threads, op'[t] = "wait_scan"
               PROVE  /\ kid[t] \in Range(children'[thr.pcb[t]])
                      /\ \A p \in Procs : Before(children'[thr.pcb[t]], kid[t], p) =>
                           lock'[p] = t /\ ~NoLive(p)'
    BY <1>0 DEF ScanInv
  <2>1. op[t] = "wait_scan" /\ t # Me
    BY <1>12
  <2>2. children'[thr.pcb[t]] = children[thr.pcb[t]]
    BY <1>9, <1>14, <2>1 DEF OwnPlaces
  <2>3. \A p \in Procs : lock[p] = t => lock'[p] = t
    BY <1>0, <1>2, <1>10, <2>1
  <2> QED BY <1>12, <2>1, <2>2, <2>3 DEF ScanInv
<1>19. ReapInv'
  <2> SUFFICES ASSUME NEW t \in Threads, Live(t), op'[t] \in Reaping
               PROVE  /\ kid[t] \in Procs /\ parent'[kid[t]] = thr.pcb[t]
                      /\ kid[t] \notin Range(children'[thr.pcb[t]])
                      /\ NoLive(kid[t])
                      /\ op'[t] \in Freeing => children'[kid[t]] = <<>>
    <3>1. \A t \in Threads : NoLive(kid[t])' <=> NoLive(kid[t])
      BY <1>0 DEF NoLive, Live
    <3> QED BY <1>0, <1>12, <3>1 DEF ReapInv
  <2>1. CASE t = Me
    BY <1>0, <1>7, <1>8, <1>9, <2>1
  <2>2. CASE t # Me
    <3>1. /\ op'[t] = op[t] /\ thr.pcb[t] \in Procs \ {q}
          /\ kid[t] \in Procs /\ parent[kid[t]] = thr.pcb[t]
          /\ kid[t] \notin Range(children[thr.pcb[t]]) /\ NoLive(kid[t])
          /\ op[t] \in Freeing => children[kid[t]] = <<>>
      BY <1>8, <1>12, <2>2 DEF Core, TcbInv, Live, ReapInv, NoLive
    <3>2. thr.pcb[t] # IdleProc
      BY <1>12, <2>2 DEF IdleHome, Reaping
    <3>3. kid[t] # q /\ kid[t] # InitProc /\ kid[t] \notin Range(children[q])
      BY <1>0, <1>7, <1>8, <1>9, <2>2, <3>1, <3>2 DEF KidInv, Kin
    <3>4. kid[t] \notin Range(children'[thr.pcb[t]])
      BY <1>9, <3>1, <3>3
    <3> QED BY <1>9, <3>1, <3>3, <3>4
  <2> QED BY <2>1, <2>2
<1>20. KidInv'
  BY <1>0, <1>12 DEF KidInv, Reaping
<1>21. Kin'
  <2>1. \A p \in Procs : IsInjective(children'[p])
    <3>1. IsInjective(children'[q])
      BY <1>9 DEF IsInjective
    <3> QED BY <1>9, <3>1 DEF Kin
  <2>2. ASSUME NEW p \in Procs, NEW r \in Procs, r \in Range(children'[p])
        PROVE  parent'[r] = p
    <3>1. p # q
      BY <1>9, <2>2, EmptyRange
    <3>2. CASE p = InitProc
      BY <1>9, <2>2, <3>2 DEF Kin
    <3>3. CASE p # InitProc
      BY <1>9, <2>2, <3>1, <3>3 DEF Kin
    <3> QED BY <3>2, <3>3
  <2>3. children'[IdleProc] = <<InitProc>>
    BY <1>0, <1>8, <1>9 DEF Kin
  <2>4. parent'[InitProc] = IdleProc /\ parent'[IdleProc] = NoProc
    BY <1>0, <1>9 DEF Kin
  <2>5. \A p \in Procs : parent'[p] # p
    BY <1>9 DEF Kin
  <2>6. \A p \in Procs : parent'[p] = NoProc /\ p # IdleProc =>
          children'[p] = <<>> /\ Unused(p)'
    <3> SUFFICES ASSUME NEW p \in Procs, parent'[p] = NoProc, p # IdleProc
                 PROVE  children'[p] = <<>> /\ Unused(p)'
      OBVIOUS
    <3>1. parent[p] = NoProc
      BY <1>0, <1>9
    <3>2. p # InitProc /\ p # q
      BY <1>0, <1>8, <3>1 DEF Kin
    <3> QED BY <1>9, <1>12, <3>1, <3>2 DEF Kin
  <2> QED BY <2>1, <2>2, <2>3, <2>4, <2>5, <2>6 DEF Kin
<1>22. Home'
  <2> SUFFICES ASSUME NEW t \in Threads, Live(t), t # IdleThread
               PROVE  /\ parent'[thr.pcb[t]] \in Procs
                      /\ thr.pcb[t] \in Range(children'[parent'[thr.pcb[t]]])
    BY <1>0, <1>12 DEF Home
  <2>1. /\ thr.pcb[t] \in Procs /\ parent[thr.pcb[t]] \in Procs
        /\ thr.pcb[t] \in Range(children[parent[thr.pcb[t]]])
    BY DEF Home, Core, TcbInv, Live
  <2>2. CASE thr.pcb[t] \in Range(children[q])
    BY <1>0, <1>9, <2>1, <2>2
  <2>3. CASE thr.pcb[t] \notin Range(children[q])
    <3>1. parent[thr.pcb[t]] # q
      BY <2>1, <2>3
    <3> QED BY <1>9, <2>1, <2>3, <3>1
  <2> QED BY <2>2, <2>3
<1>23. Tree'
  <2>1. \A p, r \in Procs : Edge(p, r) /\ p # q /\ r # q => Edge(p, r)'
    <3> SUFFICES ASSUME NEW p \in Procs, NEW r \in Procs, Edge(p, r), p # q, r # q
                 PROVE  Edge(p, r)'
      OBVIOUS
    <3>1. CASE r \in Range(children[p])
      <4>1. r \in Range(children'[p])
        BY <1>9, <3>1
      <4> QED BY <4>1 DEF Edge
    <3>2. ASSUME NEW t \in Threads, Live(t), op[t] = "wait_adopt",
                 thr.pcb[t] = p, kid[t] = r
          PROVE  Edge(p, r)'
      <4>1. t # Me
        BY <1>7, <3>2
      <4> QED BY <1>0, <1>12, <3>2, <4>1 DEF Edge
    <3> QED BY <3>1, <3>2 DEF Edge
  <2>2. \A r \in Range(children[q]) : Edge(InitProc, r)'
    BY <1>9 DEF Edge
  <2>3. \A p, r \in Procs : Edge(p, r)' =>
          \/ Edge(p, r)
          \/ p = InitProc /\ r \in Range(children[q])
    <3> SUFFICES ASSUME NEW p \in Procs, NEW r \in Procs, Edge(p, r)'
                 PROVE  \/ Edge(p, r)
                        \/ p = InitProc /\ r \in Range(children[q])
      OBVIOUS
    <3>1. CASE r \in Range(children'[p])
      <4>1. p # q
        BY <1>9, <3>1, EmptyRange
      <4> QED BY <1>9, <3>1, <4>1 DEF Edge
    <3>2. ASSUME NEW t \in Threads, Live(t)', op'[t] = "wait_adopt",
                 thr'.pcb[t] = p, kid'[t] = r
          PROVE  Edge(p, r)
      <4>1. t # Me
        BY <1>12, <3>2
      <4> QED BY <1>0, <1>12, <3>2, <4>1 DEF Edge
    <3> QED BY <3>1, <3>2 DEF Edge
  <2>4. \A p \in Procs : Edge(q, p) => p \in Range(children[q])
    <3> SUFFICES ASSUME NEW t \in Threads, Live(t), thr.pcb[t] = q PROVE FALSE
      BY DEF Edge
    <3> QED BY <1>8 DEF NoLive
  <2>5. ASSUME NEW S \in SUBSET Procs, IdleProc \in S,
               \A p \in S, r \in Procs : Edge(p, r)' => r \in S
        PROVE  \A p, r \in Procs : Edge(p, r)' => r \in S
    <3>1. PICK R \in SUBSET Procs : R = S \cup {q}
      BY <1>7
    <3>2. InitProc \in S
      <4>1. InitProc \in Range(children'[IdleProc])
        BY <1>0, <1>21 DEF Kin, Range
      <4>2. Edge(IdleProc, InitProc)'
        BY <4>1 DEF Edge
      <4> QED BY <1>0, <2>5, <4>2
    <3>3. Range(children[q]) \subseteq S
      BY <1>0, <1>9, <2>2, <2>5, <3>2
    <3>4. \A p \in R, r \in Procs : Edge(p, r) => r \in R
      <4> SUFFICES ASSUME NEW p \in R, NEW r \in Procs, Edge(p, r) PROVE r \in R
        OBVIOUS
      <4>1. CASE p = q
        BY <2>4, <3>1, <3>3, <4>1
      <4>2. CASE p # q /\ r # q
        BY <2>1, <2>5, <3>1, <4>2
      <4> QED BY <3>1, <4>1, <4>2
    <3>5. \A p, r \in Procs : Edge(p, r) => r \in R
      BY <2>5, <3>1, <3>4 DEF Tree
    <3>6. \A p \in Procs : ~Edge(p, q)'
      <4> SUFFICES ASSUME NEW p \in Procs, Edge(p, q)' PROVE FALSE
        OBVIOUS
      <4>1. q \notin Range(children'[p])
        <5>1. CASE p = q
          BY <1>9, <5>1, EmptyRange
        <5>2. CASE p # q
          BY <1>8, <1>9, <5>2
        <5> QED BY <5>1, <5>2
      <4>2. ASSUME NEW t \in Threads, Live(t)', op'[t] = "wait_adopt", kid'[t] = q
            PROVE  FALSE
        <5>1. t # Me /\ Live(t) /\ kid[t] = q
          BY <1>0, <1>12, <4>2
        <5> QED BY <1>0, <1>7, <1>8, <5>1 DEF KidInv
      <4> QED BY <4>1, <4>2 DEF Edge
    <3> QED BY <2>3, <3>1, <3>3, <3>5, <3>6
  <2> QED BY <2>5 DEF Tree
<1>24. Zombie'
  <2> SUFFICES ASSUME NEW t \in Threads, thr.state[t] = "VANISH_WAIT",
                      NEW r, r = thr.pcb[t], NEW p \in Range(children'[r]),
                      NoLive(p)', ~Unused(p)'
               PROVE  Noticed(r)'
    BY <1>0 DEF Zombie
  <2>1. r \in Procs /\ r # q
    BY <1>8 DEF Core, TcbInv, NoLive, Live
  <2>2. CASE r = InitProc
    BY <1>0, <1>12, <2>2 DEF Noticed, Runs, Late
  <2>3. CASE r # InitProc
    <3>1. p \in Procs /\ p \in Range(children[r])
      BY <1>9, <2>1, <2>3, RangeSubset
    <3>2. Noticed(r)
      BY <1>12, <2>1, <3>1 DEF Zombie
    <3>3. \A w \in Threads : op[w] \in WaitOps \cup {"task_vanish_loop"} =>
            op'[w] \in WaitOps \cup {"task_vanish_loop"}
      BY <1>12 DEF WaitOps
    <3> QED BY <1>0, <2>3, <3>2, <3>3 DEF Noticed, Runs
  <2> QED BY <2>2, <2>3
<1> QED BY <1>6, <1>11, <1>13, <1>15, <1>16, <1>17, <1>18, <1>19, <1>20,
           <1>21, <1>22, <1>23, <1>24

-----------------------------------------------------------------------------
(***************************************************************************)
(* The collected child and its TCBs are freed.                             *)
(***************************************************************************)

\* The TCBs of q, whose threads are all dead.
DeadOf(q) == {t \in Threads : thr.state[t] = "TERMINATED" /\ thr.pcb[t] = q}

\* The freed TCBs D are blank, the caller is at o with child k, and the other
\* threads are as before.
Blanks(D, o, k) ==
  /\ \A t \in D :
       /\ thr'.state[t] = "NEW" /\ thr'.pcb[t] = NoProc
       /\ op'[t] = "user" /\ node'[t] = NoThread /\ kid'[t] = NoProc
  /\ \A t \in Threads \ D :
       /\ thr'.state[t] = thr.state[t] /\ thr'.pcb[t] = thr.pcb[t]
       /\ node'[t] = node[t]
       /\ t # Me => op'[t] = op[t] /\ kid'[t] = kid[t]
  /\ Me \notin D /\ op'[Me] = o /\ kid'[Me] = k

\* What is known of a child while it is freed.
LEMMA FreeingFacts ==
  ASSUME LInv, op[Me] = "wait_free"
  PROVE  /\ kid[Me] \in Procs \ {Mine, InitProc, IdleProc, NoProc}
         /\ NoLive(kid[Me]) /\ children[kid[Me]] = <<>>
         /\ \A p \in Procs : kid[Me] \notin Range(children[p])
         /\ Range(tcbs[kid[Me]]) = DeadOf(kid[Me])
         /\ \A t \in DeadOf(kid[Me]) :
              t # Me /\ op[t] \notin OwnPlaces \cup Forking \cup Inserting
<1> USE DEF LInv, FamilyInv
<1>0. /\ Me \in Threads /\ Mine \in Procs /\ Mine = thr.pcb[Me] /\ Live(Me)
      /\ NoProc \notin Procs /\ Mine # IdleProc
  BY FamilyFacts, ProcAssumption DEF Mine
<1>1. tcbs \in [Procs -> Seq(Threads)]
  BY CoreTypes
<1> HIDE DEF Me, Mine
<1>2. PICK q \in Procs : q = kid[Me]
  BY <1>0 DEF ReapInv, Reaping
<1>3. /\ parent[q] = Mine /\ NoLive(q) /\ children[q] = <<>>
      /\ q \notin Range(children[Mine])
  BY <1>0, <1>2 DEF ReapInv, Reaping, Freeing
<1>4. q \notin {Mine, InitProc, IdleProc, NoProc}
  BY <1>0, <1>3 DEF Kin
<1>5. \A p \in Procs : q \notin Range(children[p])
  BY <1>3 DEF Kin
<1>6. Range(tcbs[q]) = DeadOf(q)
  <2>1. Range(tcbs[q]) \subseteq Threads
    BY <1>1, RangeSubset
  <2> QED BY <1>3, <2>1 DEF DeadOf, Core, TcbInv, NoLive, Live
<1>7. ASSUME NEW t \in DeadOf(q)
      PROVE  t # Me /\ op[t] \notin OwnPlaces \cup Forking \cup Inserting
  <2>1. t \in Threads /\ ~Live(t)
    BY DEF DeadOf, Live
  <2>2. op[t] \notin OwnPlaces
    BY <2>1, OwnersLive
  <2>3. op[t] \notin Forking
    BY <2>1 DEF ForkInv
  <2> QED BY <1>0, <2>1, <2>2, <2>3 DEF Inserting, OwnPlaces, Forking
<1> QED BY <1>2, <1>3, <1>4, <1>5, <1>6, <1>7

\* The first TCB of the child is taken out of the child's list and, if it is
\* there, out of the TERMINATED list.
LEMMA FreeTcbFacts ==
  ASSUME LInv, WaitFreeTcb
  PROVE  LET u == Head(tcbs[kid[Me]])
         IN  /\ u \in DeadOf(kid[Me])
             /\ Blanks({u}, "wait_free", kid[Me])
             /\ tcbs' \in [Procs -> Seq(Threads)]
             /\ \A p \in Procs : p # kid[Me] => tcbs'[p] = tcbs[p]
             /\ IsInjective(tcbs'[kid[Me]])
             /\ Range(tcbs'[kid[Me]]) = DeadOf(kid[Me]) \ {u}
             /\ thr' \in ThrType
             /\ \A l \in ListIdx : l # "TERMINATED" => thr'.list[l] = thr.list[l]
             /\ IsInjective(thr'.list["TERMINATED"])
             /\ Range(thr'.list["TERMINATED"]) = Range(thr.list["TERMINATED"]) \ {u}
             /\ op' = [t \in Threads |-> op'[t]]
             /\ node' \in [Threads -> Threads \cup {NoThread}]
             /\ kid' \in [Threads -> Procs \cup {NoProc}]
<1> USE DEF LInv, FamilyInv
<1>0. /\ Me \in Threads /\ op[Me] = "wait_free"
      /\ "TERMINATED" \in ListIdx
  BY FamilyFacts DEF WaitFreeTcb, ListIdx, Reasons
<1>1. /\ kid \in [Threads -> Procs \cup {NoProc}]
      /\ node \in [Threads -> Threads \cup {NoThread}]
      /\ op = [t \in Threads |-> op[t]]
      /\ thr \in ThrType
      /\ thr.list \in [ListIdx -> Seq(Threads)]
      /\ thr.state \in [Threads -> ListIdx \cup {"NEW"}]
      /\ thr.detail \in [Threads -> Details]
      /\ thr.pcb \in [Threads -> Procs \cup {NoProc}]
      /\ tcbs \in [Procs -> Seq(Threads)]
      /\ \A l \in ListIdx : IsInjective(thr.list[l])
      /\ \A p \in Procs : IsInjective(tcbs[p])
  BY ThrFields, CoreTypes DEF FamilyType, Core, Good, Agree, TcbInv
<1>2. /\ kid[Me] \in Procs
      /\ Range(tcbs[kid[Me]]) = DeadOf(kid[Me])
      /\ \A t \in DeadOf(kid[Me]) : t # Me
  BY <1>0, FreeingFacts
<1>3. PICK q \in Procs : q = kid[Me]
  BY <1>2
<1>4. PICK d \in Seq(Threads), s \in Seq(Threads), u \in Threads :
        d = thr.list["TERMINATED"] /\ s = tcbs[q] /\ u = Head(tcbs[q])
  <2>1. tcbs[q] \in Seq(Threads) /\ tcbs[q] # <<>>
    BY <1>0, <1>1, <1>3 DEF WaitFreeTcb
  <2>2. Head(tcbs[q]) \in Threads
    BY <2>1
  <2> QED BY <1>0, <1>1, <2>1, <2>2
<1>5. s # <<>> /\ IsInjective(s) /\ IsInjective(d)
  BY <1>0, <1>1, <1>3, <1>4 DEF WaitFreeTcb
<1>6. /\ u \in Range(s) /\ u \in Threads
      /\ Tail(s) \in Seq(Threads) /\ IsInjective(Tail(s))
      /\ Range(Tail(s)) = Range(s) \ {u}
  BY <1>4, <1>5, DropFirst
<1>7. PICK r \in Seq(Threads) :
        r = RemoveFirst(d, u) /\ IsInjective(r) /\ Range(r) = Range(d) \ {u}
  <2>1. CASE u \in Range(d)
    BY <1>5, <2>1, RemoveFirstProperties
  <2>2. CASE u \notin Range(d)
    <3>1. RemoveFirst(d, u) = d
      BY <2>2 DEF RemoveFirst, Range
    <3> QED BY <1>5, <2>2, <3>1
  <2> QED BY <2>1, <2>2
<1>8. /\ thr' = [list   |-> [thr.list EXCEPT !["TERMINATED"] = r],
                 state  |-> [thr.state EXCEPT ![u] = "NEW"],
                 detail |-> thr.detail,
                 pcb    |-> [thr.pcb EXCEPT ![u] = NoProc]]
      /\ tcbs' = [tcbs EXCEPT ![q] = Tail(s)]
      /\ op' = [op EXCEPT ![u] = "user"]
      /\ node' = [node EXCEPT ![u] = NoThread]
      /\ kid' = [kid EXCEPT ![u] = NoProc]
  BY <1>3, <1>4, <1>7 DEF WaitFreeTcb
<1> HIDE DEF Me, Mine
<1>9. u # Me
  BY <1>2, <1>3, <1>4, <1>6
<1>10. /\ thr'.list = [thr.list EXCEPT !["TERMINATED"] = r]
       /\ thr'.state = [thr.state EXCEPT ![u] = "NEW"]
       /\ thr'.detail = thr.detail
       /\ thr'.pcb = [thr.pcb EXCEPT ![u] = NoProc]
  BY <1>8
<1>11. /\ thr'.list \in [ListIdx -> Seq(Threads)] /\ thr'.list["TERMINATED"] = r
       /\ \A l \in ListIdx : l # "TERMINATED" => thr'.list[l] = thr.list[l]
  BY <1>0, <1>1, <1>10
<1>12. thr' \in ThrType
  <2>1. thr'.state \in [Threads -> ListIdx \cup {"NEW"}]
    BY <1>1, <1>6, <1>10
  <2>2. thr'.pcb \in [Threads -> Procs \cup {NoProc}]
    BY <1>1, <1>6, <1>10
  <2>3. thr' = [list |-> thr'.list, state |-> thr'.state,
                detail |-> thr'.detail, pcb |-> thr'.pcb]
    BY <1>8
  <2> QED BY <1>1, <1>10, <1>11, <2>1, <2>2, <2>3 DEF ThrType, Bookkeeping
<1>13. /\ op' = [t \in Threads |-> op'[t]]
       /\ node' \in [Threads -> Threads \cup {NoThread}]
       /\ kid' \in [Threads -> Procs \cup {NoProc}]
  BY <1>1, <1>6, <1>8
<1>14. /\ tcbs' \in [Procs -> Seq(Threads)] /\ tcbs'[q] = Tail(s)
       /\ \A p \in Procs : p # q => tcbs'[p] = tcbs[p]
  BY <1>1, <1>6, <1>8
<1>15. Blanks({u}, "wait_free", q)
  <2>1. /\ thr'.state[u] = "NEW" /\ thr'.pcb[u] = NoProc
        /\ op'[u] = "user" /\ node'[u] = NoThread /\ kid'[u] = NoProc
    BY <1>1, <1>6, <1>8, <1>10
  <2>2. \A t \in Threads \ {u} :
          /\ thr'.state[t] = thr.state[t] /\ thr'.pcb[t] = thr.pcb[t]
          /\ node'[t] = node[t] /\ op'[t] = op[t] /\ kid'[t] = kid[t]
    BY <1>1, <1>8, <1>10
  <2> QED BY <1>0, <1>3, <1>9, <2>1, <2>2 DEF Blanks
<1> QED BY <1>2, <1>3, <1>4, <1>6, <1>7, <1>11, <1>12, <1>13, <1>14, <1>15

LEMMA WaitFreeTcbCore ==
  ASSUME LInv, WaitFreeTcb
  PROVE  Core' /\ WalkInv'
<1> USE DEF LInv, FamilyInv
<1>0. /\ Me \in Threads /\ Mine \in Procs /\ op[Me] = "wait_free"
      /\ NoThread \notin Threads /\ NoProc \notin Procs
      /\ thr.state[Me] = "RUNNING" /\ thr.list["RUNNING"] = <<Me>>
      /\ Me \notin Pending /\ lock' = lock
  BY CoreMe, ThreadAssumption, ProcAssumption DEF WaitFreeTcb
<1>1. /\ tcbs \in [Procs -> Seq(Threads)]
      /\ thr.list \in [ListIdx -> Seq(Threads)]
      /\ thr.state \in [Threads -> ListIdx \cup {"NEW"}]
      /\ lock \in [Procs -> Threads \cup {NoThread}]
  BY CoreTypes
<1>2. PICK q \in Procs, u \in Threads : q = kid[Me] /\ u = Head(tcbs[kid[Me]])
  BY <1>0, FreeingFacts, FreeTcbFacts DEF DeadOf
<1>3. /\ u \in DeadOf(q) /\ Blanks({u}, "wait_free", q)
      /\ tcbs' \in [Procs -> Seq(Threads)]
      /\ \A p \in Procs : p # q => tcbs'[p] = tcbs[p]
      /\ IsInjective(tcbs'[q]) /\ Range(tcbs'[q]) = DeadOf(q) \ {u}
      /\ thr' \in ThrType
      /\ \A l \in ListIdx : l # "TERMINATED" => thr'.list[l] = thr.list[l]
      /\ IsInjective(thr'.list["TERMINATED"])
      /\ Range(thr'.list["TERMINATED"]) = Range(thr.list["TERMINATED"]) \ {u}
      /\ op' = [t \in Threads |-> op'[t]]
      /\ node' \in [Threads -> Threads \cup {NoThread}]
  BY <1>2, FreeTcbFacts
<1>4. /\ \A t \in Threads : op[t] # "task_vanish_loop"
      /\ NoLive(q) /\ op[u] \notin OwnPlaces \cup Forking \cup Inserting
  BY <1>0, <1>2, <1>3, FreeingFacts DEF WalkInv
<1> HIDE DEF Me, Mine
<1>6. /\ thr'.state[u] = "NEW" /\ thr'.pcb[u] = NoProc
      /\ op'[u] = "user" /\ u # Me
      /\ thr.state[u] = "TERMINATED" /\ thr.pcb[u] = q
      /\ \A t \in Threads \ {u} :
           /\ thr'.state[t] = thr.state[t] /\ thr'.pcb[t] = thr.pcb[t]
           /\ node'[t] = node[t] /\ op'[t] = op[t]
  BY <1>0, <1>3 DEF Blanks, DeadOf
<1>7. \A t \in Threads : op'[t] # "user" =>
        /\ t # u /\ op'[t] = op[t] /\ node'[t] = node[t]
        /\ thr'.state[t] = thr.state[t] /\ thr'.pcb[t] = thr.pcb[t]
  BY <1>6
<1>8. \A t \in Threads : op[t] \in Inserting =>
        t # u /\ op'[t] = op[t] /\ node'[t] = node[t]
  BY <1>4, <1>6
<1>9. WalkInv'
  <2>1. \A t \in Threads : op'[t] # "task_vanish_loop"
    BY <1>4, <1>7
  <2> QED BY <2>1 DEF WalkInv
<1>10. Pending' = Pending
  <2>1. \A t \in Threads : op'[t] \in Inserting <=> op[t] \in Inserting
    BY <1>7, <1>8 DEF Inserting
  <2>2. \A t \in Threads : op[t] \in Inserting => node'[t] = node[t]
    BY <1>8
  <2>3. Pending = {node[t] : t \in {s \in Threads : op[s] \in Inserting}}
    BY DEF Pending, Inserting
  <2>4. Pending' = {node'[t] : t \in {s \in Threads : op'[s] \in Inserting}}
    BY DEF Pending, Inserting
  <2> QED BY <2>1, <2>2, <2>3, <2>4
<1>11. Good(thr', Pending')
  <2>1. /\ "TERMINATED" \in ListIdx /\ "RUNNING" \in ListIdx
        /\ "NEW" \notin ListIdx
    BY DEF ListIdx, Reasons
  <2>3. Agree(thr, Pending, Threads)
    BY DEF Core, Good
  <2>4. \A l \in ListIdx : IsInjective(thr'.list[l])
    BY <1>3, <2>3 DEF Agree
  <2>5. ASSUME NEW l \in ListIdx, NEW t \in Threads, t \in Range(thr'.list[l])
        PROVE  thr'.state[t] = l /\ t \notin Pending
    <3>1. t \in Range(thr.list[l]) /\ (l = "TERMINATED" => t # u)
      BY <1>3, <2>5
    <3>2. thr.state[t] = l /\ t \notin Pending
      BY <2>3, <3>1 DEF Agree
    <3> QED BY <1>6, <3>1, <3>2
  <2>6. ASSUME NEW l \in ListIdx, NEW t \in Threads,
               thr'.state[t] = l, l # "TERMINATED", t \notin Pending
        PROVE  t \in Range(thr'.list[l])
    <3>1. thr.state[t] = l
      BY <1>6, <2>1, <2>6
    <3> QED BY <1>3, <2>3, <2>6, <3>1 DEF Agree
  <2>7. Agree(thr', Pending, Threads)
    BY <2>4, <2>5, <2>6 DEF Agree
  <2>8. thr'.list["RUNNING"] = <<Me>>
    BY <1>0, <1>3, <2>1
  <2> QED BY <1>0, <1>3, <1>10, <2>7, <2>8 DEF Good
<1>13. TcbInv'
  <2>1. \A p \in Procs : IsInjective(tcbs'[p])
    BY <1>3 DEF Core, TcbInv
  <2>2. \A t \in Threads : thr'.state[t] # "NEW" => thr'.pcb[t] \in Procs
    BY <1>6 DEF Core, TcbInv
  <2>3. ASSUME NEW t \in Threads, NEW p \in Procs
        PROVE  t \in Range(tcbs'[p]) <=> thr'.state[t] # "NEW" /\ thr'.pcb[t] = p
    <3>1. CASE p = q
      <4>1. t \in Range(tcbs'[p]) <=> t # u /\ t \in Range(tcbs[q])
        BY <1>0, <1>2, <1>3, <3>1, FreeingFacts
      <4>2. t \in Range(tcbs[q]) <=> thr.state[t] # "NEW" /\ thr.pcb[t] = q
        BY DEF Core, TcbInv
      <4> QED BY <1>6, <3>1, <4>1, <4>2
    <3>2. CASE p # q
      <4>1. t \in Range(tcbs'[p]) <=> thr.state[t] # "NEW" /\ thr.pcb[t] = p
        BY <1>3, <3>2 DEF Core, TcbInv
      <4> QED BY <1>0, <1>6, <3>2, <4>1
    <3> QED BY <3>1, <3>2
  <2> QED BY <2>1, <2>2, <2>3 DEF TcbInv
<1>14. HoldInv'
  <2> SUFFICES ASSUME NEW t \in Threads,
                 op'[t] \in {"thread_fork_insert", "task_vanish_loop"}
               PROVE  /\ lock'[thr'.pcb[t]] = t
                      /\ node'[t] \in Range(tcbs'[thr'.pcb[t]])
                      /\ op'[t] = "thread_fork_insert" =>
                           node'[t] = Last(tcbs'[thr'.pcb[t]])
    BY DEF HoldInv
  <2>1. /\ op'[t] = op[t] /\ node'[t] = node[t] /\ thr'.pcb[t] = thr.pcb[t]
        /\ op[t] \in OwnPlaces
    BY <1>7 DEF OwnPlaces
  <2>2. Live(t) /\ thr.pcb[t] \in Procs
    BY <2>1, OwnersLive
  <2>3. thr.pcb[t] # q
    BY <1>4, <2>2 DEF NoLive
  <2>4. /\ lock[thr.pcb[t]] = t /\ node[t] \in Range(tcbs[thr.pcb[t]])
        /\ op[t] = "thread_fork_insert" => node[t] = Last(tcbs[thr.pcb[t]])
    BY <2>1 DEF Core, HoldInv
  <2> QED BY <1>0, <1>3, <2>1, <2>2, <2>3, <2>4
<1>15. PendInv'
  <2>1. ASSUME NEW t \in Threads, op'[t] \in Inserting
        PROVE  /\ op'[t] = op[t] /\ node'[t] = node[t]
               /\ node[t] \in Threads \ {u} /\ thr.state[node[t]] = "READY"
    <3>1. op'[t] = op[t] /\ node'[t] = node[t]
      BY <1>7, <2>1 DEF Inserting
    <3> QED BY <1>6, <2>1, <3>1 DEF Core, PendInv
  <2>2. \A t \in Threads : op'[t] \in Inserting =>
          node'[t] \in Threads /\ thr'.state[node'[t]] = "READY"
    BY <2>1, <1>6
  <2>3. \A v, t \in Threads :
          op'[v] \in Inserting /\ op'[t] \in Inserting /\ node'[v] = node'[t]
            => v = t
    BY <2>1 DEF Core, PendInv
  <2>4. ASSUME NEW t \in Threads, op'[t] = "fork_insert"
        PROVE  Range(tcbs'[thr'.pcb[node'[t]]]) = {node'[t]}
    <3>1. /\ op[t] = "fork_insert" /\ node'[t] = node[t]
          /\ node[t] \in Threads \ {u} /\ thr.state[node[t]] = "READY"
      BY <2>1, <2>4 DEF Inserting
    <3>2. Range(tcbs[thr.pcb[node[t]]]) = {node[t]}
      BY <3>1 DEF Core, PendInv
    <3>3. thr.pcb[node[t]] \in Procs
      BY <3>1 DEF Core, TcbInv
    <3>4. thr.pcb[node[t]] # q
      BY <3>1, <1>4 DEF NoLive, Live
    <3>5. thr'.pcb[node'[t]] = thr.pcb[node[t]]
      BY <3>1, <1>6
    <3>6. tcbs'[thr.pcb[node[t]]] = tcbs[thr.pcb[node[t]]]
      BY <3>3, <3>4, <1>3
    <3> QED BY <3>1, <3>2, <3>5, <3>6
  <2>5. \A t \in Threads :
          thr'.state[t] = "NEW" \/ t \in Pending' => op'[t] = "user"
    <3> SUFFICES ASSUME NEW t \in Threads, thr'.state[t] = "NEW" \/ t \in Pending
                 PROVE  op'[t] = "user"
      BY <1>10
    <3>1. CASE t = u
      BY <1>6, <3>1
    <3>2. CASE t # u
      <4>1. thr'.state[t] = thr.state[t]
        BY <1>6, <3>2
      <4>2. op[t] = "user" /\ t # Me
        BY <1>0, <4>1 DEF Core, PendInv
      <4> QED BY <1>6, <3>2, <4>2
    <3> QED BY <3>1, <3>2
  <2> QED BY <2>2, <2>3, <2>4, <2>5 DEF PendInv
<1> QED BY <1>0, <1>1, <1>3, <1>9, <1>11, <1>13, <1>14, <1>15 DEF Core

\* A step that frees some of the child's TCBs, or the child itself once all of
\* them are freed, keeps the family in order.
LEMMA CollectFamily ==
  ASSUME LInv, Core', WalkInv', op[Me] = "wait_free", UNCHANGED <<lock, children>>,
         NEW q \in Procs, q = kid[Me], NEW D \in SUBSET DeadOf(q),
         NEW o, NEW k, Blanks(D, o, k),
         kid' \in [Threads -> Procs \cup {NoProc}],
         \/ o = "wait_free" /\ k = q /\ parent' = parent
         \/ /\ o = "wait_wake" /\ k = NoProc /\ Unused(q)'
            /\ parent' = [parent EXCEPT ![q] = NoProc]
  PROVE  LInv'
<1> USE DEF LInv, FamilyInv
<1>0. /\ Me \in Threads /\ Mine \in Procs /\ Mine = thr.pcb[Me] /\ Live(Me) /\ Runs(Me)
      /\ NoProc \notin Procs /\ NoThread \notin Threads /\ Mine # IdleProc
      /\ InitProc \in Procs /\ IdleProc \in Procs /\ InitProc # IdleProc
      /\ Me # IdleThread /\ IdleThread \in Threads /\ thr.state[Me] = "RUNNING"
  BY FamilyFacts, ProcAssumption, ThreadAssumption DEF Mine
<1>1. /\ children \in [Procs -> Seq(Procs)]
      /\ parent \in [Procs -> Procs \cup {NoProc}]
      /\ lock \in [Procs -> Threads \cup {NoThread}]
  BY CoreTypes DEF FamilyType
<1>2. /\ q \notin {Mine, InitProc, IdleProc, NoProc}
      /\ NoLive(q) /\ children[q] = <<>> /\ parent[q] = Mine
      /\ \A p \in Procs : q \notin Range(children[p])
      /\ \A t \in DeadOf(q) : op[t] \notin OwnPlaces \cup Forking \cup Inserting
  <2>1. parent[q] = Mine
    BY <1>0 DEF ReapInv, Reaping
  <2> QED BY <2>1, FreeingFacts
<1>4. \A t \in Threads : op[t] \in OwnPlaces => Live(t) /\ thr.pcb[t] \in Procs
  BY OwnersLive
<1>5. \A p \in Procs : lock[p] # Me
  BY <1>0, FamilyFacts DEF MayHold, LockingCalls, WaitCalls, OwnPlaces
<1>o. o \in {"wait_free", "wait_wake"}
  OBVIOUS
<1> HIDE DEF Me, Mine
<1>6. q = kid[Me]
  OBVIOUS
<1>7. /\ \A t \in D :
           /\ t \in Threads
           /\ thr'.state[t] = "NEW" /\ thr'.pcb[t] = NoProc
           /\ op'[t] = "user" /\ node'[t] = NoThread /\ kid'[t] = NoProc
           /\ op[t] \notin OwnPlaces \cup Forking \cup Inserting
           /\ thr.state[t] = "TERMINATED" /\ thr.pcb[t] = q
      /\ \A t \in Threads \ D :
           /\ thr'.state[t] = thr.state[t] /\ thr'.pcb[t] = thr.pcb[t]
           /\ node'[t] = node[t]
           /\ t # Me => op'[t] = op[t] /\ kid'[t] = kid[t]
      /\ Me \notin D /\ op'[Me] = o /\ kid'[Me] = k
  BY <1>2, <1>6 DEF Blanks, DeadOf
<1>8. /\ q \notin {Mine, InitProc, IdleProc, NoProc} /\ NoLive(q)
      /\ children[q] = <<>> /\ \A p \in Procs : q \notin Range(children[p])
      /\ parent' \in [Procs -> Procs \cup {NoProc}]
      /\ \A p \in Procs : p # q => parent'[p] = parent[p]
      /\ \/ o = "wait_free" /\ k = q /\ parent'[q] = Mine
         \/ o = "wait_wake" /\ k = NoProc /\ parent'[q] = NoProc
  BY <1>1, <1>2, <1>6
<1>9. /\ \A t \in D : ~Live(t) /\ ~Live(t)'
      /\ \A t \in Threads : (Live(t)' <=> Live(t)) /\ (Runs(t)' <=> Runs(t))
      /\ \A t \in Threads : Live(t) => t \notin D
      /\ \A t \in Threads : op'[t] \notin {"user", "wait_free", "wait_wake"} =>
           t \notin D /\ t # Me
  BY <1>7, <1>o DEF Live, Runs
<1>10. /\ \A p \in Procs : NoLive(p)' <=> NoLive(p)
       /\ \A p \in Procs : p # q => (Unused(p)' <=> Unused(p))
       /\ Unused(q) => Unused(q)'
       /\ parent'[q] = NoProc => Unused(q)'
  <2>1. ASSUME NEW p \in Procs PROVE NoLive(p)' <=> NoLive(p)
    BY <1>7, <1>9 DEF NoLive
  <2>2. ASSUME NEW p \in Procs, p # q PROVE Unused(p)' <=> Unused(p)
    BY <1>0, <1>7, <2>2 DEF Unused
  <2>3. Unused(q) => Unused(q)'
    BY <1>0, <1>7 DEF Unused
  <2>4. parent'[q] = NoProc => Unused(q)'
    BY <1>0, <1>2
  <2> QED BY <2>1, <2>2, <2>3, <2>4
<1>11. FamilyType' /\ NodeInv' /\ SleepInv' /\ IdleHome'
  <2>1. FamilyType'
    BY <1>0, <1>1, <1>2, <1>8 DEF FamilyType
  <2>2. NodeInv'
    <3> SUFFICES ASSUME NEW t \in Threads,
                        op'[t] \notin Inserting \cup {"task_vanish_loop"}
                 PROVE  node'[t] = NoThread
      BY DEF NodeInv
    <3>1. CASE t \in D
      BY <1>7, <3>1
    <3>2. CASE t = Me
      BY <1>0, <1>7, <3>2 DEF NodeInv, Inserting
    <3>3. CASE t \notin D /\ t # Me
      BY <1>7, <3>3 DEF NodeInv
    <3> QED BY <3>1, <3>2, <3>3
  <2>3. SleepInv'
    <3> SUFFICES ASSUME NEW t \in Threads, thr'.state[t] = "VANISH_WAIT"
                 PROVE  op'[t] = "wait"
      BY DEF SleepInv
    <3>1. t \notin D /\ t # Me /\ thr.state[t] = "VANISH_WAIT"
      BY <1>0, <1>7
    <3> QED BY <1>7, <3>1 DEF SleepInv
  <2>4. IdleHome'
    <3>1. IdleThread \notin D /\ op[IdleThread] = "user" /\ Runs(IdleThread)
      BY <1>0, <1>9 DEF IdleHome, Runs, Live
    <3>2. \A t \in Threads : thr'.pcb[t] = IdleProc <=> t = IdleThread
      BY <1>0, <1>7, <1>8 DEF IdleHome
    <3> QED BY <1>0, <1>7, <1>9, <3>1, <3>2 DEF IdleHome
  <2> QED BY <2>1, <2>2, <2>3, <2>4
<1>12. OwnInv'
  <2> SUFFICES ASSUME NEW t \in Threads, op'[t] \in OwnPlaces
               PROVE  lock[thr'.pcb[t]] = t
    BY <1>0 DEF OwnInv
  <2>1. t \notin D /\ t # Me
    BY <1>9 DEF OwnPlaces
  <2> QED BY <1>7, <2>1 DEF OwnInv
<1>13. HolderInv'
  <2> SUFFICES ASSUME NEW p \in Procs, NEW h, h = lock[p], h # NoThread
               PROVE  thr'.state[h] \in {"READY", "RUNNING"} /\ MayHold(h, p)'
    BY <1>0 DEF HolderInv, Runs
  <2>1. h \in Threads /\ Runs(h) /\ MayHold(h, p)
    BY <1>1 DEF HolderInv
  <2>2. h # Me /\ h \notin D
    BY <1>5, <1>9, <2>1 DEF Runs, Live
  <2> QED BY <1>0, <1>7, <2>1, <2>2 DEF MayHold, Runs
<1>14. ForkInv'
  <2> SUFFICES ASSUME NEW t \in Threads, op'[t] \in Forking
               PROVE  /\ Live(t)'
                      /\ \A w \in Threads : thr'.pcb[w] = thr'.pcb[t] /\ Live(w)' => w = t
                      /\ op'[t] = "fork_insert" => kid'[t] # NoProc /\ thr'.pcb[node'[t]] = kid'[t]
                      /\ kid'[t] # NoProc => ChildOK(t)'
    BY DEF ForkInv
  <2>1. /\ t \notin D /\ t # Me /\ op'[t] = op[t] /\ op[t] \in Forking
        /\ kid'[t] = kid[t] /\ node'[t] = node[t] /\ thr'.pcb[t] = thr.pcb[t]
    BY <1>7, <1>9 DEF Forking
  <2>2. Live(t)' /\ Live(t)
    BY <1>9, <2>1 DEF ForkInv
  <2>3. \A w \in Threads : thr'.pcb[w] = thr'.pcb[t] /\ Live(w)' => w = t
    BY <1>7, <1>9, <2>1 DEF ForkInv
  <2>4. ASSUME op'[t] = "fork_insert" PROVE kid[t] # NoProc /\ thr'.pcb[node[t]] = kid[t]
    <3>1. kid[t] # NoProc /\ thr.pcb[node[t]] = kid[t]
      BY <2>1, <2>4 DEF ForkInv
    <3>2. node[t] \in Threads \ D
      <4>1. node[t] \in Threads /\ thr.state[node[t]] = "READY"
        BY <2>1, <2>4 DEF Core, PendInv, Inserting
      <4> QED BY <1>7, <4>1
    <3> QED BY <1>7, <3>1, <3>2
  <2>5. ASSUME kid[t] # NoProc PROVE ChildOK(t)'
    <3>1. ChildOK(t) /\ kid[t] \in Procs
      BY <2>1, <2>5 DEF ForkInv, FamilyType
    <3>2. Unused(kid[t]) => Unused(kid[t])'
      BY <1>0, <1>7, <2>1, <3>1 DEF Unused
    <3> QED BY <1>0, <2>1, <3>1, <3>2 DEF ChildOK
  <2> QED BY <2>1, <2>2, <2>3, <2>4, <2>5
<1>15. ScanInv'
  <2> SUFFICES ASSUME NEW t \in Threads, op'[t] = "wait_scan"
               PROVE  /\ kid'[t] \in Range(children[thr'.pcb[t]])
                      /\ \A p \in Procs : Before(children[thr'.pcb[t]], kid'[t], p) =>
                           lock[p] = t /\ ~NoLive(p)'
    BY <1>0 DEF ScanInv
  <2>1. /\ t \notin D /\ t # Me /\ op[t] = "wait_scan"
        /\ kid'[t] = kid[t] /\ thr'.pcb[t] = thr.pcb[t]
    BY <1>7, <1>9
  <2> QED BY <1>10, <2>1 DEF ScanInv
<1>16. ReapInv'
  <2> SUFFICES ASSUME NEW t \in Threads, Live(t)', op'[t] \in Reaping
               PROVE  /\ kid'[t] \in Procs /\ parent'[kid'[t]] = thr'.pcb[t]
                      /\ kid'[t] \notin Range(children[thr'.pcb[t]])
                      /\ NoLive(kid[t])'
                      /\ op'[t] \in Freeing => children[kid'[t]] = <<>>
    BY <1>0 DEF ReapInv
  <2>c. CASE t = Me
    <3>1. kid'[Me] = q /\ parent'[q] = Mine /\ thr'.pcb[Me] = Mine
      BY <1>0, <1>7, <1>8, <2>c DEF Reaping
    <3>2. NoLive(q)'
      BY <1>8, <1>10
    <3>3. NoLive(kid[t])'
      BY <2>c, <3>1, <3>2 DEF NoLive
    <3> QED BY <1>0, <1>8, <2>c, <3>1, <3>3
  <2> SUFFICES ASSUME t # Me
               PROVE  /\ kid'[t] \in Procs /\ parent'[kid'[t]] = thr'.pcb[t]
                      /\ kid'[t] \notin Range(children[thr'.pcb[t]])
                      /\ NoLive(kid[t])'
                      /\ op'[t] \in Freeing => children[kid'[t]] = <<>>
    BY <2>c
  <2>1. /\ t \notin D /\ op'[t] = op[t] /\ Live(t)
        /\ kid'[t] = kid[t] /\ thr'.pcb[t] = thr.pcb[t]
    BY <1>7, <1>9
  <2>2. kid[t] \in Procs /\ NoLive(kid[t])
    BY <2>1 DEF ReapInv
  <2>3. kid[t] # q
    BY <1>0, <1>6, <2>1, <2>2 DEF KidInv
  <2>4. NoLive(kid[t])'
    <3>1. PICK r \in Procs : r = kid[t]
      BY <2>2
    <3>2. NoLive(r)'
      BY <1>10, <2>2, <3>1
    <3>3. r = kid'[t]
      BY <2>1, <3>1
    <3> QED BY <3>2, <3>3 DEF NoLive
  <2> QED BY <1>8, <2>1, <2>3, <2>4 DEF ReapInv
<1>17. KidInv'
  <2>1. ASSUME NEW t \in Threads, thr'.state[t] # "TERMINATED",
               op'[t] \notin Forking \cup Reaping \cup {"wait_scan"}
        PROVE  kid'[t] = NoProc
    BY <1>7, <2>1 DEF KidInv
  <2>2. ASSUME NEW t \in Threads, NEW w \in Threads, Live(t)', Live(w)', t # w,
               kid'[t] # NoProc
        PROVE  kid'[t] # kid'[w]
    BY <1>7, <1>9, <2>2 DEF KidInv
  <2> QED BY <2>1, <2>2 DEF KidInv
<1>18. Kin'
  <2>1. \A p, r \in Procs : r \in Range(children[p]) => parent'[r] = p
    BY <1>8 DEF Kin
  <2>2. parent'[InitProc] = IdleProc /\ parent'[IdleProc] = NoProc
    BY <1>0, <1>8 DEF Kin
  <2>3. \A p \in Procs : parent'[p] # p
    BY <1>0, <1>8 DEF Kin
  <2>4. \A p \in Procs : parent'[p] = NoProc /\ p # IdleProc =>
          children[p] = <<>> /\ Unused(p)'
    BY <1>8, <1>10 DEF Kin
  <2> QED BY <1>0, <2>1, <2>2, <2>3, <2>4 DEF Kin
<1>19. Home'
  <2> SUFFICES ASSUME NEW t \in Threads, Live(t)', t # IdleThread
               PROVE  /\ parent'[thr'.pcb[t]] \in Procs
                      /\ thr'.pcb[t] \in Range(children[parent'[thr'.pcb[t]]])
    BY <1>0 DEF Home
  <2>1. Live(t) /\ t \notin D /\ thr'.pcb[t] = thr.pcb[t]
    BY <1>7, <1>9
  <2>2. thr.pcb[t] \in Procs /\ thr.pcb[t] # q
    BY <1>8, <2>1 DEF NoLive, Core, TcbInv, Live
  <2> QED BY <1>8, <2>1, <2>2 DEF Home
<1>20. Tree'
  <2>1. \A t \in Threads : Live(t)' /\ op'[t] = "wait_adopt" <=> Live(t) /\ op[t] = "wait_adopt"
    BY <1>0, <1>7, <1>9
  <2>2. \A t \in Threads : Live(t) /\ op[t] = "wait_adopt" =>
          thr'.pcb[t] = thr.pcb[t] /\ kid'[t] = kid[t]
    BY <1>0, <1>7, <1>9
  <2>3. \A p, r \in Procs : Edge(p, r)' <=> Edge(p, r)
    BY <1>0, <2>1, <2>2 DEF Edge
  <2> QED BY <2>3 DEF Tree
<1>21. Zombie'
  <2> SUFFICES ASSUME NEW t \in Threads, thr'.state[t] = "VANISH_WAIT",
                      NEW r, r = thr'.pcb[t], NEW p \in Range(children[r]),
                      NoLive(p)', ~Unused(p)'
               PROVE  Noticed(r)'
    BY <1>0 DEF Zombie
  <2>1. t \notin D /\ thr.state[t] = "VANISH_WAIT" /\ r = thr.pcb[t] /\ r \in Procs
    BY <1>7 DEF Core, TcbInv
  <2>2. p \in Procs /\ p # q
    BY <1>1, <1>8, <2>1, RangeSubset
  <2>3. Noticed(r)
    BY <1>10, <2>1, <2>2 DEF Zombie
  <2>4. PICK w \in Threads :
          \/ /\ Runs(w) /\ thr.pcb[w] = r
             /\ op[w] \in WaitOps \cup {"task_vanish_loop"}
          \/ /\ r = InitProc
             /\ thr.state[w] \in {"READY", "RUNNING", "TERMINATED"}
             /\ op[w] \in Late
    BY <2>3 DEF Noticed
  <2>5. CASE r = InitProc
    <3>1. op'[Me] \in Late /\ thr'.state[Me] = "RUNNING"
      BY <1>0, <1>7, <1>o DEF Late
    <3> QED BY <1>0, <2>5, <3>1 DEF Noticed
  <2>6. CASE r # InitProc /\ w = Me
    BY <1>0, <1>7, <1>9, <2>4, <2>6 DEF Noticed, WaitOps
  <2>7. CASE r # InitProc /\ w # Me
    <3>1. w \notin D
      BY <1>9, <2>4, <2>7 DEF Runs, Live
    <3>2. op'[w] = op[w] /\ thr'.pcb[w] = thr.pcb[w] /\ thr'.state[w] = thr.state[w]
      BY <1>7, <2>7, <3>1
    <3> QED BY <2>4, <2>7, <3>2 DEF Noticed, Runs
  <2> QED BY <2>5, <2>6, <2>7
<1> QED BY <1>11, <1>12, <1>13, <1>14, <1>15, <1>16, <1>17, <1>18,
           <1>19, <1>20, <1>21

LEMMA WaitFreeTcbFamily ==
  ASSUME LInv, WaitFreeTcb
  PROVE  LInv'
<1>0. PICK q \in Procs : q = kid[Me]
  BY FreeingFacts DEF WaitFreeTcb
<1>1. PICK D \in SUBSET DeadOf(q) : Blanks(D, "wait_free", q)
  BY <1>0, FreeTcbFacts
<1>2. /\ kid' \in [Threads -> Procs \cup {NoProc}] /\ Core' /\ WalkInv'
      /\ op[Me] = "wait_free" /\ parent' = parent /\ UNCHANGED <<lock, children>>
  BY FreeTcbFacts, WaitFreeTcbCore DEF WaitFreeTcb
<1> QED BY <1>0, <1>1, <1>2, CollectFamily

LEMMA WaitFreePcbFamily ==
  ASSUME LInv, WaitFreePcb
  PROVE  LInv'
<1> USE DEF LInv, FamilyInv
<1>0. /\ Me \in Threads /\ op[Me] = "wait_free"
      /\ kid[Me] \in Procs /\ tcbs[kid[Me]] = <<>>
      /\ op' = [op EXCEPT ![Me] = "wait_wake"]
      /\ kid' = [kid EXCEPT ![Me] = NoProc]
      /\ parent' = [parent EXCEPT ![kid[Me]] = NoProc]
      /\ UNCHANGED <<thr, tcbs, lock, node, children>>
  BY FamilyFacts, FreeingFacts DEF WaitFreePcb, Goto, SetKid
<1>1. /\ op = [t \in Threads |-> op[t]]
      /\ kid \in [Threads -> Procs \cup {NoProc}]
      /\ node \in [Threads -> Threads \cup {NoThread}]
      /\ lock \in [Procs -> Threads \cup {NoThread}]
  BY CoreTypes DEF FamilyType
<1>2. Moved(thr, thr', Pending, NoThread)
  BY <1>0, MovedSelf DEF Core
<1>3. node' = [node EXCEPT ![Me] = node[Me]]
  BY <1>0, <1>1
<1>4. Core'
  <2>1. PICK o \in {"wait_wake"}, n \in Threads \cup {NoThread} : n = node[Me]
    BY <1>0, <1>1
  <2>2. /\ op' = [op EXCEPT ![Me] = o] /\ node' = [node EXCEPT ![Me] = n]
        /\ op[Me] \notin Inserting /\ o \notin Inserting
        /\ o \notin {"thread_fork_insert", "task_vanish_loop"}
        /\ lock' \in [Procs -> Threads \cup {NoThread}] /\ lock' = lock /\ tcbs' = tcbs
    BY <1>0, <1>1, <1>3, <2>1 DEF Inserting
  <2> HIDE DEF Me, Mine, LInv
  <2> QED BY <1>2, <2>2, CoreMoved DEF LInv
<1>5. WalkInv'
  BY <1>0, NoWalk
<1>6. Blanks({}, "wait_wake", NoProc)
  BY <1>0, <1>1, ProcAssumption DEF Blanks
<1>7. PICK q \in Procs : q = kid[Me] /\ Unused(q)'
  <2>1. PICK q \in Procs : q = kid[Me]
    BY <1>0
  <2>2. Unused(q)
    BY <1>0, <2>1, CountMeaning
  <2>3. Unused(q)'
    BY <1>0, <2>2 DEF Unused
  <2> QED BY <2>1, <2>3
<1>8. kid' \in [Threads -> Procs \cup {NoProc}]
  BY <1>0, <1>1
<1> QED BY <1>0, <1>4, <1>5, <1>6, <1>7, <1>8, CollectFamily

\* Taking a node off the TERMINATED list moves nobody.
LEMMA TerminatedMoved ==
  ASSUME LInv, NEW s \in Seq(Threads), IsInjective(s),
         Range(s) \subseteq Range(thr.list["TERMINATED"]), Terminated(s)
  PROVE  Moved(thr, thr', Pending, NoThread)
<1>1. /\ "TERMINATED" \in ListIdx /\ "RUNNING" \in ListIdx
      /\ "READY" \in ListIdx /\ "SLEEP" \in ListIdx
  BY DEF ListIdx, Reasons
<1>2. /\ thr \in ThrType
      /\ thr.list \in [ListIdx -> Seq(Threads)]
      /\ thr.state \in [Threads -> ListIdx \cup {"NEW"}]
      /\ thr.detail \in [Threads -> Details]
      /\ thr.pcb \in [Threads -> Procs \cup {NoProc}]
      /\ thr = [list |-> thr.list, state |-> thr.state,
                detail |-> thr.detail, pcb |-> thr.pcb]
  BY ThrFields, CoreTypes DEF LInv, Core, Good, ThrType, Bookkeeping
<1>3. /\ thr'.list = [thr.list EXCEPT !["TERMINATED"] = s]
      /\ thr'.state = thr.state /\ thr'.detail = thr.detail /\ thr'.pcb = thr.pcb
      /\ thr' = [list |-> thr'.list, state |-> thr'.state,
                 detail |-> thr'.detail, pcb |-> thr'.pcb]
  BY <1>2 DEF Terminated
<1>4. /\ thr'.list \in [ListIdx -> Seq(Threads)] /\ thr'.list["TERMINATED"] = s
      /\ \A l \in ListIdx : l # "TERMINATED" => thr'.list[l] = thr.list[l]
  BY <1>1, <1>2, <1>3
<1>5. thr' \in ThrType
  BY <1>2, <1>3, <1>4 DEF ThrType, Bookkeeping
<1>6. Good(thr', Pending)
  <2>1. Agree(thr, Pending, Threads) /\ Good(thr, Pending)
    BY DEF LInv, Core, Good
  <2>2. Agree(thr', Pending, Threads)
    BY <1>3, <1>4, <2>1 DEF Agree
  <2> QED BY <1>1, <1>4, <1>5, <2>1, <2>2 DEF Good
<1>7. Ordered(thr) => Ordered(thr')
  BY <1>1, <1>3, <1>4 DEF Ordered
<1> QED BY <1>3, <1>6, <1>7 DEF Moved

\* POP_FRONT of the TERMINATED list: the caller goes from one place of the
\* loop to another.
LEMMA WaitPopFamily ==
  ASSUME LInv, WaitPopRead \/ WaitPop \/ WaitPopLast
  PROVE  LInv'
<1>0. /\ Me \in Threads /\ Mine \in Procs /\ Me # IdleThread
      /\ NoThread \notin Threads
  BY FamilyFacts, ThreadAssumption
    DEF WaitPopRead, WaitPop, WaitPopLast
<1>1. /\ op = [t \in Threads |-> op[t]]
      /\ kid \in [Threads -> Procs \cup {NoProc}]
      /\ node \in [Threads -> Threads \cup {NoThread}]
      /\ lock \in [Procs -> Threads \cup {NoThread}]
      /\ thr.list["TERMINATED"] \in Seq(Threads)
      /\ IsInjective(thr.list["TERMINATED"])
  <2>1. "TERMINATED" \in ListIdx
    BY DEF ListIdx, Reasons
  <2> QED BY <2>1, CoreTypes DEF LInv, FamilyInv, FamilyType, Core, Good, Agree
<1>2. Moved(thr, thr', Pending, NoThread)
  <2>1. CASE thr' = thr
    BY <2>1, MovedSelf DEF LInv, Core
  <2>2. CASE /\ thr.list["TERMINATED"] # <<>>
             /\ Terminated(Tail(thr.list["TERMINATED"]))
    <3>1. PICK s \in Seq(Threads) :
            /\ s = Tail(thr.list["TERMINATED"]) /\ IsInjective(s)
            /\ Range(s) \subseteq Range(thr.list["TERMINATED"])
      BY <1>1, <2>2, DropFirst
    <3> QED BY <2>2, <3>1, TerminatedMoved
  <2>3. CASE Terminated(<<>>)
    <3>1. <<>> \in Seq(Threads)
      OBVIOUS
    <3>2. PICK s \in Seq(Threads) : s = <<>>
      BY <3>1
    <3>3. IsInjective(s) /\ Range(s) = {}
      BY <3>2, ShortSequences
    <3> QED BY <2>3, <3>2, <3>3, TerminatedMoved
  <2> QED BY <2>1, <2>2, <2>3 DEF WaitPopRead, WaitPop, WaitPopLast
<1>3. PICK o \in Freeing :
        /\ op' = [op EXCEPT ![Me] = o] /\ op[Me] \in Freeing
        /\ UNCHANGED <<tcbs, parent, lock, node, children, kid>>
  BY DEF WaitPopRead, WaitPop, WaitPopLast, Goto, Freeing, family
<1>4. /\ kid' = [kid EXCEPT ![Me] = kid[Me]]
      /\ node' = [node EXCEPT ![Me] = node[Me]]
  BY <1>0, <1>1, <1>3
<1>5. /\ op[Me] \notin Forking \cup OwnPlaces \cup Inserting \cup {"task_vanish_loop"}
      /\ o \notin Forking \cup OwnPlaces \cup Inserting \cup {"task_vanish_loop"}
      /\ o # "wait_scan" /\ o # "wait_adopt" /\ op[Me] # "wait_adopt"
      /\ op[Me] \in Reaping /\ o \in Reaping
      /\ o \in WaitOps /\ op[Me] \in Late /\ o \in Late
  BY <1>3 DEF Freeing, Forking, OwnPlaces, Inserting, Reaping, WaitOps, Late
<1>6. \A p \in Procs : lock[p] # Me
  BY <1>3, FamilyFacts DEF MayHold, LockingCalls, WaitCalls, OwnPlaces, Freeing
<1>7. node[Me] = NoThread
  BY <1>0, <1>5 DEF LInv, FamilyInv, NodeInv
<1>8. WalkInv'
  BY <1>3, <1>5, NoWalk
<1>9. Changed(NoThread)
  BY <1>2, MovedChanged
<1>10. \A p \in Procs : lock'[p] = lock[p]
  BY <1>3
<1>11. Core'
  <2>1. PICK n \in Threads \cup {NoThread} : n = node[Me]
    BY <1>0, <1>1
  <2>2. /\ node' = [node EXCEPT ![Me] = n] /\ lock' = lock /\ tcbs' = tcbs
        /\ lock' \in [Procs -> Threads \cup {NoThread}]
        /\ op[Me] \notin Inserting /\ o \notin Inserting
        /\ o \notin {"thread_fork_insert", "task_vanish_loop"}
    BY <1>1, <1>3, <1>4, <1>5, <2>1 DEF Inserting
  <2> HIDE DEF Me, Mine
  <2> QED BY <1>2, <1>3, <2>2, CoreMoved DEF LInv
<1> HIDE DEF Me, Mine
<1>12. QuietStep(NoThread, o, kid[Me], node[Me])
  BY <1>3, <1>4, <1>9, <1>10 DEF QuietStep
<1>13. Arrives(NoThread, o, kid[Me], node[Me])
  BY <1>0, <1>1, <1>5, <1>6, <1>7, <1>10 DEF Arrives
<1> QED BY <1>5, <1>8, <1>11, <1>12, <1>13, CalmPreserves DEF LInv

-----------------------------------------------------------------------------
(***************************************************************************)
(* The invariant.                                                          *)
(***************************************************************************)

LEMMA InitLInv ==
  ASSUME LInit
  PROVE  LInv
<1>0. /\ Init /\ IInv /\ Core
      /\ children = [p \in Procs |-> IF p = IdleProc THEN <<InitProc>> ELSE <<>>]
      /\ kid = [t \in Threads |-> NoProc]
      /\ parent = [p \in Procs |-> IF p = InitProc THEN IdleProc ELSE NoProc]
  BY InitIInv, IInvCore DEF LInit, Init
<1>1. /\ \A t \in Threads : op[t] = "user" /\ node[t] = NoThread /\ kid[t] = NoProc
      /\ \A p \in Procs : lock[p] = NoThread
  BY <1>0 DEF Init
<1>2. /\ thr.state[IdleThread] = "RUNNING"
      /\ thr.state[InitThread] = "READY"
      /\ \A t \in Threads \ {IdleThread, InitThread} : thr.state[t] = "NEW"
      /\ thr.pcb[IdleThread] = IdleProc
      /\ thr.pcb[InitThread] = InitProc
      /\ \A t \in Threads \ {IdleThread, InitThread} : thr.pcb[t] = NoProc
  BY <1>0, InitStates
<1>3. /\ IdleThread \in Threads /\ InitThread \in Threads /\ IdleThread # InitThread
      /\ IdleProc \in Procs /\ InitProc \in Procs /\ IdleProc # InitProc
      /\ NoProc \notin Procs
  BY ThreadAssumption, ProcAssumption
<1>4. /\ children \in [Procs -> Seq(Procs)]
      /\ children[IdleProc] = <<InitProc>>
      /\ \A p \in Procs : p # IdleProc => children[p] = <<>>
      /\ \A p, q \in Procs : q \in Range(children[p]) => p = IdleProc /\ q = InitProc
      /\ InitProc \in Range(children[IdleProc])
  <2>1. PICK e \in Seq(Procs), i \in Seq(Procs) : e = <<>> /\ i = <<InitProc>>
    <3>1. <<>> \in Seq(Procs) /\ <<InitProc>> \in Seq(Procs)
      BY <1>3
    <3> QED BY <3>1
  <2>2. children = [p \in Procs |-> IF p = IdleProc THEN i ELSE e]
    BY <1>0, <2>1
  <2>3. /\ children \in [Procs -> Seq(Procs)]
        /\ children[IdleProc] = <<InitProc>>
        /\ \A p \in Procs : p # IdleProc => children[p] = <<>>
    BY <1>3, <2>1, <2>2
  <2>4. Range(<<InitProc>>) = {InitProc}
    BY DEF Range
  <2>5. Range(e) = {}
    BY <2>1, EmptyRange
  <2> QED BY <1>3, <2>1, <2>3, <2>4, <2>5
<1>5. FamilyType /\ OwnInv /\ HolderInv /\ ForkInv /\ ScanInv /\ ReapInv /\ NodeInv
  <2>1. FamilyType
    BY <1>0, <1>3, <1>4 DEF FamilyType
  <2>2. OwnInv /\ ForkInv /\ ScanInv /\ ReapInv
    BY <1>1 DEF OwnInv, OwnPlaces, ForkInv, Forking, ScanInv, ReapInv, Reaping
  <2>3. HolderInv /\ NodeInv
    BY <1>1 DEF HolderInv, NodeInv
  <2> QED BY <2>1, <2>2, <2>3
<1>6. KidInv /\ IdleHome /\ SleepInv
  <2>1. KidInv
    BY <1>1 DEF KidInv
  <2>2. IdleHome
    BY <1>1, <1>2, <1>3 DEF IdleHome, Runs
  <2>3. SleepInv
    BY <1>2, <1>3 DEF SleepInv
  <2> QED BY <2>1, <2>2, <2>3
<1>7. Kin
  <2>1. \A p \in Procs : IsInjective(children[p])
    <3>1. IsInjective(<<InitProc>>)
      BY DEF IsInjective
    <3>2. \A p \in Procs : p # IdleProc => IsInjective(children[p])
      BY <1>4 DEF IsInjective
    <3> QED BY <1>4, <3>1, <3>2
  <2>2. /\ parent[InitProc] = IdleProc
        /\ \A p \in Procs : p # InitProc => parent[p] = NoProc
    BY <1>0, <1>3
  <2>3. \A p \in Procs : p # IdleProc /\ p # InitProc => Unused(p)
    BY <1>2, <1>3 DEF Unused
  <2>4. \A p, q \in Procs : q \in Range(children[p]) => parent[q] = p
    BY <1>4, <2>2
  <2>5. \A p \in Procs : parent[p] # p
    BY <1>3, <2>2
  <2>6. \A p \in Procs : parent[p] = NoProc /\ p # IdleProc =>
          children[p] = <<>> /\ Unused(p)
    BY <1>3, <1>4, <2>2, <2>3
  <2> QED BY <1>3, <1>4, <2>1, <2>2, <2>4, <2>5, <2>6 DEF Kin
<1>8. Home
  <2> SUFFICES ASSUME NEW t \in Threads, Live(t), t # IdleThread
               PROVE  /\ parent[thr.pcb[t]] \in Procs
                      /\ thr.pcb[t] \in Range(children[parent[thr.pcb[t]]])
    BY DEF Home
  <2>1. t = InitThread
    BY <1>2 DEF Live
  <2> QED BY <1>2, <1>3, <1>4, <1>7, <2>1 DEF Kin
<1>9. Tree
  <2>1. ASSUME NEW p \in Procs, NEW q \in Procs, Edge(p, q)
        PROVE  p = IdleProc /\ q = InitProc
    BY <1>1, <1>4, <2>1 DEF Edge
  <2>2. Edge(IdleProc, InitProc)
    BY <1>4 DEF Edge
  <2> QED BY <1>3, <2>1, <2>2 DEF Tree
<1>10. WalkInv
  BY <1>1 DEF WalkInv
<1>11. Zombie
  BY <1>2, <1>3 DEF Zombie
<1> QED BY <1>0, <1>5, <1>6, <1>7, <1>8, <1>9, <1>10, <1>11 DEF LInv, FamilyInv

LEMMA ThreadStepPreserves ==
  ASSUME LInv, ThreadStep, UNCHANGED family
  PROVE  LInv'
<1>1. CASE Timer
  BY <1>1, TimerFamily
<1>2. CASE MutexLock
  BY <1>2, MutexLockFamily
<1>3. CASE \E t \in Threads \cup {NoThread} : Yield(t)
  BY <1>3, YieldFamily
<1>4. CASE \E o \in Calls : Call(o)
  BY <1>4, CallFamily, CallAssumption
<1>5. CASE ThreadForkInsert
  BY <1>5, ThreadForkInsertFamily
<1>6. CASE ThreadForkFail
  BY <1>6, ThreadForkRefused, ThreadForkFreeFamily DEF ThreadForkFail
<1>7. CASE ForkCheck
  BY <1>7, ForkCheckFamily
<1>8. CASE VanishLast
  BY <1>8, VanishLastFamily
<1>9. CASE VanishThread
  BY <1>9, VanishThreadFamily
<1>10. CASE TaskVanishBegin
  BY <1>10, TaskVanishBeginFamily
<1> QED BY <1>1, <1>2, <1>3, <1>4, <1>5, <1>6, <1>7, <1>8, <1>9, <1>10
        DEF ThreadStep

LEMMA LNextPreserves ==
  ASSUME LInv, [LNext]_lvars, [UndoesOwn]_lvars
  PROVE  LInv'
<1>1. CASE ThreadStep /\ UNCHANGED family
  BY <1>1, ThreadStepPreserves
<1>2. CASE \E u \in Threads : ThreadForkCreate(u) /\ TakeTid
  BY <1>2, ThreadForkCreateFamily DEF TakeTid
<1>3. CASE MutexLockOwn
  BY <1>3, MutexLockFamily
<1>4. CASE \E q \in Procs : ForkPush(q)
  BY <1>4, ForkPushFamily
<1>5. CASE \E u \in Threads : ForkCopy(u)
  BY <1>5, ForkCopyFamily
<1>6. CASE ForkDone
  BY <1>6, ForkDoneFamily
<1>7. CASE ForkUndo
  <2>1. CASE lvars' = lvars
    BY <2>1, SamePreserves DEF lvars, vars, family
  <2>2. CASE lvars' # lvars
    BY <1>7, <2>2, ForkRefused, ForkUndoFamily
  <2> QED BY <2>1, <2>2
<1>8. CASE \E s \in Statuses : SetStatus(s)
  BY <1>8, SamePreserves DEF SetStatus, vars
<1>9. CASE \E s \in Statuses : TaskVanish(s)
  BY <1>9, TaskVanishFamily DEF TaskVanish
<1>10. CASE Fault
  BY <1>10, CallFamily DEF Fault, WaitCalls
<1>11. CASE FaultCount
  BY <1>11, FaultCountFamily
<1>12. CASE FaultLast
  BY <1>12, FaultLastFamily
<1>13. CASE Call("wait") /\ UNCHANGED family
  BY <1>13, CallFamily DEF WaitCalls
<1>14. CASE WaitNone
  BY <1>14, WaitNoneFamily
<1>15. CASE WaitScan
  BY <1>15, WaitScanFamily
<1>16. CASE WaitLockChild \/ WaitLockInit
  BY <1>16, WaitLockFamily
<1>17. CASE WaitNextChild
  BY <1>17, WaitNextFamily
<1>18. CASE WaitBlock
  BY <1>18, WaitBlockFamily
<1>19. CASE WaitFound
  BY <1>19, WaitFoundFamily
<1>20. CASE WaitAdopt
  BY <1>20, WaitAdoptFamily
<1>21. CASE WaitFreeTcb
  BY <1>21, WaitFreeTcbFamily
<1>22. CASE WaitPopRead \/ WaitPop \/ WaitPopLast
  BY <1>22, WaitPopFamily
<1>23. CASE WaitFreePcb
  BY <1>23, WaitFreePcbFamily
<1>24. CASE WaitWake
  BY <1>24, WaitWakeFamily
<1>25. CASE UNCHANGED lvars
  BY <1>25, SamePreserves DEF lvars, vars, family
<1> QED
  BY <1>1, <1>2, <1>3, <1>4, <1>5, <1>6, <1>7, <1>8, <1>9, <1>10, <1>11,
     <1>12, <1>13, <1>14, <1>15, <1>16, <1>17, <1>18, <1>19, <1>20, <1>21,
     <1>22, <1>23, <1>24, <1>25 DEF LNext

\* The inductive invariant of the life of processes, for any number of threads
\* and processes: up to the first of the two heap errors of OrderlySpec.
THEOREM LInvariance ==
  OrderlySpec => []LInv
<1>1. LInit => LInv
  BY InitLInv
<1>2. LInv /\ [LNext]_lvars /\ [UndoesOwn]_lvars => LInv'
  BY LNextPreserves
<1> QED BY <1>1, <1>2, PTL DEF LSpec, OrderlySpec, FreesOwn

\* The thread lists stay consistent with the threads' states when processes
\* also fault, wait for one another and free each other's TCBs.
THEOREM LifecycleLists ==
  OrderlySpec => []ListsAgree
<1>1. LInv => ListsAgree
  <2> SUFFICES ASSUME LInv PROVE ListsAgree
    OBVIOUS
  <2>1. Len(thr.list["RUNNING"]) = 1
    BY CoreMe DEF LInv
  <2>2. Agree(thr, Pending, Threads)
    BY DEF LInv, Core, Good
  <2> QED BY <2>1, <2>2 DEF ListsAgree, Agree
<1> QED BY <1>1, LInvariance, PTL

\* The process tree stays consistent through fork, failed forks, wait and the
\* handing over of orphans: vanish finds the process that has to be told.
THEOREM FamilyConsistent ==
  OrderlySpec => []FamilyOK
<1>1. LInv => FamilyOK
  BY DEF LInv, FamilyInv, Kin, Home, FamilyOK
<1> QED BY <1>1, LInvariance, PTL

\* What wait frees without a lock is dead, locked by nobody, in nobody else's
\* hands, and has no child left.
THEOREM FreedIsQuiet ==
  OrderlySpec => []FreedQuiet
<1>1. LInv => FreedQuiet
  <2> SUFFICES ASSUME LInv, NEW t \in Threads, Live(t), op[t] \in Freeing
               PROVE  /\ \A u \in Threads : thr.pcb[u] = kid[t] => ~Live(u)
                      /\ lock[kid[t]] = NoThread
                      /\ \A u \in Threads \ {t} : Live(u) => kid[u] # kid[t]
                      /\ children[kid[t]] = <<>>
    BY DEF FreedQuiet
  <2> USE DEF LInv, FamilyInv
  <2>1. PICK q \in Procs : q = kid[t]
    BY DEF ReapInv, Reaping, Freeing
  <2>2. /\ parent[q] = thr.pcb[t] /\ q \notin Range(children[thr.pcb[t]])
        /\ NoLive(q) /\ children[q] = <<>>
    BY <2>1 DEF ReapInv, Reaping, Freeing
  <2>3. /\ NoProc \notin Procs /\ NoThread \notin Threads
        /\ thr.pcb[t] \in Procs /\ thr.pcb[t] # IdleProc
    BY ProcAssumption, ThreadAssumption DEF Core, TcbInv, Live, IdleHome, Freeing
  <2>4. q # InitProc /\ \A p \in Procs : q \notin Range(children[p])
    BY <2>2, <2>3 DEF Kin
  <2>5. \A u \in Threads \ {t} : Live(u) => kid[u] # q
    BY <2>1, <2>3 DEF KidInv
  <2>6. ASSUME lock[q] # NoThread PROVE FALSE
    <3>1. PICK h \in Threads : h = lock[q]
      BY <2>6, CoreTypes
    <3>2. Runs(h) /\ MayHold(h, q)
      BY <2>6, <3>1 DEF HolderInv
    <3>3. Live(h)
      BY <3>2 DEF Runs, Live
    <3>4. thr.pcb[h] # q
      BY <2>2, <3>3 DEF NoLive
    <3>5. op[h] = "wait_scan" /\ (q = kid[h] \/ Before(children[thr.pcb[h]], kid[h], q))
      BY <2>4, <3>2, <3>4 DEF MayHold
    <3>6. thr.pcb[h] \in Procs
      BY <3>3 DEF Core, TcbInv, Live
    <3>7. q \in Range(children[thr.pcb[h]])
      <4>1. CASE q = kid[h]
        BY <3>5, <4>1 DEF ScanInv
      <4>2. CASE Before(children[thr.pcb[h]], kid[h], q)
        <5>1. children[thr.pcb[h]] \in Seq(Procs)
          BY <3>6 DEF FamilyType
        <5> QED BY <4>2, <5>1 DEF Before, Range
      <4> QED BY <3>5, <4>1, <4>2
    <3> QED BY <2>4, <3>6, <3>7
  <2> QED BY <2>1, <2>2, <2>5, <2>6 DEF NoLive
<1> QED BY <1>1, LInvariance, PTL

\* A sleeper in wait whose process has an exited child is not forgotten: a
\* thread of the process is in wait or kills it, or somebody has handed
\* orphans over to init.
THEOREM ZombiesNoticed ==
  OrderlySpec => []ZombieNoticed
<1>1. LInv => ZombieNoticed
  <2> SUFFICES ASSUME LInv, NEW t \in Range(thr.list["VANISH_WAIT"]),
                      NEW q \in Range(children[thr.pcb[t]]),
                      tcbs[q] # <<>>, AliveCount(q) = 0
               PROVE  Noticed(thr.pcb[t])
    BY DEF ZombieNoticed, Noticed, Runs
  <2>1. thr.list["VANISH_WAIT"] \in Seq(Threads) /\ "VANISH_WAIT" \in ListIdx
    BY CoreTypes DEF LInv, ListIdx, Reasons
  <2>2. t \in Threads /\ thr.state[t] = "VANISH_WAIT"
    BY <2>1, RangeSubset DEF LInv, Core, Good, Agree
  <2>3. thr.pcb[t] \in Procs
    BY <2>2 DEF LInv, Core, TcbInv
  <2>4. q \in Procs
    BY <2>3, RangeSubset DEF LInv, FamilyInv, FamilyType
  <2>5. NoLive(q) /\ ~Unused(q)
    BY <2>4, CountMeaning DEF LInv
  <2> QED BY <2>2, <2>5 DEF LInv, Zombie
<1> QED BY <1>1, LInvariance, PTL

\* Nobody sleeps or is killed with a PCB lock held: its own, those of the
\* children it has scanned in wait, or init's.
THEOREM LockHoldersRun ==
  OrderlySpec => []HoldersRun
<1>1. LInv => HoldersRun
  <2> SUFFICES ASSUME LInv, NEW p \in Procs, lock[p] # NoThread, p # InitProc
               PROVE  thr.pcb[lock[p]] \in {p, parent[p]}
    BY DEF HoldersRun, LInv, FamilyInv, HolderInv, Runs
  <2> USE DEF LInv, FamilyInv
  <2>1. PICK h \in Threads : h = lock[p]
    BY CoreTypes
  <2>2. MayHold(h, p) /\ Runs(h)
    BY <2>1 DEF HolderInv
  <2>3. CASE thr.pcb[h] = p
    BY <2>1, <2>3
  <2>4. CASE thr.pcb[h] # p
    <3>1. op[h] = "wait_scan" /\ (p = kid[h] \/ Before(children[thr.pcb[h]], kid[h], p))
      BY <2>2, <2>4 DEF MayHold
    <3>2. thr.pcb[h] \in Procs
      BY <2>2 DEF Core, TcbInv, Runs
    <3>3. children[thr.pcb[h]] \in Seq(Procs)
      BY <3>2 DEF FamilyType
    <3>4. p \in Range(children[thr.pcb[h]])
      BY <3>1, <3>3 DEF ScanInv, Before, Range
    <3> QED BY <2>1, <3>2, <3>4 DEF Kin
  <2> QED BY <2>3, <2>4
<1> QED BY <1>1, LInvariance, PTL

\* A thread that blocks in wait, or dies, always has a thread to switch to:
\* the idle thread is in the READY list whenever it does not run.
THEOREM WaitNeverHalts ==
  OrderlySpec => []NeverHalts
<1>1. LInv => NeverHalts
  <2> SUFFICES ASSUME LInv, Me # IdleThread
               PROVE  thr.list["READY"] # <<>>
    BY DEF NeverHalts
  <2> USE DEF LInv, FamilyInv
  <2>1. IdleThread \in Threads /\ thr.state[IdleThread] \in {"READY", "RUNNING"}
    BY ThreadAssumption DEF IdleHome, Runs
  <2>2. IdleThread \notin Pending
    <3> SUFFICES ASSUME NEW t \in Threads, op[t] \in Inserting, node[t] = IdleThread
                 PROVE  FALSE
      BY DEF Pending, Inserting
    <3>1. thr.pcb[node[t]] = IdleProc
      BY <2>1 DEF IdleHome
    <3>2. CASE op[t] = "fork_insert"
      <4>1. kid[t] = IdleProc /\ kid[t] # NoProc /\ Live(t)
        BY <3>1, <3>2 DEF ForkInv, Forking
      <4>2. IdleProc \in Range(children[thr.pcb[t]])
        BY <3>2, <4>1 DEF ForkInv, Forking, ChildOK
      <4>3. thr.pcb[t] \in Procs
        BY <4>1 DEF Live, Core, TcbInv
      <4> QED BY <4>2, <4>3, ProcAssumption DEF Kin
    <3>3. CASE op[t] = "thread_fork_insert"
      <4>1. node[t] \in Range(tcbs[thr.pcb[t]]) /\ thr.pcb[t] \in Procs
        BY <3>3, OwnersLive DEF Core, HoldInv, OwnPlaces
      <4>2. thr.pcb[t] = IdleProc
        BY <2>1, <3>1, <4>1 DEF Core, TcbInv
      <4> QED BY <3>3, <4>2 DEF IdleHome
    <3> QED BY <3>2, <3>3 DEF Inserting
  <2>3. thr.state[IdleThread] # "RUNNING"
    <3> SUFFICES ASSUME thr.state[IdleThread] = "RUNNING" PROVE FALSE
      OBVIOUS
    <3>1. IdleThread \in Range(thr.list["RUNNING"])
      BY <2>1, <2>2, ListIdxFacts DEF Core, Good, Agree
    <3>2. thr.list["RUNNING"] = <<Me>> /\ Range(<<Me>>) = {Me}
      BY CoreMe, SingletonFacts
    <3> QED BY <3>1, <3>2
  <2>4. IdleThread \in Range(thr.list["READY"])
    BY <2>1, <2>2, <2>3, ListIdxFacts DEF Core, Good, Agree
  <2> QED BY <2>4 DEF Range
<1> QED BY <1>1, LInvariance, PTL

\* Only handle_task_vanish itself leaves the loop of task_vanish.
LEMMA LoopLeft ==
  ASSUME [LNext]_lvars, op[Me] = "task_vanish_loop", op' # op
  PROVE  TaskVanishStep
<1>1. ASSUME ThreadStep, UNCHANGED family PROVE FALSE
  <2>1. CASE Timer
    BY <2>1 DEF Timer
  <2>2. CASE MutexLock
    BY <2>2 DEF MutexLock
  <2>3. CASE \E t \in Threads \cup {NoThread} : Yield(t)
    BY <2>3 DEF Yield
  <2>4. CASE \E o \in Calls : Call(o)
    BY <2>4 DEF Call
  <2>5. CASE ThreadForkInsert \/ ThreadForkFail \/ ForkCheck
    BY <2>5 DEF ThreadForkInsert, ThreadForkFail, ForkCheck, Holding
  <2>6. CASE VanishLast \/ VanishThread \/ TaskVanishBegin
    BY <2>6 DEF VanishLast, VanishThread, TaskVanishBegin, Holding
  <2> QED BY <1>1, <2>1, <2>2, <2>3, <2>4, <2>5, <2>6 DEF ThreadStep
<1>2. ASSUME NEW u \in Threads, ThreadForkCreate(u) \/ ForkCopy(u) PROVE FALSE
  BY <1>2 DEF ThreadForkCreate, ForkCopy, ForkBuild, Holding
<1>3. ASSUME MutexLockOwn \/ ForkDone \/ ForkUndo PROVE FALSE
  BY <1>3 DEF MutexLockOwn, ForkDone, ForkInsert, ForkUndo
<1>4. ASSUME NEW q \in Procs, ForkPush(q) PROVE FALSE
  BY <1>4 DEF ForkPush
<1>5. ASSUME NEW s \in Statuses, SetStatus(s) PROVE FALSE
  BY <1>5 DEF SetStatus
<1>6. ASSUME Fault \/ FaultCount \/ FaultLast \/ Call("wait") PROVE FALSE
  BY <1>6 DEF Fault, FaultCount, FaultLast, Call, Holding
<1>7. ASSUME WaitNone \/ WaitScan \/ WaitLockChild \/ WaitNextChild \/ WaitBlock
      PROVE  FALSE
  BY <1>7 DEF WaitNone, WaitScan, WaitLockChild, WaitNextChild, WaitBlock,
              AtChild, Holding
<1>8. ASSUME WaitFound \/ WaitLockInit \/ WaitAdopt \/ WaitWake
      PROVE  FALSE
  BY <1>8 DEF WaitFound, WaitLockInit, WaitAdopt, WaitWake, AtChild
<1>10. ASSUME WaitFreeTcb \/ WaitPopRead \/ WaitPop \/ WaitPopLast \/ WaitFreePcb
       PROVE  FALSE
  BY <1>10 DEF WaitFreeTcb, WaitPopRead, WaitPop, WaitPopLast, WaitFreePcb
<1>9. ~UNCHANGED lvars
  BY DEF lvars, vars
<1> QED BY <1>1, <1>2, <1>3, <1>4, <1>5, <1>6, <1>7, <1>8, <1>9, <1>10
        DEF LNext, TaskVanish

\* task_vanish leaves no sibling alive, those that sleep in wait included.
THEOREM TaskVanishKillsWaiters ==
  OrderlySpec => TaskVanishKills
<1>1. LInv /\ [LNext]_lvars =>
        [\A t \in Threads :
           op[t] = "task_vanish_loop" /\ op'[t] = "vanish" =>
             \A u \in Range(tcbs[thr.pcb[t]]) \ {t} :
               thr'.state[u] = "TERMINATED"]_vars
  <2> SUFFICES ASSUME LInv, [LNext]_lvars, NEW t \in Threads,
                      op[t] = "task_vanish_loop", op'[t] = "vanish",
                      NEW u \in Range(tcbs[thr.pcb[t]]) \ {t}
               PROVE  thr'.state[u] = "TERMINATED"
    OBVIOUS
  <2> USE DEF LInv
  <2>1. t = Me /\ thr.pcb[t] = Mine
    BY DEF WalkInv, Mine
  <2>2. TaskVanishStep
    BY <2>1, LoopLeft
  <2>3. DeadKept
    BY <2>2, KillFacts, CoreMe DEF DeadKept
  <2> QED BY <2>1, <2>2, <2>3, WalkEnds
<1> QED BY <1>1, LInvariance, PTL DEF LSpec, OrderlySpec, FreesOwn, TaskVanishKills
=============================================================================
