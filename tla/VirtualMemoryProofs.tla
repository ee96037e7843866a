------------------------- MODULE VirtualMemoryProofs -------------------------
(***************************************************************************)
(* Proofs about the frame pool and the page directories, for any number of *)
(* processes, pages and frames.                                            *)
(***************************************************************************)
EXTENDS VirtualMemory, SequenceLemmas

-----------------------------------------------------------------------------
(***************************************************************************)
(* The inductive invariant.                                                *)
(***************************************************************************)
Entries == Unavailable..NFrames

\* The allocations new_pages may record.
Allocs == {a \in [base : UserPages, len : 1..NPages] : a.base + a.len <= NPages}

JobOps == {"user", "stuck", "new", "new_undo", "remove", "fork", "fork_copy", "exec"}
          \cup Destructs

Jobs == [op : JobOps, child : Procs \cup {NoProc}, dir : Dirs \cup {NoDir},
         base : Pages, len : 0..NPages, next : 0..NPages]

MemType ==
  /\ pool \in Seq(Frames)
  /\ pte \in [Dirs -> [UserPages -> Entries]]
  /\ readonly \in [Dirs -> SUBSET UserPages]
  /\ proc \in [Procs -> {"free", "new", "live", "zombie", "reaped"}]
  /\ dir \in [Procs -> Dirs \cup {NoDir}]
  /\ alloc \in [Procs -> Seq(Allocs)]
  /\ job \in [Procs -> Jobs]
  /\ checked \in [Procs -> Pages]
  /\ saved \in [Procs -> [UserPages -> Entries]]
  /\ lost \subseteq Frames

\* Where every frame is.
Sorted(s) == \A i, j \in 1..Len(s) : i < j => s[i] < s[j]

FramesOK ==
  /\ Sorted(pool)
  /\ Range(pool) \cap lost = {}
  /\ \A d, e \in Dirs, v, w \in UserPages :
       pte[d][v] \in Frames /\ pte[d][v] = pte[e][w] => d = e /\ v = w
  /\ \A d \in Dirs, v \in UserPages : pte[d][v] \notin Range(pool) \cup lost
  /\ \A f \in Frames :
       f \in Range(pool) \cup lost
       \/ \E d \in Dirs, v \in UserPages : pte[d][v] = f

\* The directory of a process and the one its call works on.
OwnDir(p) ==
  /\ proc[p] = "free" <=> dir[p] = NoDir
  /\ proc[p] \in {"free", "new", "zombie"} => job[p].op = "user"
  /\ proc[p] = "reaped" <=> job[p].op = "reap"
  /\ job[p].op = "reap" => job[p].dir = dir[p]
  /\ job[p].dir = NoDir <=>
       job[p].op \in {"user", "stuck", "new", "new_undo", "remove"}
  /\ job[p].op = "fork" =>
       /\ job[p].child \in Procs /\ proc[job[p].child] = "new"
       /\ dir[job[p].child] = job[p].dir
  /\ job[p].op = "fork_copy" =>
       /\ job[p].child \in Procs /\ proc[job[p].child] = "new"
       /\ dir[job[p].child] = dir[p]

\* p is on the directory of its unfinished child q.
Fills(p, q) == job[p].op = "fork_copy" /\ job[p].child = q

\* No two of them are the same, but for those of fork and wait.
DirsOK ==
  /\ \A p \in Procs : OwnDir(p)
  /\ \A p, q \in Procs : dir[p] = dir[q] /\ dir[p] # NoDir =>
       p = q \/ Fills(p, q) \/ Fills(q, p)
  /\ \A p, q \in Procs : job[p].dir = job[q].dir /\ job[p].dir # NoDir => p = q
  /\ \A p, q \in Procs : job[p].dir = dir[q] /\ dir[q] # NoDir =>
       \/ job[p].op = "fork" /\ job[p].child = q
       \/ job[p].op = "reap" /\ p = q

\* A directory that nobody uses maps nothing.
FreeBlank ==
  \A d \in Dirs : FreeDir(d) =>
    readonly[d] = {} /\ \A v \in UserPages : pte[d][v] = Unavailable

\* The text of d has frames, and no other page lacks the R/W bit.
TextOK(d) == readonly[d] = Text /\ \A v \in Text : pte[d][v] \in Frames

\* The allocations in s are in order and have frames in the directory d, apart
\* from the text.
Backed(s, d) ==
  /\ \A i, j \in 1..Len(s) : i < j => s[i].base + s[i].len <= s[j].base
  /\ \A i \in 1..Len(s) : \A v \in AllocPages(s[i]) :
       pte[d][v] \in Frames /\ v \notin Text
  /\ TextOK(d)

\* Neither an allocation in s nor the text has a page in a..(b - 1).
Clear(s, a, b) ==
  /\ \A i \in 1..Len(s) : \A v \in AllocPages(s[i]) : v < a \/ v >= b
  /\ \A v \in Text : v < a \/ v >= b

\* The pages that a new_pages has mapped, and has not unmapped again: from
\* First to Limit - 1.
First(p) == job[p].base + IF job[p].op = "new" THEN 0 ELSE job[p].next
Limit(p) == job[p].base + IF job[p].op = "new" THEN job[p].next ELSE job[p].len

NewOK(p) ==
  /\ job[p].next <= job[p].len /\ (job[p].op = "new" => job[p].len > 0)
  /\ Limit(p) <= NPages /\ (Limit(p) # job[p].base => job[p].base > 0)
  /\ Clear(alloc[p], job[p].base, Limit(p))
  /\ \A v \in UserPages :
       IF First(p) <= v /\ v < Limit(p)
       THEN pte[dir[p]][v] \in Frames /\ saved[p][v] = Unavailable
       ELSE pte[dir[p]][v] = saved[p][v]

RemoveOK(p) ==
  /\ job[p].next <= job[p].len
  /\ job[p].base > 0 /\ job[p].base + job[p].len <= NPages
  /\ Clear(alloc[p], job[p].base, job[p].base + job[p].len)

\* The child's directory as far as fork has filled it.
ForkOK(p) ==
  /\ job[p].next > 0
  /\ \A v \in UserPages :
       IF v < job[p].next
       THEN pte[job[p].dir][v] \in Frames <=> pte[dir[p]][v] \in Frames
       ELSE pte[job[p].dir][v] = Unavailable
  /\ readonly[job[p].dir] = {v \in Text : v < job[p].next}

\* The same while p is on the child's directory and fills the frame of the
\* page that the loop is at.
CopyOK(p) ==
  /\ job[p].next > 0 /\ job[p].next < NPages
  /\ \A v \in UserPages :
       IF v <= job[p].next
       THEN pte[dir[p]][v] \in Frames <=> pte[job[p].dir][v] \in Frames
       ELSE pte[dir[p]][v] = Unavailable
  /\ readonly[dir[p]] = {v \in Text : v < job[p].next}
  /\ Backed(alloc[p], job[p].dir)

\* The new directory as far as exec has filled it, and the old one.
ExecOK(p) ==
  /\ job[p].next > 0
  /\ \A v \in UserPages : v >= job[p].next => pte[dir[p]][v] = Unavailable
  /\ \A v \in Text : v < job[p].next => pte[dir[p]][v] \in Frames
  /\ readonly[dir[p]] = {v \in Text : v < job[p].next}
  /\ Backed(alloc[p], job[p].dir)

\* What destruct_page_dir has released.
DestructOK(p) ==
  /\ job[p].next > 0
  /\ \A v \in UserPages : v < job[p].next =>
       pte[job[p].dir][v] = Unavailable /\ v \notin readonly[job[p].dir]

CallOK(p) ==
  /\ proc[p] = "live" /\ job[p].op \notin {"exec", "exec_free", "fork_copy"} =>
       Backed(alloc[p], dir[p])
  /\ job[p].op \in {"new", "new_undo"} => NewOK(p)
  /\ job[p].op = "remove" => RemoveOK(p)
  /\ job[p].op = "fork" => ForkOK(p)
  /\ job[p].op = "fork_copy" => CopyOK(p)
  /\ job[p].op = "exec" => ExecOK(p)
  /\ job[p].op = "exec_free" => TextOK(dir[p])
  /\ job[p].op \in Destructs => DestructOK(p)

MemInv ==
  /\ MemType /\ FramesOK /\ DirsOK /\ FreeBlank
  /\ \A p \in Procs : CallOK(p)

-----------------------------------------------------------------------------
(***************************************************************************)
(* The frame pool.                                                         *)
(***************************************************************************)

\* Page numbers are naturals, frames are neither of the special entries.
LEMMA Numbers ==
  /\ NPages \in Nat /\ NPages > 1 /\ NFrames \in Nat
  /\ UserPages = 1..(NPages - 1) /\ Pages = 0..(NPages - 1)
  /\ Frames = 1..NFrames /\ Entries = (-2)..NFrames
  /\ Frames \subseteq Entries /\ Frames \subseteq Nat
BY MemoryAssumption DEF USER_PAGE_START, UserPages, Pages, Frames, Entries, Unavailable

\* free_frame puts a frame that is not in the pool at its place.
LEMMA InsertFrameSorted ==
  ASSUME NEW s \in Seq(Frames), Sorted(s), NEW f \in Frames, f \notin Range(s)
  PROVE  /\ InsertFrame(s, f) \in Seq(Frames)
         /\ Sorted(InsertFrame(s, f))
         /\ Range(InsertFrame(s, f)) = Range(s) \cup {f}
<1>0. /\ Len(s) \in Nat /\ DOMAIN s = 1..Len(s) /\ f \in Nat
      /\ \A i \in 1..Len(s) : s[i] \in Nat /\ s[i] \in Frames /\ s[i] # f
  BY LenProperties, ElementOfSeq, Numbers DEF Range
<1>1. PICK I : I = {i \in 1..Len(s) : s[i] > f}
  OBVIOUS
<1>2. PICK k : k = IF I # {} THEN Min(I) ELSE 0
  OBVIOUS
<1>6. PICK n : n = IF k = 0 THEN Len(s) + 1 ELSE k
  OBVIOUS
<1>7. InsertFrame(s, f) = IF n > 1 /\ s[n - 1] = f THEN s ELSE InsertAt(s, n, f)
  BY <1>1, <1>2, <1>6 DEF InsertFrame, SelectInSeq
<1>8. (k = 0 <=> I = {}) /\ (k # 0 => k \in I /\ \A i \in I : k <= i)
  BY <1>0, <1>1, <1>2, FirstPlace
<1>9. /\ n \in 1..Len(s) + 1
      /\ \A i \in 1..Len(s) : IF i < n THEN s[i] < f ELSE s[i] > f
  <2>1. CASE k = 0
    BY <1>0, <1>1, <1>6, <1>8, <2>1
  <2>2. CASE k # 0
    <3>1. n \in 1..Len(s) /\ s[n] > f /\ \A i \in 1..Len(s) : s[i] > f => n <= i
      BY <1>1, <1>6, <1>8, <2>2
    <3>2. \A i \in 1..Len(s) : n < i => s[n] < s[i]
      BY <3>1 DEF Sorted
    <3> QED BY <1>0, <3>1, <3>2
  <2> QED BY <2>1, <2>2
<1>10. InsertFrame(s, f) = InsertAt(s, n, f)
  BY <1>0, <1>7, <1>9
<1>3. IsInjective(s)
  BY <1>0 DEF Sorted, IsInjective
<1>4. /\ InsertAt(s, n, f) \in Seq(Frames)
      /\ Range(InsertAt(s, n, f)) = Range(s) \cup {f}
      /\ Len(InsertAt(s, n, f)) = Len(s) + 1
      /\ \A j \in 1..Len(s) + 1 :
           InsertAt(s, n, f)[j] = IF j < n THEN s[j] ELSE IF j = n THEN f ELSE s[j - 1]
  <2>1. n \in 1..Len(s) + 1
    BY <1>9
  <2> QED BY ONLY <2>1, <1>3, InsertAtProperties, InsertAtInjective, s \in Seq(Frames),
                  f \in Frames, f \notin Range(s)
<1>5. Sorted(InsertAt(s, n, f))
  <2> DEFINE r == InsertAt(s, n, f)
  <2> SUFFICES ASSUME NEW i \in 1..Len(s) + 1, NEW j \in 1..Len(s) + 1, i < j
               PROVE  r[i] < r[j]
    BY <1>4 DEF Sorted
  <2>1. r[i] = IF i < n THEN s[i] ELSE IF i = n THEN f ELSE s[i - 1]
    BY <1>4
  <2>2. r[j] = IF j < n THEN s[j] ELSE IF j = n THEN f ELSE s[j - 1]
    BY <1>4
  <2> HIDE DEF r
  <2>3. CASE j < n
    BY <1>0, <1>9, <2>1, <2>2, <2>3 DEF Sorted
  <2>4. CASE j = n
    BY <1>0, <1>9, <2>1, <2>2, <2>4
  <2>5. CASE j > n /\ i <= n
    BY <1>0, <1>9, <2>1, <2>2, <2>5 DEF Sorted
  <2>6. CASE i > n
    BY <1>0, <1>9, <2>1, <2>2, <2>6, SMTT(20) DEF Sorted
  <2> QED BY <1>0, <1>9, <2>3, <2>4, <2>5, <2>6
<1> QED BY <1>10, <1>4, <1>5

\* alloc_frame takes the first frame.
LEMMA TailSorted ==
  ASSUME NEW s \in Seq(Frames), Sorted(s), s # <<>>
  PROVE  /\ Tail(s) \in Seq(Frames) /\ Sorted(Tail(s))
         /\ Head(s) \in Frames /\ Head(s) \in Range(s)
         /\ Range(Tail(s)) = Range(s) \ {Head(s)}
<1>0. /\ Len(s) \in Nat /\ DOMAIN s = 1..Len(s)
      /\ \A i \in 1..Len(s) : s[i] \in Nat
  BY LenProperties, ElementOfSeq, Numbers
<1>1. IsInjective(s)
  BY <1>0 DEF Sorted, IsInjective
<1>2. /\ Tail(s) \in Seq(Frames) /\ Len(Tail(s)) = Len(s) - 1
      /\ \A i \in 1..Len(Tail(s)) : Tail(s)[i] = s[i + 1]
  BY HeadTailProperties
<1>3. Sorted(Tail(s))
  BY <1>0, <1>2 DEF Sorted
<1> QED BY <1>1, <1>2, <1>3, DropFirst

-----------------------------------------------------------------------------
(***************************************************************************)
(* The edits of a page directory keep every frame in one place.            *)
(***************************************************************************)
PoolType ==
  /\ pool \in Seq(Frames) /\ lost \subseteq Frames
  /\ pte \in [Dirs -> [UserPages -> Entries]]

\* The step edits the entry of page v in directory d, and no other.
Edits(d, v) ==
  \A e \in Dirs, w \in UserPages : e # d \/ w # v => pte'[e][w] = pte[e][w]

\* What an edit changes.
LEMMA SetEntryEffect ==
  ASSUME PoolType, NEW d \in Dirs, NEW v \in UserPages, NEW x \in Entries, SetEntry(d, v, x)
  PROVE  /\ pte' \in [Dirs -> [UserPages -> Entries]]
         /\ pte'[d][v] = x /\ Edits(d, v)
BY DEF PoolType, SetEntry, Edits

\* map_new_frame, at a page that has no frame.
LEMMA MapNewFrameKeeps ==
  ASSUME PoolType, FramesOK, NEW d \in Dirs, NEW v \in UserPages,
         pte[d][v] \notin Frames, MapNewFrame(d, v), UNCHANGED lost
  PROVE  /\ PoolType' /\ FramesOK'
         /\ pte'[d][v] \in Frames /\ Edits(d, v)
<1>1. PICK f : f = Head(pool)
  OBVIOUS
<1>2. /\ pool' \in Seq(Frames) /\ Sorted(pool')
      /\ f \in Frames /\ f \in Range(pool) /\ Range(pool') = Range(pool) \ {f}
  BY <1>1, TailSorted DEF MapNewFrame, PoolType, FramesOK
<1>3. /\ pte' \in [Dirs -> [UserPages -> Entries]]
      /\ pte'[d][v] = f /\ Edits(d, v)
  BY <1>1, <1>2, Numbers, SetEntryEffect DEF MapNewFrame
<1>4. PoolType'
  BY <1>2, <1>3 DEF PoolType
<1>5. Range(pool') \cap lost' = {} /\ f \notin lost
  BY <1>2 DEF FramesOK
<1>6. \A e \in Dirs, w \in UserPages :
        pte[e][w] \notin Range(pool) \cup lost
  BY DEF FramesOK
<1>7. \A e \in Dirs, w \in UserPages :
        pte'[e][w] = IF e = d /\ w = v THEN f ELSE pte[e][w]
  BY <1>3 DEF Edits
<1>8. \A e, g \in Dirs, w, u \in UserPages :
        pte'[e][w] \in Frames /\ pte'[e][w] = pte'[g][u] => e = g /\ w = u
  BY <1>2, <1>6, <1>7 DEF FramesOK
<1>9. \A e \in Dirs, w \in UserPages : pte'[e][w] \notin Range(pool') \cup lost'
  BY <1>2, <1>5, <1>6, <1>7
<1>10. \A g \in Frames :
         g \in Range(pool') \cup lost' \/ \E e \in Dirs, w \in UserPages : pte'[e][w] = g
  <2> SUFFICES ASSUME NEW g \in Frames, g \notin Range(pool') \cup lost'
               PROVE  \E e \in Dirs, w \in UserPages : pte'[e][w] = g
    OBVIOUS
  <2>1. CASE g = f
    BY <1>3, <2>1
  <2>2. CASE g # f
    <3>1. PICK e \in Dirs, w \in UserPages : pte[e][w] = g
      BY <1>2, <2>2 DEF FramesOK
    <3> QED BY <1>7, <3>1
  <2> QED BY <2>1, <2>2
<1> QED BY <1>2, <1>3, <1>4, <1>5, <1>8, <1>9, <1>10 DEF FramesOK

\* An entry without a frame takes the place of another one.
LEMMA MapOtherKeeps ==
  ASSUME PoolType, FramesOK, NEW d \in Dirs, NEW v \in UserPages,
         pte[d][v] \notin Frames, NEW x \in Entries \ Frames, MapOther(d, v, x),
         UNCHANGED lost
  PROVE  /\ PoolType' /\ FramesOK'
         /\ pte'[d][v] = x /\ Edits(d, v)
<1>1. /\ pte' \in [Dirs -> [UserPages -> Entries]] /\ UNCHANGED <<pool, lost>>
      /\ pte'[d][v] = x /\ Edits(d, v)
  BY SetEntryEffect DEF MapOther
<1>2. PoolType'
  BY <1>1 DEF PoolType
<1>3. \A e \in Dirs, w \in UserPages :
        \/ pte'[e][w] = pte[e][w]
        \/ e = d /\ w = v /\ pte'[e][w] \notin Frames /\ pte[e][w] \notin Frames
  BY <1>1 DEF Edits
<1>4. Range(pool) \cup lost \subseteq Frames
  BY RangeSubset DEF PoolType
<1>5. \A e, g \in Dirs, w, u \in UserPages :
        pte'[e][w] \in Frames /\ pte'[e][w] = pte'[g][u] => e = g /\ w = u
  BY <1>3 DEF FramesOK
<1>6. \A e \in Dirs, w \in UserPages : pte'[e][w] \notin Range(pool') \cup lost'
  BY <1>1, <1>3, <1>4 DEF FramesOK
<1>7. \A g \in Frames :
        g \in Range(pool') \cup lost' \/ \E e \in Dirs, w \in UserPages : pte'[e][w] = g
  <2> SUFFICES ASSUME NEW g \in Frames, g \notin Range(pool') \cup lost'
               PROVE  \E e \in Dirs, w \in UserPages : pte'[e][w] = g
    OBVIOUS
  <2>1. PICK e \in Dirs, w \in UserPages : pte[e][w] = g
    BY <1>1 DEF FramesOK
  <2> QED BY <1>3, <2>1
<1> QED BY <1>1, <1>2, <1>5, <1>6, <1>7 DEF FramesOK

\* unmap_frame, whether free_frame has memory for the list node or not.
LEMMA ReleaseKeeps ==
  ASSUME PoolType, FramesOK, NEW d \in Dirs, NEW v \in UserPages, Release(d, v)
  PROVE  /\ PoolType' /\ FramesOK'
         /\ pte'[d][v] = Unavailable /\ Edits(d, v)
<1>0. Unavailable \in Entries \ Frames
  BY Numbers DEF Unavailable
<1>1. /\ pte' \in [Dirs -> [UserPages -> Entries]]
      /\ pte'[d][v] = Unavailable /\ Edits(d, v)
  BY <1>0, SetEntryEffect DEF Release
<1>2. PICK f : f = pte[d][v]
  OBVIOUS
<1>3. FreeFrame(f)
  BY <1>2 DEF Release
<1>4. f \notin Range(pool) \cup lost /\ Range(pool) \cup lost \subseteq Frames
  BY <1>2, RangeSubset DEF FramesOK, PoolType
<1>5. CASE f \notin Frames
  <2>1. MapOther(d, v, Unavailable) /\ UNCHANGED lost
    BY <1>3, <1>5 DEF FreeFrame, MapOther, Release
  <2> QED BY <1>0, <1>2, <1>5, <2>1, MapOtherKeeps
<1>6. CASE f \in Frames
  <2>1. /\ pool' \in Seq(Frames) /\ Sorted(pool') /\ lost' \subseteq Frames
        /\ Range(pool') \cap lost' = {}
        /\ Range(pool') \cup lost' = Range(pool) \cup lost \cup {f}
    <3>1. CASE pool' = InsertFrame(pool, f) /\ lost' = lost
      BY <1>4, <1>6, <3>1, InsertFrameSorted DEF PoolType, FramesOK
    <3>2. CASE pool' = pool /\ lost' = lost \cup {f}
      BY <1>4, <1>6, <3>2 DEF PoolType, FramesOK
    <3> QED BY <1>3, <1>6, <3>1, <3>2 DEF FreeFrame
  <2>2. PoolType'
    BY <1>1, <2>1 DEF PoolType
  <2>3. \A e \in Dirs, w \in UserPages :
          \/ pte'[e][w] = pte[e][w] /\ (e # d \/ w # v)
          \/ e = d /\ w = v /\ pte'[e][w] = Unavailable
    BY <1>1 DEF Edits
  <2>4. \A e, g \in Dirs, w, u \in UserPages :
          pte'[e][w] \in Frames /\ pte'[e][w] = pte'[g][u] => e = g /\ w = u
    BY <1>0, <2>3 DEF FramesOK
  <2>5. \A e \in Dirs, w \in UserPages : pte'[e][w] \notin Range(pool') \cup lost'
    <3> SUFFICES ASSUME NEW e \in Dirs, NEW w \in UserPages
                 PROVE  pte'[e][w] \notin Range(pool) \cup lost \cup {f}
      BY <2>1
    <3>1. CASE e = d /\ w = v
      BY <1>0, <1>4, <1>6, <2>3, <3>1
    <3>2. CASE e # d \/ w # v
      BY <1>2, <1>6, <2>3, <3>2 DEF FramesOK
    <3> QED BY <3>1, <3>2
  <2>6. \A g \in Frames :
          g \in Range(pool') \cup lost' \/ \E e \in Dirs, w \in UserPages : pte'[e][w] = g
    <3> SUFFICES ASSUME NEW g \in Frames, g \notin Range(pool) \cup lost \cup {f}
                 PROVE  \E e \in Dirs, w \in UserPages : pte'[e][w] = g
      BY <2>1
    <3>1. PICK e \in Dirs, w \in UserPages : pte[e][w] = g
      BY DEF FramesOK
    <3> QED BY <1>2, <2>3, <3>1
  <2> QED BY <1>1, <2>1, <2>2, <2>4, <2>5, <2>6 DEF FramesOK
<1> QED BY <1>5, <1>6

-----------------------------------------------------------------------------
(***************************************************************************)
(* Steps that leave the ownership of directories alone.                    *)
(***************************************************************************)

\* The calls without a directory of their own, and those that fill or release
\* one that no process has.
Plain == {"user", "stuck", "new", "new_undo", "remove"}
Loose == {"exec", "exec_undo", "exec_free", "fork_undo"}

\* A step of p that edits no directory but d.
Local(p, d) ==
  /\ UNCHANGED <<proc, dir>>
  /\ \A q \in Procs \ {p} :
       job'[q] = job[q] /\ alloc'[q] = alloc[q] /\ saved'[q] = saved[q]
  /\ job'[p].dir = job[p].dir
  /\ \/ job'[p].op = job[p].op /\ job'[p].child = job[p].child
     \/ job[p].op \in Plain /\ job'[p].op \in Plain /\ proc[p] = "live"
     \/ job[p].op \in Loose /\ job'[p].op \in Loose
  /\ (d = dir[p] /\ proc[p] = "live") \/ d = job[p].dir
  /\ \A e \in Dirs \ {d} : pte'[e] = pte[e] /\ readonly'[e] = readonly[e]

\* What holds of the call of q depends on the two directories of q only.
LEMMA CallFrame ==
  ASSUME MemInv, NEW q \in Procs, job'[q] = job[q], alloc'[q] = alloc[q],
         saved'[q] = saved[q], proc'[q] = proc[q], dir'[q] = dir[q],
         proc[q] = "live" => pte'[dir[q]] = pte[dir[q]] /\ readonly'[dir[q]] = readonly[dir[q]],
         job[q].dir # NoDir =>
           pte'[job[q].dir] = pte[job[q].dir] /\ readonly'[job[q].dir] = readonly[job[q].dir]
  PROVE  CallOK(q)'
<1> USE DEF MemInv
<1>0. OwnDir(q) /\ CallOK(q) /\ job[q].op \in JobOps
      /\ proc[q] \in {"free", "new", "live", "zombie", "reaped"}
  BY DEF DirsOK, MemType, Jobs
<1>1. job[q].op \notin {"user", "reap"} => proc[q] = "live"
  BY <1>0 DEF OwnDir
<1>2. job[q].op \in {"fork", "fork_copy", "exec"} \cup Destructs => job[q].dir # NoDir
  BY <1>0 DEF OwnDir, Destructs
<1>3. proc'[q] = "live" /\ job'[q].op \notin {"exec", "exec_free", "fork_copy"} =>
        Backed(alloc[q], dir[q])'
  BY <1>0 DEF CallOK, Backed, TextOK
<1>4. job'[q].op \in {"new", "new_undo"} => NewOK(q)'
  BY <1>0, <1>1 DEF CallOK, NewOK, First, Limit, Clear
<1>5. job'[q].op = "remove" => RemoveOK(q)'
  BY <1>0 DEF CallOK, RemoveOK, Clear
<1>6. job'[q].op = "fork" => ForkOK(q)'
  BY <1>0, <1>1, <1>2 DEF CallOK, ForkOK
<1>7. job'[q].op = "exec" => ExecOK(q)'
  BY <1>0, <1>1, <1>2 DEF CallOK, ExecOK, Backed, TextOK
<1>8. job'[q].op = "exec_free" => TextOK(dir[q])'
  BY <1>0, <1>1 DEF CallOK, TextOK
<1>9. job'[q].op \in Destructs => DestructOK(q)'
  BY <1>0, <1>2 DEF CallOK, DestructOK
<1>10. job'[q].op = "fork_copy" => CopyOK(q)'
  BY <1>0, <1>1, <1>2 DEF CallOK, CopyOK, Backed, TextOK
<1> QED BY <1>3, <1>4, <1>5, <1>6, <1>7, <1>8, <1>9, <1>10 DEF CallOK

\* The directories of another process are not the one that p edits.
LEMMA OtherDirs ==
  ASSUME MemInv, NEW p \in Procs, NEW q \in Procs \ {p}, NEW d,
         d # NoDir, (d = dir[p] /\ proc[p] = "live") \/ d = job[p].dir
  PROVE  /\ proc[q] = "live" => dir[q] # d /\ dir[q] \in Dirs
         /\ job[q].dir # d
<1> USE DEF MemInv, DirsOK
<1>0. OwnDir(p) /\ OwnDir(q)
  OBVIOUS
<1>1. dir[q] \in Dirs \cup {NoDir}
  BY DEF MemType
<1>2. CASE d = dir[p] /\ proc[p] = "live"
  BY <1>0, <1>1, <1>2 DEF OwnDir, Fills
<1>3. CASE d = job[p].dir
  BY <1>0, <1>1, <1>3 DEF OwnDir
<1> QED BY <1>2, <1>3

\* A step of one process keeps the invariant if it keeps what concerns this
\* process.
LEMMA LocalKeeps ==
  ASSUME MemInv, NEW p \in Procs, NEW d \in Dirs, Local(p, d),
         MemType', FramesOK', CallOK(p)'
  PROVE  MemInv'
<1> USE DEF MemInv
<1>0. NoDir \notin Dirs
  BY MemoryAssumption
<1>1. \A q \in Procs : job'[q].dir = job[q].dir /\ proc'[q] = proc[q] /\ dir'[q] = dir[q]
  BY DEF Local
<1>2. DirsOK'
  <2>1. \A q \in Procs :
          /\ OwnDir(q) /\ job[q].op \in JobOps
          /\ proc[q] \in {"free", "new", "live", "zombie", "reaped"}
    BY DEF DirsOK, MemType, Jobs
  <2>2. \A q \in Procs :
          /\ (job'[q].op = "fork" <=> job[q].op = "fork")
          /\ (job'[q].op = "reap" <=> job[q].op = "reap")
          /\ (job'[q].op = "fork_copy" <=> job[q].op = "fork_copy")
          /\ (job'[q].op \in {"fork", "fork_copy"} => job'[q].child = job[q].child)
          /\ (job'[q].op \in Plain <=> job[q].op \in Plain)
          /\ (job'[q].op # job[q].op => proc[q] = "live")
    <3> SUFFICES ASSUME NEW q \in Procs
                 PROVE  /\ (job'[q].op = "fork" <=> job[q].op = "fork")
                        /\ (job'[q].op = "reap" <=> job[q].op = "reap")
                        /\ (job'[q].op = "fork_copy" <=> job[q].op = "fork_copy")
                        /\ (job'[q].op \in {"fork", "fork_copy"} => job'[q].child = job[q].child)
                        /\ (job'[q].op \in Plain <=> job[q].op \in Plain)
                        /\ (job'[q].op # job[q].op => proc[q] = "live")
      OBVIOUS
    <3>1. CASE q # p
      BY <3>1 DEF Local
    <3>2. CASE q = p
      BY <2>1, <3>2 DEF Local, Plain, Loose, OwnDir
    <3> QED BY <3>1, <3>2
  <2>3. \A q \in Procs : OwnDir(q)'
    <3> SUFFICES ASSUME NEW q \in Procs PROVE OwnDir(q)'
      OBVIOUS
    <3> QED BY <1>1, <2>1, <2>2 DEF OwnDir, Plain
  <2> QED BY <1>1, <2>2, <2>3 DEF DirsOK, Fills
<1>3. \A e \in Dirs : FreeDir(e)' => FreeDir(e) /\ e # d
  BY <1>0, <1>1 DEF FreeDir, Local
<1>4. FreeBlank'
  BY <1>3 DEF FreeBlank, Local
<1>5. ASSUME NEW q \in Procs \ {p}
      PROVE  CallOK(q)'
  <2>1. /\ proc[q] = "live" => dir[q] # d /\ dir[q] \in Dirs
        /\ job[q].dir # d
    BY <1>0, OtherDirs DEF Local
  <2>2. job[q].dir \in Dirs \cup {NoDir}
    BY DEF MemType, Jobs
  <2> QED BY <1>1, <2>1, <2>2, CallFrame DEF Local
<1> QED BY <1>2, <1>4, <1>5


\* The fields of a call.
LEMMA JobFields ==
  ASSUME NEW op \in JobOps, NEW child \in Procs \cup {NoProc}, NEW d \in Dirs \cup {NoDir},
         NEW base \in Pages, NEW len \in 0..NPages, NEW next \in 0..NPages
  PROVE  /\ Job(op, child, d, base, len, next) \in Jobs
         /\ Job(op, child, d, base, len, next).op = op
         /\ Job(op, child, d, base, len, next).child = child
         /\ Job(op, child, d, base, len, next).dir = d
         /\ Job(op, child, d, base, len, next).base = base
         /\ Job(op, child, d, base, len, next).len = len
         /\ Job(op, child, d, base, len, next).next = next
BY DEF Job, Jobs

\* No call.
LEMMA UserFields ==
  /\ User \in Jobs /\ User.op = "user" /\ User.dir = NoDir
  /\ [User EXCEPT !.op = "stuck"] \in Jobs
  /\ [User EXCEPT !.op = "stuck"].op = "stuck"
  /\ [User EXCEPT !.op = "stuck"].dir = NoDir
<1>1. "user" \in JobOps /\ "stuck" \in JobOps /\ 0 \in Pages /\ 0 \in 0..NPages
  BY Numbers DEF JobOps
<1>2. User \in Jobs /\ User.op = "user" /\ User.dir = NoDir
  BY <1>1, JobFields DEF User
<1> QED BY <1>1, <1>2 DEF Jobs

\* A process goes on with another call, ...
LEMMA GotoEffect ==
  ASSUME MemType, NEW p \in Procs, NEW j \in Jobs, Goto(p, j)
  PROVE  /\ job' \in [Procs -> Jobs] /\ job'[p] = j
         /\ \A q \in Procs \ {p} : job'[q] = job[q]
BY DEF MemType, Goto

\* ... or with the next page of its loop.
LEMMA AdvanceEffect ==
  ASSUME MemType, NEW p \in Procs, Advance(p), job[p].next < NPages
  PROVE  /\ job' \in [Procs -> Jobs]
         /\ job'[p].op = job[p].op /\ job'[p].child = job[p].child
         /\ job'[p].dir = job[p].dir /\ job'[p].base = job[p].base
         /\ job'[p].len = job[p].len /\ job'[p].next = job[p].next + 1
         /\ \A q \in Procs \ {p} : job'[q] = job[q]
<1>1. job[p] \in Jobs
  BY DEF MemType
<1>2. PICK j : j = [job[p] EXCEPT !.next = @ + 1]
  OBVIOUS
<1>3. /\ j \in Jobs
      /\ j.op = job[p].op /\ j.child = job[p].child
      /\ j.dir = job[p].dir /\ j.base = job[p].base
      /\ j.len = job[p].len /\ j.next = job[p].next + 1
  <2>1. job[p].next + 1 \in 0..NPages
    BY <1>1, Numbers DEF Jobs
  <2> QED BY <1>1, <1>2, <2>1 DEF Jobs
<1>4. Goto(p, j)
  BY <1>2 DEF Advance
<1> QED BY <1>3, <1>4, GotoEffect

\* A process that makes a call on pages has its directory.
LEMMA LiveDir ==
  ASSUME MemInv, NEW p \in Procs
  PROVE  /\ job[p] \in Jobs /\ OwnDir(p) /\ CallOK(p)
         /\ proc[p] = "live" => dir[p] \in Dirs
         /\ job[p].op \notin {"user", "reap"} => proc[p] = "live"
         /\ job[p].op \notin Plain => job[p].dir \in Dirs
         /\ job[p].op \in Plain <=> job[p].dir = NoDir
         /\ job[p].op \in SingleThread =>
              job[p].dir # dir[p]
<1>1. /\ job[p] \in Jobs /\ OwnDir(p) /\ CallOK(p)
      /\ proc[p] \in {"free", "new", "live", "zombie", "reaped"}
      /\ dir[p] \in Dirs \cup {NoDir} /\ job[p].dir \in Dirs \cup {NoDir}
      /\ job[p].op \in JobOps
  BY DEF MemInv, MemType, DirsOK, Jobs
<1>2. job[p].op \in SingleThread =>
        job[p].dir # dir[p]
  <2> SUFFICES ASSUME job[p].op \in SingleThread,
                      job[p].dir = dir[p]
               PROVE  FALSE
    OBVIOUS
  <2>1. proc[p] = "live" /\ dir[p] # NoDir
    BY <1>1 DEF OwnDir, SingleThread
  <2>2. job[p].op = "fork" /\ job[p].child = p
    BY <2>1 DEF MemInv, DirsOK, SingleThread
  <2> QED BY <1>1, <2>1, <2>2 DEF OwnDir
<1> QED BY <1>1, <1>2 DEF OwnDir, Plain

\* The page that a loop of new_pages or remove_pages is at.
LEMMA CurrentPage ==
  ASSUME MemType, NEW p \in Procs, job[p].base + job[p].next <= NPages
  PROVE  Current(p) = IF job[p].base + job[p].next < NPages
                      THEN job[p].base + job[p].next ELSE 0
<1>1. job[p].base \in Nat /\ job[p].next \in Nat /\ NPages \in Nat /\ NPages > 1
  BY Numbers DEF MemType, Jobs
<1>2. PICK n : n = job[p].base + job[p].next
  OBVIOUS
<1>3. n \in Nat /\ n <= NPages
  BY <1>1, <1>2
<1>4. n < NPages => n % NPages = n
  BY <1>1, <1>3
<1>5. NPages % NPages = 0
  BY <1>1
<1> QED BY <1>1, <1>2, <1>3, <1>4, <1>5 DEF Current

\* The pages of an allocation are pages of the address space.
LEMMA AllocPagesUser ==
  ASSUME NEW s \in Seq(Allocs), NEW i \in 1..Len(s)
  PROVE  /\ s[i] \in Allocs /\ s[i].base \in 1..NPages /\ s[i].len \in 1..NPages
         /\ s[i].base + s[i].len <= NPages
         /\ AllocPages(s[i]) \subseteq UserPages
         /\ s[i].base \in AllocPages(s[i])
<1>1. s[i] \in Allocs
  BY ElementOfSeq
<1>2. /\ s[i].base \in UserPages /\ s[i].len \in 1..NPages
      /\ s[i].base + s[i].len <= NPages
  BY <1>1 DEF Allocs
<1>3. PICK b, n : b = s[i].base /\ n = s[i].len
  OBVIOUS
<1>4. b \in 1..(NPages - 1) /\ n \in 1..NPages /\ b + n <= NPages /\ NPages \in Nat
  BY <1>2, <1>3, Numbers
<1>5. b..(b + n - 1) \subseteq 1..(NPages - 1) /\ b \in b..(b + n - 1)
  BY <1>4
<1>6. AllocPages(s[i]) = b..(b + n - 1)
  BY <1>3 DEF AllocPages
<1> QED BY <1>1, <1>2, <1>3, <1>4, <1>5, <1>6, Numbers

\* An edit outside the allocations, or one that maps a frame, leaves them
\* backed.
LEMMA BackedKeeps ==
  ASSUME NEW s \in Seq(Allocs), NEW d \in Dirs, Backed(s, d), readonly'[d] = readonly[d],
         NEW v \in UserPages, Edits(d, v),
         \/ pte'[d][v] \in Frames
         \/ pte[d][v] \notin Frames
         \/ v \notin Text /\ \A i \in 1..Len(s) : v \notin AllocPages(s[i])
  PROVE  Backed(s, d)'
<1>1. \A i \in 1..Len(s) : \A w \in AllocPages(s[i]) :
        w \in UserPages /\ pte[d][w] \in Frames /\ w \notin Text
  BY AllocPagesUser DEF Backed
<1>2. \A i \in 1..Len(s) : \A w \in AllocPages(s[i]) : pte'[d][w] \in Frames
  BY <1>1 DEF Edits
<1>3. TextOK(d)'
  BY DEF Backed, TextOK, Text, Edits
<1> QED BY <1>1, <1>2, <1>3 DEF Backed

\* The special entries are no frames.
LEMMA NotFrames ==
  /\ Unavailable \in Entries \ Frames /\ Available \in Entries \ Frames
  /\ Zero \in Entries \ Frames
BY Numbers DEF Unavailable, Available, Zero

\* The invariant holds of the pool.
LEMMA Pool ==
  ASSUME MemInv
  PROVE  PoolType /\ FramesOK
BY DEF MemInv, MemType, PoolType

\* An edit leaves the other directories alone.
LEMMA EditsDir ==
  ASSUME PoolType, PoolType', NEW d \in Dirs, NEW v \in UserPages, Edits(d, v)
  PROVE  \A e \in Dirs \ {d} : pte'[e] = pte[e]
<1> SUFFICES ASSUME NEW e \in Dirs \ {d} PROVE pte'[e] = pte[e]
  OBVIOUS
<1>1. pte'[e] \in [UserPages -> Entries] /\ pte[e] \in [UserPages -> Entries]
  BY DEF PoolType
<1>2. \A w \in UserPages : pte'[e][w] = pte[e][w]
  BY DEF Edits
<1> QED BY <1>1, <1>2

\* A step that moves no frame.
LEMMA FramesStay ==
  ASSUME MemInv, UNCHANGED <<pool, pte, lost>>
  PROVE  FramesOK'
BY DEF MemInv, FramesOK, Sorted

\* new_pages starts.
LEMMA NewPagesKeeps ==
  ASSUME MemInv, NEW p \in Procs, NEW base \in Pages, NEW len \in 1..NPages,
         NewPages(p, base, len), UNCHANGED lost
  PROVE  MemInv'
<1>1. /\ proc[p] = "live" /\ job[p].op = "user" /\ dir[p] \in Dirs /\ MemType
      /\ CallOK(p) /\ job[p].dir = NoDir
  BY LiveDir DEF NewPages, MayCall, MemInv, OwnDir
<1>2. PICK j : j = Job("new", NoProc, NoDir, base, len, 0)
  OBVIOUS
<1>3. /\ j \in Jobs /\ j.op = "new" /\ j.dir = NoDir
      /\ j.base = base /\ j.len = len /\ j.next = 0
  <2>1. "new" \in JobOps /\ 0 \in 0..NPages /\ len \in 0..NPages
    BY Numbers DEF JobOps
  <2> QED BY <1>2, <2>1, JobFields
<1>4. /\ job' \in [Procs -> Jobs] /\ job'[p] = j
      /\ \A q \in Procs \ {p} : job'[q] = job[q]
  BY <1>1, <1>2, <1>3, GotoEffect DEF NewPages
<1>5. /\ saved' \in [Procs -> [UserPages -> Entries]] /\ saved'[p] = pte[dir[p]]
      /\ \A q \in Procs \ {p} : saved'[q] = saved[q]
  BY <1>1 DEF NewPages, MemType
<1>6. UNCHANGED <<pool, pte, readonly, proc, dir, alloc, checked, lost>>
  BY DEF NewPages
<1>7. MemType'
  BY <1>1, <1>4, <1>5, <1>6 DEF MemType
<1>8. Local(p, dir[p])
  BY <1>1, <1>3, <1>4, <1>5, <1>6 DEF Local, Plain
<1>9. Backed(alloc[p], dir[p])'
  BY <1>1, <1>6 DEF CallOK, Backed, TextOK
<1>10. NewOK(p)'
  <2>1. First(p)' = base /\ Limit(p)' = base
    BY <1>3, <1>4, Numbers DEF First, Limit
  <2>2. base <= NPages /\ \A v \in UserPages : ~(base <= v /\ v < base)
    BY Numbers
  <2>3. Clear(alloc[p], base, base)'
    <3>1. \A i \in 1..Len(alloc[p]) : AllocPages(alloc[p][i]) \subseteq UserPages
      BY <1>1, AllocPagesUser DEF MemType
    <3>2. \A v \in UserPages : v < base \/ v >= base
      BY Numbers
    <3> QED BY <1>6, <3>1, <3>2 DEF Clear, Text
  <2> QED BY <1>3, <1>4, <1>5, <1>6, <2>1, <2>2, <2>3, Numbers DEF NewOK
<1>11. CallOK(p)'
  BY <1>3, <1>4, <1>9, <1>10 DEF CallOK, Destructs
<1> QED BY <1>1, <1>6, <1>7, <1>8, <1>11, FramesStay, LocalKeeps

\* new_pages maps a page.
LEMMA NewPageKeeps ==
  ASSUME MemInv, NEW p \in Procs, NewPage(p), UNCHANGED lost
  PROVE  MemInv'
<1>1. /\ proc[p] = "live" /\ job[p].op = "new" /\ dir[p] \in Dirs /\ MemType
      /\ CallOK(p) /\ job[p].dir = NoDir /\ NewOK(p) /\ job[p] \in Jobs
  BY LiveDir DEF NewPage, MemInv, CallOK, Plain
<1>2. PICK b, n, l, d : b = job[p].base /\ n = job[p].next /\ l = job[p].len /\ d = dir[p]
  OBVIOUS
<1>3. /\ b \in Pages /\ n \in 0..NPages /\ l \in 0..NPages /\ b + n <= NPages
      /\ n < l /\ (n # 0 => b > 0) /\ d \in Dirs
  <2>1. Limit(p) = b + n
    BY <1>1, <1>2 DEF Limit
  <2>2. b \in Pages /\ n \in 0..NPages /\ l \in 0..NPages
    BY <1>1, <1>2 DEF Jobs
  <2> QED BY <1>1, <1>2, <2>1, <2>2, Numbers DEF NewOK, NewPage
<1>4. PICK v : v = Current(p)
  OBVIOUS
<1>5. v \in UserPages /\ pte[d][v] = Unavailable /\ MapNewFrame(d, v) /\ Advance(p)
      /\ UNCHANGED <<readonly, proc, dir, alloc, checked, saved>>
  BY <1>2, <1>4 DEF NewPage, Claimable, Entry
<1>6. v = b + n /\ b + n < NPages /\ b > 0
  BY <1>1, <1>2, <1>3, <1>4, <1>5, CurrentPage, Numbers
<1>7. PoolType' /\ FramesOK' /\ pte'[d][v] \in Frames /\ Edits(d, v)
  BY <1>3, <1>5, MapNewFrameKeeps, Pool, NotFrames
<1>8. /\ job' \in [Procs -> Jobs]
      /\ job'[p].op = "new" /\ job'[p].child = job[p].child
      /\ job'[p].dir = NoDir /\ job'[p].base = b
      /\ job'[p].len = l /\ job'[p].next = n + 1
      /\ \A q \in Procs \ {p} : job'[q] = job[q]
  BY <1>1, <1>2, <1>3, <1>5, AdvanceEffect, Numbers
<1>9. MemType'
  BY <1>1, <1>5, <1>7, <1>8 DEF MemType, PoolType
<1>10. Local(p, d)
  BY <1>1, <1>2, <1>3, <1>5, <1>7, <1>8, EditsDir, Pool DEF Local
<1>11. NewOK(p)'
  <2>1. /\ First(p) = b /\ Limit(p) = b + n
        /\ First(p)' = b /\ Limit(p)' = b + n + 1
    BY <1>1, <1>2, <1>3, <1>8, Numbers DEF First, Limit
  <2>2. Clear(alloc[p], b, b + n + 1)'
    <3>1. ASSUME NEW w \in UserPages, pte[d][w] \in Frames, w < b \/ w >= b + n
          PROVE  w < b \/ w >= b + n + 1
      <4>1. w # v
        BY <1>5, <3>1, NotFrames
      <4> QED BY <1>3, <1>6, <3>1, <4>1, Numbers
    <3>2. ASSUME NEW i \in 1..Len(alloc[p]), NEW w \in AllocPages(alloc[p][i])
          PROVE  w < b \/ w >= b + n + 1
      <4>1. w \in UserPages /\ pte[d][w] \in Frames
        BY <1>1, <1>2, AllocPagesUser DEF CallOK, Backed, MemType
      <4>2. w < b \/ w >= b + n
        BY <1>1, <1>2, <2>1 DEF NewOK, Clear
      <4> QED BY <3>1, <4>1, <4>2
    <3>3. ASSUME NEW w \in Text
          PROVE  w < b \/ w >= b + n + 1
      <4>1. w \in UserPages /\ pte[d][w] \in Frames
        BY <1>1, <1>2 DEF CallOK, Backed, TextOK, Text
      <4>2. w < b \/ w >= b + n
        BY <1>1, <1>2, <2>1 DEF NewOK, Clear
      <4> QED BY <3>1, <4>1, <4>2
    <3> QED BY <1>5, <3>2, <3>3 DEF Clear
  <2>3. \A w \in UserPages :
          IF b <= w /\ w < b + n + 1
          THEN pte'[d][w] \in Frames /\ saved[p][w] = Unavailable
          ELSE pte'[d][w] = saved[p][w]
    <3> SUFFICES ASSUME NEW w \in UserPages
                 PROVE  IF b <= w /\ w < b + n + 1
                        THEN pte'[d][w] \in Frames /\ saved[p][w] = Unavailable
                        ELSE pte'[d][w] = saved[p][w]
      OBVIOUS
    <3>1. IF b <= w /\ w < b + n
          THEN pte[d][w] \in Frames /\ saved[p][w] = Unavailable
          ELSE pte[d][w] = saved[p][w]
      BY <1>1, <1>2, <2>1 DEF NewOK
    <3>2. CASE w = v
      BY <1>3, <1>5, <1>6, <1>7, <3>1, <3>2, Numbers
    <3>3. CASE w # v
      <4>1. pte'[d][w] = pte[d][w]
        BY <1>3, <1>7, <3>3 DEF Edits
      <4> QED BY <1>3, <1>6, <3>1, <3>3, <4>1, Numbers
    <3> QED BY <3>2, <3>3
  <2> QED BY <1>2, <1>3, <1>5, <1>6, <1>8, <2>1, <2>2, <2>3, Numbers, SMTT(20) DEF NewOK
<1>12. Backed(alloc[p], dir[p])'
  BY <1>1, <1>2, <1>3, <1>5, <1>7, BackedKeeps DEF CallOK, MemType
<1>13. CallOK(p)'
  BY <1>8, <1>11, <1>12 DEF CallOK, Destructs
<1> QED BY <1>3, <1>7, <1>9, <1>10, <1>13, LocalKeeps


\* new_pages starts to undo what it did.
LEMMA UndoNewKeeps ==
  ASSUME MemInv, NEW p \in Procs, job[p].op = "new", UndoNew(p, job[p].next),
         UNCHANGED <<pool, pte, readonly, proc, dir, alloc, checked, saved, lost>>
  PROVE  MemInv'
<1>1. /\ proc[p] = "live" /\ dir[p] \in Dirs /\ MemType
      /\ CallOK(p) /\ job[p].dir = NoDir /\ NewOK(p) /\ job[p] \in Jobs
  BY LiveDir DEF MemInv, CallOK, Plain
<1>2. PICK j, b, n : /\ j = Job("new_undo", NoProc, NoDir, b, n, 0)
                     /\ b = job[p].base /\ n = job[p].next
  OBVIOUS
<1>3. /\ j \in Jobs /\ j.op = "new_undo" /\ j.dir = NoDir
      /\ j.base = b /\ j.len = n /\ j.next = 0
      /\ b \in Pages /\ n \in 0..NPages
  <2>1. "new_undo" \in JobOps /\ 0 \in 0..NPages /\ b \in Pages /\ n \in 0..NPages
    BY <1>1, <1>2, Numbers DEF JobOps, Jobs
  <2>2. NoProc \in Procs \cup {NoProc} /\ NoDir \in Dirs \cup {NoDir}
    OBVIOUS
  <2> QED BY ONLY <1>2, <2>1, <2>2 DEF Job, Jobs
<1>4. /\ job' \in [Procs -> Jobs] /\ job'[p] = j
      /\ \A q \in Procs \ {p} : job'[q] = job[q]
  BY <1>1, <1>2, <1>3, GotoEffect DEF UndoNew
<1>5. MemType'
  BY <1>1, <1>4 DEF MemType
<1>6. Local(p, dir[p])
  BY <1>1, <1>3, <1>4 DEF Local, Plain
<1>7. First(p) = b /\ Limit(p) = b + n /\ First(p)' = b /\ Limit(p)' = b + n
  BY <1>1, <1>2, <1>3, <1>4, Numbers DEF First, Limit
<1>8. NewOK(p)'
  BY <1>1, <1>2, <1>3, <1>4, <1>7, Numbers, SMTT(20) DEF NewOK, Clear
<1>9. Backed(alloc[p], dir[p])'
  BY <1>1 DEF CallOK, Backed, TextOK
<1>10. CallOK(p)'
  BY <1>3, <1>4, <1>8, <1>9 DEF CallOK, Destructs
<1> QED BY <1>1, <1>5, <1>6, <1>10, FramesStay, LocalKeeps

\* The list of allocations stays in order when one whose pages are in none of
\* them is put in.
LEMMA InsertAllocBacked ==
  ASSUME NEW s \in Seq(Allocs), NEW d, Backed(s, d), NEW a \in Allocs,
         Clear(s, a.base, a.base + a.len),
         \A v \in UserPages : a.base <= v /\ v < a.base + a.len => pte[d][v] \in Frames
  PROVE  InsertAlloc(s, a) \in Seq(Allocs) /\ Backed(InsertAlloc(s, a), d)
<1>0. /\ Len(s) \in Nat
      /\ \A i \in 1..Len(s) :
           /\ s[i] \in Allocs /\ s[i].base \in 1..NPages /\ s[i].len \in 1..NPages
           /\ s[i].base + s[i].len <= NPages
  BY LenProperties, AllocPagesUser
<1>1. PICK I : I = {i \in 1..Len(s) : s[i].base >= a.base}
  OBVIOUS
<1>2. PICK k : k = IF I # {} THEN Min(I) ELSE 0
  OBVIOUS
<1>3. PICK n : n = IF k = 0 THEN Len(s) + 1 ELSE k
  OBVIOUS
<1>4. InsertAlloc(s, a) = InsertAt(s, n, a)
  BY <1>1, <1>2, <1>3 DEF InsertAlloc, SelectInSeq
<1>5. (k = 0 <=> I = {}) /\ (k # 0 => k \in I /\ \A i \in I : k <= i)
  BY <1>0, <1>1, <1>2, FirstPlace
<1>6. a.base \in UserPages /\ a.len \in 1..NPages /\ a.base + a.len <= NPages
  BY DEF Allocs
<1>7. PICK b, l : b = a.base /\ l = a.len
  OBVIOUS
<1>8. b \in 1..(NPages - 1) /\ l \in 1..NPages /\ b + l <= NPages /\ NPages \in Nat
  BY <1>6, <1>7, Numbers
<1>9. /\ n \in 1..Len(s) + 1
      /\ \A i \in 1..Len(s) : IF i < n THEN s[i].base < b ELSE s[i].base >= b
  <2>1. CASE k = 0
    <3>1. n = Len(s) + 1 /\ n \in 1..Len(s) + 1 /\ \A i \in 1..Len(s) : i < n
      BY <1>0, <1>3, <2>1
    <3>2. \A i \in 1..Len(s) : ~(s[i].base >= b)
      BY <1>1, <1>5, <1>7, <2>1
    <3>3. \A i \in 1..Len(s) : s[i].base < b
      BY <1>0, <1>8, <3>2
    <3> QED BY <3>1, <3>3
  <2>2. CASE k # 0
    <3>1. n \in 1..Len(s) /\ s[n].base >= b
          /\ \A i \in 1..Len(s) : s[i].base >= b => n <= i
      BY <1>1, <1>3, <1>5, <1>7, <2>2
    <3>2. \A i \in 1..Len(s) : n < i => s[n].base + s[n].len <= s[i].base
      BY <3>1 DEF Backed
    <3>3. \A i \in 1..Len(s) : n < i => s[i].base >= b
      BY <1>0, <1>8, <3>1, <3>2, SMTT(20)
    <3> QED BY <1>0, <1>8, <3>1, <3>3
  <2> QED BY <2>1, <2>2
<1>10. \A i \in 1..Len(s) :
         IF i < n THEN s[i].base + s[i].len <= b ELSE b + l <= s[i].base
  <2> SUFFICES ASSUME NEW i \in 1..Len(s)
               PROVE  IF i < n THEN s[i].base + s[i].len <= b ELSE b + l <= s[i].base
    OBVIOUS
  <2>0. PICK x, y : x = s[i].base /\ y = s[i].len
    OBVIOUS
  <2>1. x \in 1..NPages /\ y \in 1..NPages
    BY <1>0, <2>0
  <2>2. AllocPages(s[i]) = x..(x + y - 1)
    BY <2>0 DEF AllocPages
  <2>3. \A v \in x..(x + y - 1) : v < b \/ v >= b + l
    BY <1>7, <2>2 DEF Clear
  <2>4. CASE i < n
    <3>1. x < b
      BY <1>9, <2>0, <2>4
    <3>2. CASE x + y <= b
      BY <2>0, <2>4, <3>2
    <3>3. CASE x + y > b
      <4>1. b \in x..(x + y - 1)
        BY <1>8, <2>1, <3>1, <3>3
      <4> QED BY <1>8, <2>3, <4>1
    <3> QED BY <1>8, <2>1, <3>2, <3>3
  <2>5. CASE ~(i < n)
    <3>1. x >= b
      BY <1>9, <2>0, <2>5
    <3>2. x \in x..(x + y - 1)
      BY <2>1
    <3>3. x >= b + l
      BY <1>8, <2>1, <2>3, <3>1, <3>2
    <3> QED BY <1>8, <2>0, <2>1, <2>5, <3>3
  <2> QED BY <2>4, <2>5
<1>11. PICK r : r = InsertAt(s, n, a)
  OBVIOUS
<1>12. /\ r \in Seq(Allocs) /\ Len(r) = Len(s) + 1
       /\ \A j \in 1..Len(s) + 1 :
            r[j] = IF j < n THEN s[j] ELSE IF j = n THEN a ELSE s[j - 1]
  BY <1>9, <1>11, InsertAtProperties, SMTT(20)
<1>13. \A i, j \in 1..Len(r) : i < j => r[i].base + r[i].len <= r[j].base
  <2> SUFFICES ASSUME NEW i \in 1..Len(s) + 1, NEW j \in 1..Len(s) + 1, i < j
               PROVE  r[i].base + r[i].len <= r[j].base
    BY <1>12
  <2>1. r[i] = IF i < n THEN s[i] ELSE IF i = n THEN a ELSE s[i - 1]
    BY <1>12
  <2>2. r[j] = IF j < n THEN s[j] ELSE IF j = n THEN a ELSE s[j - 1]
    BY <1>12
  <2>3. \A x, y \in 1..Len(s) : x < y => s[x].base + s[x].len <= s[y].base
    BY DEF Backed
  <2>4. CASE j < n
    BY <1>0, <1>9, <2>1, <2>2, <2>3, <2>4
  <2>5. CASE j = n
    BY <1>0, <1>7, <1>9, <1>10, <2>1, <2>2, <2>5
  <2>6. CASE j > n /\ i = n
    BY <1>0, <1>7, <1>9, <1>10, <2>1, <2>2, <2>6
  <2>7. CASE j > n /\ i < n
    BY <1>0, <1>9, <2>1, <2>2, <2>3, <2>7
  <2>8. CASE i > n
    BY <1>0, <1>9, <2>1, <2>2, <2>3, <2>8
  <2> QED BY <1>0, <1>9, <2>4, <2>5, <2>6, <2>7, <2>8
<1>14. \A i \in 1..Len(r) : \A v \in AllocPages(r[i]) : pte[d][v] \in Frames /\ v \notin Text
  <2> SUFFICES ASSUME NEW i \in 1..Len(s) + 1, NEW v \in AllocPages(r[i])
               PROVE  pte[d][v] \in Frames /\ v \notin Text
    BY <1>12
  <2>1. CASE i = n
    <3>1. r[i] = a
      BY <1>9, <1>12, <2>1
    <3>2. v \in b..(b + l - 1)
      BY <1>7, <3>1 DEF AllocPages
    <3>3. v \in UserPages /\ b <= v /\ v < b + l
      BY <1>8, <3>2, Numbers
    <3>4. ~(v < b \/ v >= b + l)
      BY <1>8, <3>3, Numbers
    <3> QED BY <1>7, <3>3, <3>4 DEF Clear
  <2>2. CASE i # n
    <3>1. PICK j \in 1..Len(s) : r[i] = s[j]
      BY <1>0, <1>9, <1>12, <2>2
    <3> QED BY <3>1 DEF Backed
  <2> QED BY <2>1, <2>2
<1> QED BY <1>4, <1>11, <1>12, <1>13, <1>14 DEF Backed

\* One of the pages cannot be mapped.
LEMMA NewPageFailKeeps ==
  ASSUME MemInv, NEW p \in Procs, NewPageFail(p), UNCHANGED lost
  PROVE  MemInv'
<1>1. /\ job[p].op = "new" /\ UndoNew(p, job[p].next)
      /\ UNCHANGED <<pool, pte, readonly, proc, dir, alloc, checked, saved>>
  BY DEF NewPageFail
<1> QED BY <1>1, UndoNewKeeps

\* The allocation is recorded, or new_pages gives up.
LEMMA NewDoneKeeps ==
  ASSUME MemInv, NEW p \in Procs, NewDone(p), UNCHANGED lost
  PROVE  MemInv'
<1>1. /\ proc[p] = "live" /\ job[p].op = "new" /\ dir[p] \in Dirs /\ MemType
      /\ CallOK(p) /\ job[p].dir = NoDir /\ NewOK(p) /\ job[p] \in Jobs
  BY LiveDir DEF NewDone, MemInv, CallOK, Plain
<1>2. PICK b, l, d : b = job[p].base /\ l = job[p].len /\ d = dir[p]
  OBVIOUS
<1>3. UNCHANGED <<pool, pte, readonly, proc, dir, checked, lost>> /\ job[p].next = l
  BY <1>2 DEF NewDone
<1>4. CASE UndoNew(p, job[p].len) /\ UNCHANGED <<alloc, saved>>
  BY <1>1, <1>2, <1>3, <1>4, UndoNewKeeps
<1>5. CASE /\ alloc' = [alloc EXCEPT ![p] = InsertAlloc(@, [base |-> b, len |-> l])]
           /\ Goto(p, User)
           /\ saved' = [saved EXCEPT ![p] = Blank]
  <2>1. First(p) = b /\ Limit(p) = b + l
    <3>1. b \in Nat
      BY <1>1, <1>2, Numbers DEF Jobs
    <3> QED BY <1>1, <1>2, <1>3, <3>1 DEF First, Limit
  <2>2. /\ b \in UserPages /\ l \in 1..NPages /\ b + l <= NPages
        /\ Clear(alloc[p], b, b + l)
        /\ \A v \in UserPages : b <= v /\ v < b + l => pte[d][v] \in Frames
    <3>1. b \in Pages /\ l \in 0..NPages
      BY <1>1, <1>2 DEF Jobs
    <3> QED BY <1>1, <1>2, <1>3, <2>1, <3>1, Numbers DEF NewOK
  <2>3. PICK a : a = [base |-> b, len |-> l]
    OBVIOUS
  <2>4. a \in Allocs /\ a.base = b /\ a.len = l
    BY <2>2, <2>3 DEF Allocs
  <2>5. alloc'[p] = InsertAlloc(alloc[p], a) /\ alloc[p] \in Seq(Allocs)
        /\ \A q \in Procs \ {p} : alloc'[q] = alloc[q]
    BY <1>1, <1>5, <2>3 DEF MemType
  <2>6. InsertAlloc(alloc[p], a) \in Seq(Allocs) /\ Backed(InsertAlloc(alloc[p], a), d)
    BY <1>1, <1>2, <2>2, <2>4, <2>5, InsertAllocBacked DEF CallOK
  <2>7. alloc' \in [Procs -> Seq(Allocs)]
    BY <1>1, <1>5, <2>3, <2>6 DEF MemType
  <2>8. /\ job' \in [Procs -> Jobs] /\ job'[p] = User
        /\ \A q \in Procs \ {p} : job'[q] = job[q]
    BY <1>1, <1>5, GotoEffect, UserFields
  <2>9. /\ saved' \in [Procs -> [UserPages -> Entries]]
        /\ \A q \in Procs \ {p} : saved'[q] = saved[q]
    BY <1>1, <1>5, NotFrames DEF MemType, Blank
  <2>10. MemType'
    BY <1>1, <1>3, <2>7, <2>8, <2>9 DEF MemType
  <2>11. Local(p, d)
    BY <1>1, <1>2, <1>3, <2>5, <2>8, <2>9, UserFields DEF Local, Plain
  <2>12. Backed(alloc[p], dir[p])'
    BY <1>2, <1>3, <2>5, <2>6 DEF Backed, TextOK
  <2>13. CallOK(p)'
    BY <2>8, <2>12, UserFields DEF CallOK, Destructs
  <2> QED BY <1>1, <1>2, <1>3, <2>10, <2>11, <2>13, FramesStay, LocalKeeps
<1> QED BY <1>2, <1>4, <1>5 DEF NewDone


\* new_pages unmaps a page again.
LEMMA NewUndoKeeps ==
  ASSUME MemInv, NEW p \in Procs, NewUndo(p)
  PROVE  MemInv'
<1>1. /\ proc[p] = "live" /\ job[p].op = "new_undo" /\ dir[p] \in Dirs /\ MemType
      /\ CallOK(p) /\ job[p].dir = NoDir /\ NewOK(p) /\ job[p] \in Jobs
  BY LiveDir DEF NewUndo, MemInv, CallOK, Plain
<1>2. PICK b, n, l, d : b = job[p].base /\ n = job[p].next /\ l = job[p].len /\ d = dir[p]
  OBVIOUS
<1>3. /\ First(p) = b + n /\ Limit(p) = b + l
      /\ b \in 1..(NPages - 1) /\ n \in 0..NPages /\ l \in 0..NPages /\ b + l <= NPages
      /\ n < l /\ d \in Dirs
  <2>1. First(p) = b + n /\ Limit(p) = b + l
    BY <1>1, <1>2 DEF First, Limit
  <2>2. b \in Pages /\ n \in 0..NPages /\ l \in 0..NPages
    BY <1>1, <1>2 DEF Jobs
  <2>3. n < l
    BY <1>2 DEF NewUndo
  <2>4. b + l <= NPages /\ (b + l # b => b > 0)
    BY <1>1, <1>2, <2>1 DEF NewOK
  <2>5. b \in 1..(NPages - 1)
    BY <2>2, <2>3, <2>4, Numbers
  <2> QED BY <1>1, <1>2, <2>1, <2>2, <2>3, <2>4, <2>5
<1>4. PICK v : v = Current(p)
  OBVIOUS
<1>5. v = b + n /\ v \in UserPages
  <2>1. b + n < NPages /\ b + n <= NPages /\ b + n \in 1..(NPages - 1)
    BY <1>3, Numbers
  <2>2. Current(p) = IF job[p].base + job[p].next < NPages
                     THEN job[p].base + job[p].next ELSE 0
    BY <1>1, <1>2, <2>1, CurrentPage
  <2> QED BY <1>2, <1>4, <2>1, <2>2, Numbers
<1>6. Release(d, v) /\ Advance(p) /\ UNCHANGED <<readonly, proc, dir, alloc, checked, saved>>
  BY <1>2, <1>4 DEF NewUndo
<1>7. PoolType' /\ FramesOK' /\ pte'[d][v] = Unavailable /\ Edits(d, v)
  BY <1>3, <1>5, <1>6, ReleaseKeeps, Pool
<1>8. /\ job' \in [Procs -> Jobs]
      /\ job'[p].op = "new_undo" /\ job'[p].child = job[p].child
      /\ job'[p].dir = NoDir /\ job'[p].base = b
      /\ job'[p].len = l /\ job'[p].next = n + 1
      /\ \A q \in Procs \ {p} : job'[q] = job[q]
  BY <1>1, <1>2, <1>3, <1>6, AdvanceEffect, Numbers
<1>9. MemType'
  BY <1>1, <1>6, <1>7, <1>8 DEF MemType, PoolType
<1>10. Local(p, d)
  BY <1>1, <1>2, <1>3, <1>5, <1>6, <1>7, <1>8, EditsDir, Pool DEF Local
<1>11. Clear(alloc[p], b, b + l)
  BY <1>1, <1>2, <1>3 DEF NewOK
<1>12. NewOK(p)'
  <2>1. First(p)' = b + n + 1 /\ Limit(p)' = b + l
    BY <1>3, <1>8, Numbers DEF First, Limit
  <2>2. \A w \in UserPages :
          IF b + n + 1 <= w /\ w < b + l
          THEN pte'[d][w] \in Frames /\ saved[p][w] = Unavailable
          ELSE pte'[d][w] = saved[p][w]
    <3> SUFFICES ASSUME NEW w \in UserPages
                 PROVE  IF b + n + 1 <= w /\ w < b + l
                        THEN pte'[d][w] \in Frames /\ saved[p][w] = Unavailable
                        ELSE pte'[d][w] = saved[p][w]
      OBVIOUS
    <3>1. IF b + n <= w /\ w < b + l
          THEN pte[d][w] \in Frames /\ saved[p][w] = Unavailable
          ELSE pte[d][w] = saved[p][w]
      BY <1>1, <1>2, <1>3 DEF NewOK
    <3>2. CASE w = v
      BY <1>3, <1>5, <1>7, <3>1, <3>2, Numbers
    <3>3. CASE w # v
      <4>1. pte'[d][w] = pte[d][w]
        BY <1>3, <1>7, <3>3 DEF Edits
      <4> QED BY <1>3, <1>5, <3>1, <3>3, <4>1, Numbers
    <3> QED BY <3>2, <3>3
  <2>3. Clear(alloc[p], b, b + l)'
    BY <1>6, <1>11 DEF Clear
  <2>4. n + 1 <= l /\ b > 0
    BY <1>3, Numbers
  <2> QED BY <1>2, <1>3, <1>6, <1>8, <2>1, <2>2, <2>3, <2>4 DEF NewOK
<1>13. Backed(alloc[p], dir[p])'
  <2>1. v \notin Text /\ \A i \in 1..Len(alloc[p]) : v \notin AllocPages(alloc[p][i])
    <3>1. b <= v /\ v < b + l
      BY <1>3, <1>5, Numbers
    <3>2. ~(v < b \/ v >= b + l)
      BY <1>3, <1>5, <3>1, Numbers
    <3> QED BY <1>11, <3>2 DEF Clear
  <2> QED BY <1>1, <1>2, <1>3, <1>5, <1>6, <1>7, <2>1, BackedKeeps DEF CallOK, MemType
<1>14. CallOK(p)'
  BY <1>8, <1>12, <1>13 DEF CallOK, Destructs
<1> QED BY <1>3, <1>7, <1>9, <1>10, <1>14, LocalKeeps

\* A call ends, or stops at a page fault it cannot handle.
LEMMA ReturnKeeps ==
  ASSUME MemInv, NEW p \in Procs, proc[p] = "live", job[p].op \in Plain,
         Goto(p, User) \/ Goto(p, [User EXCEPT !.op = "stuck"]),
         checked' \in [Procs -> Pages], saved' \in [Procs -> [UserPages -> Entries]],
         \A q \in Procs \ {p} : saved'[q] = saved[q],
         UNCHANGED <<pool, pte, readonly, proc, dir, alloc, lost>>
  PROVE  MemInv'
<1>1. MemType /\ dir[p] \in Dirs /\ CallOK(p) /\ job[p].dir = NoDir
  BY LiveDir DEF MemInv
<1>2. PICK j \in Jobs : Goto(p, j) /\ j.op \in {"user", "stuck"} /\ j.dir = NoDir
  BY UserFields
<1>3. /\ job' \in [Procs -> Jobs] /\ job'[p] = j
      /\ \A q \in Procs \ {p} : job'[q] = job[q]
  BY <1>1, <1>2, GotoEffect
<1>4. MemType'
  BY <1>1, <1>3 DEF MemType
<1>5. Local(p, dir[p])
  BY <1>1, <1>2, <1>3 DEF Local, Plain
<1>6. Backed(alloc[p], dir[p])'
  BY <1>1 DEF CallOK, Backed, TextOK, Plain
<1>7. CallOK(p)'
  BY <1>2, <1>3, <1>6 DEF CallOK, Destructs
<1> QED BY <1>1, <1>4, <1>5, <1>7, FramesStay, LocalKeeps

\* new_pages has undone what it did.
LEMMA NewFailedKeeps ==
  ASSUME MemInv, NEW p \in Procs, NewFailed(p), UNCHANGED lost
  PROVE  MemInv'
<1>1. /\ MemType /\ proc[p] = "live" /\ job[p].op \in Plain
  BY LiveDir DEF MemInv, NewFailed, Plain
<1>2. /\ saved' \in [Procs -> [UserPages -> Entries]]
      /\ \A q \in Procs \ {p} : saved'[q] = saved[q]
  BY <1>1, NotFrames DEF MemType, NewFailed, Blank
<1>3. checked' \in [Procs -> Pages]
  BY <1>1 DEF NewFailed, MemType
<1> QED BY <1>1, <1>2, <1>3, ReturnKeeps DEF NewFailed

\* remove_pages is done.
LEMMA RemoveDoneKeeps ==
  ASSUME MemInv, NEW p \in Procs, RemoveDone(p), UNCHANGED lost
  PROVE  MemInv'
<1>1. /\ MemType /\ proc[p] = "live" /\ job[p].op \in Plain
  BY LiveDir DEF MemInv, RemoveDone, Plain
<1>2. checked' \in [Procs -> Pages] /\ saved' \in [Procs -> [UserPages -> Entries]]
      /\ \A q \in Procs \ {p} : saved'[q] = saved[q]
  BY <1>1 DEF RemoveDone, MemType
<1> QED BY <1>1, <1>2, ReturnKeeps DEF RemoveDone

\* deschedule finds the page of *reject readable.
LEMMA DescheduleCheckKeeps ==
  ASSUME MemInv, NEW p \in Procs, NEW v \in UserPages, DescheduleCheck(p, v), UNCHANGED lost
  PROVE  MemInv'
<1>1. MemType /\ proc[p] = "live" /\ dir[p] \in Dirs /\ CallOK(p) /\ v \in Pages
  BY LiveDir, Numbers DEF MemInv, DescheduleCheck
<1>2. UNCHANGED <<pool, pte, readonly, proc, dir, alloc, job, saved, lost>>
      /\ checked' \in [Procs -> Pages]
  BY <1>1 DEF DescheduleCheck, MemType
<1>3. MemType'
  BY <1>1, <1>2 DEF MemType
<1>4. Local(p, dir[p])
  BY <1>1, <1>2 DEF Local
<1>5. CallOK(p)'
  BY <1>2, CallFrame
<1> QED BY <1>1, <1>2, <1>3, <1>4, <1>5, FramesStay, LocalKeeps

\* deschedule reads *reject.
LEMMA DescheduleReadKeeps ==
  ASSUME MemInv, NEW p \in Procs, DescheduleRead(p), UNCHANGED lost
  PROVE  MemInv'
<1>1. /\ MemType /\ proc[p] = "live" /\ job[p].op \in Plain
  BY DEF MemInv, DescheduleRead, MayCall, Plain
<1>2. checked' \in [Procs -> Pages]
  BY <1>1, Numbers DEF MemType, DescheduleRead
<1>3. Goto(p, User) \/ Goto(p, [User EXCEPT !.op = "stuck"])
  BY DEF DescheduleRead
<1>4. saved' \in [Procs -> [UserPages -> Entries]]
      /\ UNCHANGED <<pool, pte, readonly, proc, dir, alloc, saved, lost>>
  BY <1>1 DEF MemType, DescheduleRead
<1> QED BY <1>1, <1>2, <1>3, <1>4, ReturnKeeps

\* new_pages cannot read its arguments.
LEMMA NewPagesArgsKeeps ==
  ASSUME MemInv, NEW p \in Procs, NEW v \in UserPages, NewPagesArgs(p, v), UNCHANGED lost
  PROVE  MemInv'
<1>1. /\ MemType /\ proc[p] = "live" /\ job[p].op \in Plain
  BY DEF MemInv, NewPagesArgs, MayCall, Plain
<1>2. checked' \in [Procs -> Pages] /\ saved' \in [Procs -> [UserPages -> Entries]]
      /\ \A q \in Procs \ {p} : saved'[q] = saved[q]
  BY <1>1 DEF NewPagesArgs, MemType
<1> QED BY <1>1, <1>2, ReturnKeeps DEF NewPagesArgs

\* An allocation is taken out of the list; the others have none of its pages.
LEMMA RemoveAllocBacked ==
  ASSUME NEW s \in Seq(Allocs), NEW d, Backed(s, d), NEW k \in 1..Len(s)
  PROVE  /\ RemoveAt(s, k) \in Seq(Allocs) /\ Backed(RemoveAt(s, k), d)
         /\ Clear(RemoveAt(s, k), s[k].base, s[k].base + s[k].len)
<1>0. /\ Len(s) \in Nat
      /\ \A i \in 1..Len(s) :
           /\ s[i] \in Allocs /\ s[i].base \in 1..NPages /\ s[i].len \in 1..NPages
           /\ s[i].base + s[i].len <= NPages
  BY LenProperties, AllocPagesUser
<1>1. PICK r : r = RemoveAt(s, k)
  OBVIOUS
<1>2. /\ r \in Seq(Allocs) /\ Len(r) = Len(s) - 1
      /\ \A j \in 1..Len(s) - 1 : r[j] = IF j < k THEN s[j] ELSE s[j + 1]
  BY <1>1, RemoveAtProperties
<1>3. \A j \in 1..Len(r) : \E i \in 1..Len(s) : i # k /\ r[j] = s[i]
  BY <1>0, <1>2
<1>4. \A i, j \in 1..Len(s) : i < j => s[i].base + s[i].len <= s[j].base
  BY DEF Backed
<1>5. \A i, j \in 1..Len(r) : i < j => r[i].base + r[i].len <= r[j].base
  <2> SUFFICES ASSUME NEW i \in 1..Len(r), NEW j \in 1..Len(r), i < j
               PROVE  r[i].base + r[i].len <= r[j].base
    OBVIOUS
  <2>1. r[i] = IF i < k THEN s[i] ELSE s[i + 1]
    BY <1>2
  <2>2. r[j] = IF j < k THEN s[j] ELSE s[j + 1]
    BY <1>2
  <2>3. CASE j < k
    BY <1>0, <1>2, <1>4, <2>1, <2>2, <2>3
  <2>4. CASE j >= k /\ i < k
    BY <1>0, <1>2, <1>4, <2>1, <2>2, <2>4
  <2>5. CASE i >= k
    BY <1>0, <1>2, <1>4, <2>1, <2>2, <2>5
  <2> QED BY <1>0, <1>2, <2>3, <2>4, <2>5
<1>6. \A j \in 1..Len(r) : \A v \in AllocPages(r[j]) : pte[d][v] \in Frames /\ v \notin Text
  BY <1>3 DEF Backed
<1>7. \A v \in Text : v < s[k].base \/ v >= s[k].base + s[k].len
  <2> SUFFICES ASSUME NEW v \in Text
               PROVE  v < s[k].base \/ v >= s[k].base + s[k].len
    OBVIOUS
  <2>1. v \in Nat /\ v \notin AllocPages(s[k])
    BY Numbers DEF Backed, Text
  <2> QED BY <1>0, <2>1, Numbers DEF AllocPages
<1>8. Clear(r, s[k].base, s[k].base + s[k].len)
  <2> SUFFICES ASSUME NEW j \in 1..Len(r), NEW v \in AllocPages(r[j])
               PROVE  v < s[k].base \/ v >= s[k].base + s[k].len
    BY <1>7 DEF Clear
  <2>1. PICK i \in 1..Len(s) : i # k /\ r[j] = s[i]
    BY <1>3
  <2>2. PICK x, y, b, l : x = s[i].base /\ y = s[i].len /\ b = s[k].base /\ l = s[k].len
    OBVIOUS
  <2>3. x \in Nat /\ y \in Nat /\ b \in Nat /\ l \in Nat
    BY <1>0, <2>2
  <2>4. v \in x..(x + y - 1)
    BY <2>1, <2>2 DEF AllocPages
  <2>5. x + y <= b \/ b + l <= x
    BY <1>0, <1>4, <2>1, <2>2, SMTT(20)
  <2>6. v < b \/ v >= b + l
    BY <2>3, <2>4, <2>5
  <2> QED BY <2>2, <2>6
<1> QED BY <1>1, <1>2, <1>5, <1>6, <1>8 DEF Backed

\* remove_pages finds the allocation and takes it out of the list.
LEMMA RemovePagesKeeps ==
  ASSUME MemInv, NEW p \in Procs, NEW base \in UserPages, RemovePages(p, base), UNCHANGED lost
  PROVE  MemInv'
<1>1. PICK i \in Visited(alloc[p], base) :
        /\ MayCall(p, "remove_pages")
        /\ alloc[p][i].base = base
        /\ alloc' = [alloc EXCEPT ![p] = RemoveAt(@, i)]
        /\ Goto(p, Job("remove", NoProc, NoDir, base, alloc[p][i].len, 0))
        /\ UNCHANGED <<pool, pte, readonly, proc, dir, checked, saved>>
  BY DEF RemovePages
<1>2. /\ proc[p] = "live" /\ job[p].op = "user" /\ dir[p] \in Dirs /\ MemType
      /\ CallOK(p) /\ job[p].dir = NoDir
  BY <1>1, LiveDir DEF MayCall, MemInv, Plain
<1>3. alloc[p] \in Seq(Allocs) /\ i \in 1..Len(alloc[p])
  BY <1>1, <1>2 DEF MemType, Visited
<1>4. PICK s, l, d, r : s = alloc[p] /\ l = alloc[p][i].len /\ d = dir[p] /\ r = RemoveAt(s, i)
  OBVIOUS
<1>5. base \in 1..NPages /\ l \in 1..NPages /\ base + l <= NPages
  BY <1>1, <1>3, <1>4, AllocPagesUser
<1>6. r \in Seq(Allocs) /\ Backed(r, d) /\ Clear(r, base, base + l)
  BY <1>1, <1>2, <1>3, <1>4, RemoveAllocBacked DEF CallOK
<1>7. PICK j : j = Job("remove", NoProc, NoDir, base, l, 0)
  OBVIOUS
<1>8. /\ j \in Jobs /\ j.op = "remove" /\ j.dir = NoDir
      /\ j.base = base /\ j.len = l /\ j.next = 0
  <2>1. "remove" \in JobOps /\ 0 \in 0..NPages /\ l \in 0..NPages /\ base \in Pages
    BY <1>5, Numbers DEF JobOps
  <2>2. NoProc \in Procs \cup {NoProc} /\ NoDir \in Dirs \cup {NoDir}
    OBVIOUS
  <2> QED BY ONLY <1>7, <2>1, <2>2, JobFields
<1>9. /\ job' \in [Procs -> Jobs] /\ job'[p] = j
      /\ \A q \in Procs \ {p} : job'[q] = job[q]
  BY <1>1, <1>2, <1>4, <1>7, <1>8, GotoEffect
<1>10. /\ alloc' \in [Procs -> Seq(Allocs)] /\ alloc'[p] = r
       /\ \A q \in Procs \ {p} : alloc'[q] = alloc[q]
  BY <1>1, <1>2, <1>4, <1>6 DEF MemType
<1>11. MemType'
  BY <1>1, <1>2, <1>9, <1>10 DEF MemType
<1>12. Local(p, d)
  BY <1>1, <1>2, <1>4, <1>8, <1>9, <1>10 DEF Local, Plain
<1>13. Backed(alloc[p], dir[p])'
  BY <1>1, <1>4, <1>6, <1>10 DEF Backed, TextOK
<1>14. RemoveOK(p)'
  BY <1>5, <1>6, <1>8, <1>9, <1>10 DEF RemoveOK, Clear
<1>15. CallOK(p)'
  BY <1>8, <1>9, <1>13, <1>14 DEF CallOK, Destructs
<1> QED BY <1>1, <1>2, <1>4, <1>11, <1>12, <1>15, FramesStay, LocalKeeps

\* remove_pages unmaps a page.
LEMMA RemovePageKeeps ==
  ASSUME MemInv, NEW p \in Procs, RemovePage(p)
  PROVE  MemInv'
<1>1. /\ proc[p] = "live" /\ job[p].op = "remove" /\ dir[p] \in Dirs /\ MemType
      /\ CallOK(p) /\ job[p].dir = NoDir /\ RemoveOK(p) /\ job[p] \in Jobs
  BY LiveDir DEF RemovePage, MemInv, CallOK, Plain
<1>2. PICK b, n, l, d : b = job[p].base /\ n = job[p].next /\ l = job[p].len /\ d = dir[p]
  OBVIOUS
<1>3. /\ b \in 1..(NPages - 1) /\ n \in 0..NPages /\ l \in 0..NPages /\ b + l <= NPages
      /\ n < l /\ d \in Dirs /\ Clear(alloc[p], b, b + l)
  <2>2. b \in Pages /\ n \in 0..NPages /\ l \in 0..NPages
    BY <1>1, <1>2 DEF Jobs
  <2> QED BY <1>1, <1>2, <2>2, Numbers DEF RemovePage, RemoveOK
<1>4. PICK v : v = Current(p)
  OBVIOUS
<1>5. v = b + n /\ v \in UserPages
  <2>1. b + n <= NPages /\ b + n < NPages /\ b + n \in UserPages
    BY <1>3, Numbers
  <2>2. Current(p) = b + n
    BY <1>1, <1>2, <2>1, CurrentPage
  <2> QED BY <1>4, <2>1, <2>2
<1>6. UNCHANGED <<readonly, proc, dir, alloc, checked, saved>>
  BY DEF RemovePage
<1>7. CASE Goto(p, User) /\ UNCHANGED <<pool, pte, lost>>
  BY <1>1, <1>6, <1>7, ReturnKeeps DEF MemType, Plain
<1>8. CASE Release(d, v) /\ Advance(p)
  <2>1. PoolType' /\ FramesOK' /\ pte'[d][v] = Unavailable /\ Edits(d, v)
    BY <1>3, <1>5, <1>8, ReleaseKeeps, Pool
  <2>2. /\ job' \in [Procs -> Jobs]
        /\ job'[p].op = "remove" /\ job'[p].child = job[p].child
        /\ job'[p].dir = NoDir /\ job'[p].base = b
        /\ job'[p].len = l /\ job'[p].next = n + 1
        /\ \A q \in Procs \ {p} : job'[q] = job[q]
    BY <1>1, <1>2, <1>3, <1>8, AdvanceEffect, Numbers
  <2>3. MemType'
    BY <1>1, <1>6, <2>1, <2>2 DEF MemType, PoolType
  <2>4. Local(p, d)
    BY <1>1, <1>2, <1>3, <1>5, <1>6, <2>1, <2>2, EditsDir, Pool DEF Local
  <2>5. RemoveOK(p)'
    BY <1>3, <1>6, <2>2, Numbers DEF RemoveOK, Clear
  <2>6. Backed(alloc[p], dir[p])'
    <3>1. v \notin Text /\ \A i \in 1..Len(alloc[p]) : v \notin AllocPages(alloc[p][i])
      <4>1. b <= v /\ v < b + l /\ ~(v < b \/ v >= b + l)
        BY <1>3, <1>5, Numbers
      <4> QED BY <1>3, <4>1 DEF Clear
    <3> QED BY <1>1, <1>2, <1>3, <1>5, <1>6, <2>1, <3>1, BackedKeeps DEF CallOK, MemType
  <2>7. CallOK(p)'
    BY <2>2, <2>5, <2>6 DEF CallOK, Destructs
  <2> QED BY <1>3, <2>1, <2>3, <2>4, <2>7, LocalKeeps
<1> QED BY <1>2, <1>4, <1>7, <1>8 DEF RemovePage


\* handle_page_fault maps the zero frame or a new one.
LEMMA PageFaultKeeps ==
  ASSUME MemInv, NEW p \in Procs, NEW v \in UserPages, NEW write \in BOOLEAN,
         PageFault(p, v, write), UNCHANGED lost
  PROVE  MemInv'
<1>1. /\ proc[p] = "live" /\ job[p].op = "user" /\ dir[p] \in Dirs /\ MemType
      /\ CallOK(p) /\ job[p].dir = NoDir
  BY LiveDir DEF PageFault, MayCall, MemInv, Plain
<1>2. PICK d : d = dir[p]
  OBVIOUS
<1>3. UNCHANGED <<readonly, proc, dir, alloc, job, checked, saved, lost>>
  BY DEF PageFault, ResolveFault
<1>4. pte[d][v] \notin Frames
  BY <1>2, NotFrames DEF PageFault, ResolveFault, Entry
<1>5. \/ MapOther(d, v, Zero) \/ MapNewFrame(d, v) \/ MapOther(d, v, Available)
  BY <1>2 DEF PageFault, ResolveFault
<1>6. PoolType' /\ FramesOK' /\ Edits(d, v)
  <2>1. CASE MapNewFrame(d, v)
    BY <1>1, <1>2, <1>3, <1>4, <2>1, Pool, MapNewFrameKeeps
  <2>2. CASE MapOther(d, v, Zero)
    BY <1>1, <1>2, <1>3, <1>4, <2>2, Pool, MapOtherKeeps, NotFrames
  <2>3. CASE MapOther(d, v, Available)
    BY <1>1, <1>2, <1>3, <1>4, <2>3, Pool, MapOtherKeeps, NotFrames
  <2> QED BY <1>5, <2>1, <2>2, <2>3
<1>7. MemType'
  BY <1>1, <1>3, <1>6 DEF MemType, PoolType
<1>8. Local(p, d)
  BY <1>1, <1>2, <1>3, <1>6, EditsDir, Pool DEF Local
<1>9. Backed(alloc[p], dir[p])'
  BY <1>1, <1>2, <1>3, <1>4, <1>6, BackedKeeps DEF CallOK, MemType
<1>10. CallOK(p)'
  BY <1>1, <1>3, <1>9 DEF CallOK, Destructs
<1> QED BY <1>1, <1>2, <1>6, <1>7, <1>8, <1>10, LocalKeeps

\* destruct_page_dir releases a page.
LEMMA DestructPageKeeps ==
  ASSUME MemInv, NEW p \in Procs, DestructPage(p)
  PROVE  MemInv'
<1>1. /\ job[p].op \in Destructs /\ job[p].next < NPages /\ MemType
      /\ Release(job[p].dir, job[p].next)
      /\ readonly' = [readonly EXCEPT ![job[p].dir] = @ \ {job[p].next}]
      /\ Advance(p)
      /\ UNCHANGED <<proc, dir, alloc, checked, saved>>
  BY DEF DestructPage, MemInv
<1>2. /\ job[p] \in Jobs /\ OwnDir(p) /\ CallOK(p) /\ job[p].dir \in Dirs
      /\ job[p].op \in {"exec_undo", "fork_undo", "exec_free"} =>
           proc[p] = "live" /\ dir[p] \in Dirs /\ dir[p] # job[p].dir
      /\ job[p].op = "reap" => proc[p] = "reaped"
  BY <1>1, LiveDir DEF Destructs, Plain, OwnDir, SingleThread
<1>3. PICK d, v : d = job[p].dir /\ v = job[p].next
  OBVIOUS
<1>4. d \in Dirs /\ v \in UserPages
  BY <1>1, <1>2, <1>3, Numbers DEF CallOK, DestructOK, Jobs
<1>5. PoolType' /\ FramesOK' /\ pte'[d][v] = Unavailable /\ Edits(d, v)
  BY <1>1, <1>3, <1>4, ReleaseKeeps, Pool
<1>6. /\ job' \in [Procs -> Jobs]
      /\ job'[p].op = job[p].op /\ job'[p].child = job[p].child
      /\ job'[p].dir = d /\ job'[p].next = v + 1
      /\ \A q \in Procs \ {p} : job'[q] = job[q]
  BY <1>1, <1>3, AdvanceEffect
<1>7. /\ readonly' \in [Dirs -> SUBSET UserPages] /\ readonly'[d] = readonly[d] \ {v}
      /\ \A e \in Dirs \ {d} : readonly'[e] = readonly[e]
  BY <1>1, <1>3, <1>4 DEF MemType
<1>8. \A e \in Dirs \ {d} : pte'[e] = pte[e]
  BY <1>4, <1>5, EditsDir, Pool
<1>9. MemType'
  BY <1>1, <1>5, <1>6, <1>7 DEF MemType, PoolType
<1>10. Local(p, d)
  BY <1>1, <1>3, <1>6, <1>7, <1>8 DEF Local
<1>11. DestructOK(p)'
  <2> SUFFICES ASSUME NEW w \in UserPages, w < v + 1
               PROVE  pte'[d][w] = Unavailable /\ w \notin readonly'[d]
    BY <1>4, <1>6, Numbers DEF DestructOK
  <2>1. CASE w = v
    BY <1>5, <1>7, <2>1
  <2>2. CASE w # v
    <3>1. w < v
      BY <1>4, <2>2, Numbers
    <3>2. pte[d][w] = Unavailable /\ w \notin readonly[d]
      BY <1>1, <1>2, <1>3, <3>1 DEF CallOK, DestructOK
    <3> QED BY <1>4, <1>5, <1>7, <2>2, <3>2 DEF Edits
  <2> QED BY <2>1, <2>2
<1>12. CASE job[p].op = "reap"
  <2>1. CallOK(p)'
    BY <1>1, <1>2, <1>6, <1>11, <1>12 DEF CallOK, Destructs
  <2> QED BY <1>4, <1>5, <1>9, <1>10, <2>1, LocalKeeps
<1>13. CASE job[p].op # "reap"
  <2>1. proc[p] = "live" /\ pte'[dir[p]] = pte[dir[p]] /\ readonly'[dir[p]] = readonly[dir[p]]
    BY <1>1, <1>2, <1>3, <1>7, <1>8, <1>13 DEF Destructs
  <2>2. job[p].op # "exec_free" => Backed(alloc[p], dir[p])'
    BY <1>1, <1>2, <1>13, <2>1 DEF CallOK, Backed, TextOK, Destructs
  <2>3. job[p].op = "exec_free" => TextOK(dir[p])'
    BY <1>1, <1>2, <2>1 DEF CallOK, TextOK
  <2>4. CallOK(p)'
    BY <1>1, <1>6, <1>11, <2>2, <2>3 DEF CallOK, Destructs
  <2> QED BY <1>4, <1>5, <1>9, <1>10, <2>4, LocalKeeps
<1> QED BY <1>12, <1>13

\* exec loads a page.
LEMMA ExecPageKeeps ==
  ASSUME MemInv, NEW p \in Procs, ExecPage(p), UNCHANGED lost
  PROVE  MemInv'
<1>1. /\ job[p].op = "exec" /\ job[p].next < NPages /\ MemType
      /\ Advance(p)
      /\ UNCHANGED <<proc, dir, alloc, checked, saved>>
  BY DEF ExecPage, MemInv
<1>2. /\ job[p] \in Jobs /\ CallOK(p) /\ job[p].dir \in Dirs
      /\ proc[p] = "live" /\ dir[p] \in Dirs /\ dir[p] # job[p].dir
      /\ ExecOK(p)
  BY <1>1, LiveDir DEF Plain, CallOK, SingleThread
<1>3. PICK d, v, x : d = dir[p] /\ v = job[p].next /\ x = IF Image[v] = "zero" THEN Zero ELSE Unavailable
  OBVIOUS
<1>4. d \in Dirs /\ v \in UserPages /\ x \in Entries \ Frames /\ pte[d][v] = Unavailable
  <2>1. v \in UserPages
    BY <1>1, <1>2, <1>3, Numbers DEF ExecOK, Jobs
  <2>2. pte[d][v] = Unavailable
    BY <1>2, <1>3, <2>1, Numbers DEF ExecOK
  <2> QED BY <1>2, <1>3, <2>1, <2>2, NotFrames
<1>5. /\ IF v \in Framed THEN MapNewFrame(d, v) ELSE MapOther(d, v, x)
      /\ readonly' = [readonly EXCEPT ![d] = @ \cup (Text \cap {v})]
  BY <1>3 DEF ExecPage
<1>6. PoolType' /\ FramesOK' /\ Edits(d, v) /\ (v \in Text => pte'[d][v] \in Frames)
  <2>1. CASE v \in Framed
    BY <1>4, <1>5, <2>1, MapNewFrameKeeps, Pool, NotFrames
  <2>2. CASE v \notin Framed
    BY <1>4, <1>5, <2>2, MapOtherKeeps, Pool, NotFrames DEF Framed, Text
  <2> QED BY <2>1, <2>2
<1>7. /\ job' \in [Procs -> Jobs]
      /\ job'[p].op = "exec" /\ job'[p].child = job[p].child
      /\ job'[p].dir = job[p].dir /\ job'[p].next = v + 1
      /\ \A q \in Procs \ {p} : job'[q] = job[q]
  BY <1>1, <1>3, AdvanceEffect
<1>8. /\ readonly' \in [Dirs -> SUBSET UserPages]
      /\ readonly'[d] = readonly[d] \cup (Text \cap {v})
      /\ \A e \in Dirs \ {d} : readonly'[e] = readonly[e]
  BY <1>1, <1>4, <1>5 DEF MemType, Text
<1>9. \A e \in Dirs \ {d} : pte'[e] = pte[e]
  BY <1>4, <1>6, EditsDir, Pool
<1>10. MemType'
  BY <1>1, <1>6, <1>7, <1>8 DEF MemType, PoolType
<1>11. Local(p, d)
  BY <1>1, <1>2, <1>3, <1>7, <1>8, <1>9 DEF Local
<1>12. Backed(alloc[p], job[p].dir)'
  BY <1>1, <1>2, <1>3, <1>7, <1>8, <1>9 DEF ExecOK, Backed, TextOK
<1>13. ExecOK(p)'
  <2>1. \A w \in UserPages : w >= v + 1 => pte'[d][w] = Unavailable
    <3> SUFFICES ASSUME NEW w \in UserPages, w >= v + 1
                 PROVE  pte'[d][w] = Unavailable
      OBVIOUS
    <3>1. w # v /\ w >= v
      BY <1>4, Numbers
    <3> QED BY <1>2, <1>3, <1>4, <1>6, <3>1 DEF ExecOK, Edits
  <2>2. readonly'[d] = {w \in Text : w < v + 1}
    <3>1. readonly[d] = {w \in Text : w < v}
      BY <1>2, <1>3 DEF ExecOK
    <3>2. \A w \in Text : w < v + 1 <=> w < v \/ w = v
      BY <1>4, Numbers DEF Text
    <3> QED BY <1>8, <3>1, <3>2
  <2>3. \A w \in Text : w < v + 1 => pte'[d][w] \in Frames
    <3> SUFFICES ASSUME NEW w \in Text, w < v + 1 PROVE pte'[d][w] \in Frames
      OBVIOUS
    <3>1. w \in UserPages /\ (w = v \/ w < v)
      BY <1>4, Numbers DEF Text
    <3>2. CASE w = v
      BY <1>6, <3>2
    <3>3. CASE w # v
      BY <1>2, <1>3, <1>4, <1>6, <3>1, <3>3 DEF ExecOK, Edits
    <3> QED BY <3>2, <3>3
  <2> QED BY <1>1, <1>3, <1>4, <1>7, <1>12, <2>1, <2>2, <2>3, Numbers DEF ExecOK
<1>14. CallOK(p)'
  BY <1>7, <1>13 DEF CallOK, Destructs
<1> QED BY <1>4, <1>6, <1>10, <1>11, <1>14, LocalKeeps

\* The fields of a call that releases a directory.
LEMMA DestructFields ==
  ASSUME NEW op \in Destructs, NEW child \in Procs \cup {NoProc}, NEW d \in Dirs
  PROVE  /\ Destruct(op, child, d) \in Jobs
         /\ Destruct(op, child, d).op = op
         /\ Destruct(op, child, d).child = child
         /\ Destruct(op, child, d).dir = d
         /\ Destruct(op, child, d).next = 1
<1>1. op \in JobOps /\ 0 \in Pages /\ 0 \in 0..NPages /\ 1 \in 0..NPages
  BY Numbers DEF JobOps
<1> QED BY <1>1, JobFields DEF Destruct, USER_PAGE_START

\* exec turns to the old directory.
LEMMA ExecDoneKeeps ==
  ASSUME MemInv, NEW p \in Procs, ExecDone(p), UNCHANGED lost
  PROVE  MemInv'
<1>1. /\ job[p].op = "exec" /\ job[p].next = NPages /\ MemType
      /\ Goto(p, Destruct("exec_free", NoProc, job[p].dir))
      /\ UNCHANGED <<pool, pte, readonly, proc, dir, alloc, checked, saved, lost>>
  BY DEF ExecDone, MemInv
<1>2. /\ job[p] \in Jobs /\ CallOK(p) /\ job[p].dir \in Dirs
      /\ proc[p] = "live" /\ dir[p] \in Dirs /\ ExecOK(p)
  BY <1>1, LiveDir DEF Plain, CallOK, SingleThread
<1>3. PICK j : j = Destruct("exec_free", NoProc, job[p].dir)
  OBVIOUS
<1>4. /\ j \in Jobs /\ j.op = "exec_free" /\ j.dir = job[p].dir /\ j.next = 1
  <2>1. "exec_free" \in Destructs
    BY DEF Destructs
  <2> QED BY <1>2, <1>3, <2>1, DestructFields
<1>5. /\ job' \in [Procs -> Jobs] /\ job'[p] = j
      /\ \A q \in Procs \ {p} : job'[q] = job[q]
  BY <1>1, <1>3, <1>4, GotoEffect
<1>6. MemType'
  BY <1>1, <1>5 DEF MemType
<1>7. Local(p, dir[p])
  BY <1>1, <1>2, <1>4, <1>5 DEF Local, Loose
<1>8. TextOK(dir[p])'
  <2>1. \A v \in Text : v < NPages
    BY Numbers DEF Text
  <2> QED BY <1>1, <1>2, <2>1 DEF ExecOK, TextOK
<1>9. DestructOK(p)'
  BY <1>4, <1>5, Numbers DEF DestructOK
<1>10. CallOK(p)'
  BY <1>4, <1>5, <1>8, <1>9 DEF CallOK, Destructs
<1> QED BY <1>1, <1>2, <1>6, <1>7, <1>10, FramesStay, LocalKeeps


-----------------------------------------------------------------------------
(***************************************************************************)
(* Steps that give directories to other owners.                            *)
(***************************************************************************)

\* No page of d is mapped.
BlankDir(d) == readonly[d] = {} /\ \A v \in UserPages : pte[d][v] = Unavailable

\* Such a step keeps the invariant if the directories stay private, those
\* that nobody owns any more are blank, the calls of the processes it concerns
\* (those in P) are in order, and the directories it edits (those in D) are
\* not those of others.
LEMMA StepKeeps ==
  ASSUME MemInv, MemType', FramesOK', DirsOK', NEW D, NEW P,
         \A e \in Dirs \ D : pte'[e] = pte[e] /\ readonly'[e] = readonly[e],
         \A e \in Dirs : FreeDir(e)' => (FreeDir(e) /\ e \notin D) \/ BlankDir(e)',
         \A q \in Procs \cap P : CallOK(q)',
         \A q \in Procs \ P :
           /\ job'[q] = job[q] /\ alloc'[q] = alloc[q] /\ saved'[q] = saved[q]
           /\ proc'[q] = proc[q] /\ dir'[q] = dir[q]
           /\ proc[q] = "live" => dir[q] \notin D
           /\ job[q].dir \notin D
  PROVE  MemInv'
<1>1. FreeBlank'
  <2> SUFFICES ASSUME NEW e \in Dirs, FreeDir(e)' PROVE BlankDir(e)'
    BY DEF FreeBlank, BlankDir
  <2>1. CASE FreeDir(e) /\ e \notin D
    BY <2>1 DEF MemInv, FreeBlank, BlankDir
  <2> QED BY <2>1
<1>2. ASSUME NEW q \in Procs \ P PROVE CallOK(q)'
  <2>1. (proc[q] = "live" => dir[q] \in Dirs) /\ (job[q].dir # NoDir => job[q].dir \in Dirs)
    BY LiveDir DEF Jobs
  <2> QED BY <2>1, CallFrame
<1> QED BY <1>1, <1>2 DEF MemInv

\* A step that edits no directory and concerns two processes at most.
LEMMA TransferKeeps ==
  ASSUME MemInv, UNCHANGED <<pool, pte, readonly, lost>>, MemType', DirsOK',
         \A e \in Dirs : FreeDir(e)' => FreeDir(e) \/ BlankDir(e),
         NEW p1 \in Procs, NEW p2 \in Procs, CallOK(p1)', CallOK(p2)',
         \A q \in Procs \ {p1, p2} :
           /\ job'[q] = job[q] /\ alloc'[q] = alloc[q] /\ saved'[q] = saved[q]
           /\ proc'[q] = proc[q] /\ dir'[q] = dir[q]
  PROVE  MemInv'
<1>0. PICK D, P : D = {} /\ P = {p1, p2}
  OBVIOUS
<1>1. \A e \in Dirs : FreeDir(e)' => (FreeDir(e) /\ e \notin D) \/ BlankDir(e)'
  BY <1>0 DEF BlankDir
<1>2. \A q \in Procs \cap P : CallOK(q)'
  BY <1>0
<1>3. FramesOK'
  BY FramesStay
<1>4. \A e \in Dirs \ D : pte'[e] = pte[e] /\ readonly'[e] = readonly[e]
  OBVIOUS
<1>5. \A q \in Procs \ P :
        /\ job'[q] = job[q] /\ alloc'[q] = alloc[q] /\ saved'[q] = saved[q]
        /\ proc'[q] = proc[q] /\ dir'[q] = dir[q]
        /\ proc[q] = "live" => dir[q] \notin D
        /\ job[q].dir \notin D
  BY <1>0
<1> QED BY <1>1, <1>2, <1>3, <1>4, <1>5, StepKeeps, Zenon

\* The parts of the invariant about the owners.
LEMMA Owners ==
  ASSUME MemInv
  PROVE  /\ MemType /\ NoDir \notin Dirs
         /\ \A p \in Procs :
              /\ OwnDir(p) /\ CallOK(p) /\ job[p] \in Jobs /\ job[p].op \in JobOps
              /\ dir[p] \in Dirs \cup {NoDir} /\ job[p].dir \in Dirs \cup {NoDir}
              /\ proc[p] \in {"free", "new", "live", "zombie", "reaped"}
         /\ \A p, q \in Procs : dir[p] = dir[q] /\ dir[p] # NoDir =>
              p = q \/ Fills(p, q) \/ Fills(q, p)
         /\ \A p, q \in Procs : job[p].dir = job[q].dir /\ job[p].dir # NoDir => p = q
         /\ \A p, q \in Procs : job[p].dir = dir[q] /\ dir[q] # NoDir =>
              \/ job[p].op = "fork" /\ job[p].child = q
              \/ job[p].op = "reap" /\ p = q
BY MemoryAssumption DEF MemInv, MemType, DirsOK, Jobs

\* A process without a call and its frames.
LEMMA UserCall ==
  ASSUME NEW q, job'[q].op = "user",
         proc'[q] = "live" => Backed(alloc[q], dir[q])'
  PROVE  CallOK(q)'
BY DEF CallOK, Destructs

\* A process without a live directory of its own shares it with nobody.
LEMMA SoleOwner ==
  ASSUME MemInv, NEW p \in Procs, NEW q \in Procs, dir[p] # NoDir, dir[p] = dir[q],
         proc[p] # "new", job[p].op # "fork_copy"
  PROVE  p = q
BY Owners DEF OwnDir, Fills

\* The last thread of a process vanishes, and what its threads were releasing
\* is lost.
LEMMA VanishKeeps ==
  ASSUME MemInv, NEW p \in Procs, Vanish(p)
  PROVE  MemInv'
<1>0. proc[p] = "live" /\ job[p].op = "user"
  BY DEF Vanish, MayCall
<1>1. PICK R, D : R = Reaping(p) /\ D = {dir[q] : q \in R}
  OBVIOUS
<1>2. /\ proc' = [q \in Procs |-> CASE q = p -> "zombie" [] q \in R -> "free" [] OTHER -> proc[q]]
      /\ dir' = [q \in Procs |-> IF q \in R THEN NoDir ELSE dir[q]]
      /\ alloc' = [q \in Procs |-> IF q \in R THEN <<>> ELSE alloc[q]]
      /\ job' = [q \in Procs |-> IF q \in R THEN User ELSE job[q]]
      /\ lost' = lost \cup {f \in Frames : \E d \in D, v \in UserPages : pte[d][v] = f}
      /\ pte' = [d \in Dirs |-> IF d \in D THEN Blank ELSE pte[d]]
      /\ readonly' = [d \in Dirs |-> IF d \in D THEN {} ELSE readonly[d]]
      /\ checked' = [checked EXCEPT ![p] = 0]
      /\ UNCHANGED <<pool, saved>>
  BY <1>1 DEF Vanish
<1>3. /\ R \subseteq Procs /\ p \notin R
      /\ \A q \in R : /\ job[q].op = "reap" /\ proc[q] = "reaped" /\ dir[q] \in Dirs
                     /\ job[q].dir = dir[q]
  BY <1>0, <1>1, Owners DEF Reaping, OwnDir
<1>4. D \subseteq Dirs
  BY <1>1, <1>3
<1>5. /\ proc'[p] = "zombie" /\ \A q \in R : proc'[q] = "free"
      /\ \A q \in Procs \ (R \cup {p}) : proc'[q] = proc[q]
      /\ \A q \in R : dir'[q] = NoDir /\ job'[q] = User
      /\ \A q \in Procs \ R : dir'[q] = dir[q] /\ job'[q] = job[q] /\ alloc'[q] = alloc[q]
  BY <1>2, <1>3
<1>6. MemType'
  <2>1. Blank \in [UserPages -> Entries]
    BY NotFrames DEF Blank
  <2>2. <<>> \in Seq(Allocs)
    OBVIOUS
  <2>3. proc' \in [Procs -> {"free", "new", "live", "zombie", "reaped"}]
    <3>1. \A q \in Procs : proc'[q] \in {"free", "new", "live", "zombie", "reaped"}
      BY <1>3, <1>5, Owners
    <3> QED BY <1>2, <3>1
  <2>4. job' \in [Procs -> Jobs] /\ alloc' \in [Procs -> Seq(Allocs)]
    BY <1>2, <2>2, UserFields, Owners DEF MemType
  <2>5. dir' \in [Procs -> Dirs \cup {NoDir}] /\ checked' \in [Procs -> Pages]
    BY <1>2, Owners, Numbers DEF MemType
  <2>6. pte' \in [Dirs -> [UserPages -> Entries]] /\ readonly' \in [Dirs -> SUBSET UserPages]
    BY <1>2, <2>1, Owners DEF MemType
  <2>7. pool \in Seq(Frames) /\ saved \in [Procs -> [UserPages -> Entries]] /\ lost' \subseteq Frames
    BY <1>2, Owners DEF MemType
  <2> QED BY <1>2, <2>3, <2>4, <2>5, <2>6, <2>7 DEF MemType
<1>7. /\ \A e \in Dirs \ D : pte'[e] = pte[e] /\ readonly'[e] = readonly[e]
      /\ \A e \in D : readonly'[e] = {} /\ \A v \in UserPages : pte'[e][v] = Unavailable
  BY <1>2, <1>4 DEF Blank
<1>8. FramesOK'
  <2>1. PICK L : L = {f \in Frames : \E d \in D, v \in UserPages : pte[d][v] = f}
    OBVIOUS
  <2>2. lost' = lost \cup L /\ pool' = pool /\ FramesOK /\ MemType
    BY <1>2, <2>1 DEF MemInv
  <2>3. Sorted(pool)'
    BY <2>2 DEF FramesOK, Sorted
  <2>4. Range(pool) \cap L = {}
    BY <1>4, <2>1, <2>2 DEF FramesOK
  <2>5. Range(pool)' \cap lost' = {}
    BY <2>2, <2>4 DEF FramesOK
  <2>6. \A d \in Dirs, v \in UserPages : pte'[d][v] \in Frames => d \notin D /\ pte'[d][v] = pte[d][v]
    BY <1>7, NotFrames
  <2>7. \A d, e \in Dirs, v, w \in UserPages :
          pte'[d][v] \in Frames /\ pte'[d][v] = pte'[e][w] => d = e /\ v = w
    BY <2>2, <2>6 DEF FramesOK
  <2>8. ASSUME NEW d \in Dirs, NEW v \in UserPages
        PROVE  pte'[d][v] \notin Range(pool) \cup (lost \cup L)
    <3>0. Range(pool) \subseteq Frames /\ lost \subseteq Frames /\ L \subseteq Frames
      BY <2>1, <2>2, RangeSubset DEF MemType
    <3>1. CASE pte'[d][v] \notin Frames
      BY <3>0, <3>1
    <3>2. CASE pte'[d][v] \in Frames
      <4>1. d \notin D /\ pte'[d][v] = pte[d][v]
        BY <2>6, <3>2
      <4>2. pte[d][v] \notin L
        BY <1>4, <2>1, <2>2, <3>2, <4>1 DEF FramesOK
      <4> QED BY <2>2, <4>1, <4>2 DEF FramesOK
    <3> QED BY <3>1, <3>2
  <2>9. ASSUME NEW f \in Frames, f \notin Range(pool) \cup (lost \cup L)
        PROVE  \E d \in Dirs, v \in UserPages : pte'[d][v] = f
    <3>1. PICK d \in Dirs, v \in UserPages : pte[d][v] = f
      BY <2>2, <2>9 DEF FramesOK
    <3>2. d \notin D
      BY <2>1, <2>9, <3>1
    <3> QED BY <1>7, <3>1, <3>2
  <2> QED BY <2>2, <2>3, <2>5, <2>7, <2>8, <2>9 DEF FramesOK
<1>9. DirsOK'
  <2>1. \A q \in Procs : OwnDir(q)'
    <3> SUFFICES ASSUME NEW q \in Procs PROVE OwnDir(q)'
      OBVIOUS
    <3>1. CASE q \in R
      BY <1>3, <1>5, <3>1, UserFields DEF OwnDir
    <3>2. CASE q = p
      BY <1>0, <1>3, <1>5, <3>2, Owners DEF OwnDir
    <3>3. CASE q \notin R \cup {p}
      <4>1. job[q].op \in {"fork", "fork_copy"} => job[q].child \notin R \cup {p}
        BY <1>0, <1>3, Owners DEF OwnDir
      <4> QED BY <1>5, <3>3, <4>1, Owners DEF OwnDir
    <3> QED BY <3>1, <3>2, <3>3
  <2>2. \A q \in Procs : dir'[q] # NoDir => q \notin R /\ dir'[q] = dir[q] /\ job'[q] = job[q]
    BY <1>5
  <2>3. \A q \in Procs : job'[q].dir # NoDir => q \notin R /\ job'[q] = job[q]
    BY <1>3, <1>5, UserFields
  <2>4. \A r, s \in Procs : dir'[r] = dir'[s] /\ dir'[r] # NoDir =>
          r = s \/ Fills(r, s)' \/ Fills(s, r)'
    BY <2>2, Owners DEF Fills
  <2>5. \A r, s \in Procs : job'[r].dir = job'[s].dir /\ job'[r].dir # NoDir => r = s
    BY <2>3, Owners
  <2>6. \A r, s \in Procs : job'[r].dir = dir'[s] /\ dir'[s] # NoDir =>
          \/ job'[r].op = "fork" /\ job'[r].child = s
          \/ job'[r].op = "reap" /\ r = s
    BY <2>2, <2>3, Owners
  <2> QED BY <2>1, <2>4, <2>5, <2>6 DEF DirsOK
<1>10. ASSUME NEW e \in Dirs, FreeDir(e)'
       PROVE  (FreeDir(e) /\ e \notin D) \/ BlankDir(e)'
  <2>1. CASE e \in D
    BY <1>7, <2>1 DEF BlankDir
  <2>2. CASE e \notin D
    <3>1. \A r \in R : dir[r] # e /\ job[r].dir # e
      BY <1>1, <1>3, <2>2
    <3>2. \A r \in Procs \ R : dir[r] # e /\ job[r].dir # e
      BY <1>5, <1>10 DEF FreeDir
    <3> QED BY <2>2, <3>1, <3>2 DEF FreeDir
  <2> QED BY <2>1, <2>2
<1>11. ASSUME NEW q \in Procs \cap (R \cup {p}) PROVE CallOK(q)'
  <2>1. job'[q].op = "user" /\ proc'[q] # "live"
    BY <1>0, <1>3, <1>5, UserFields
  <2> QED BY <2>1, UserCall
<1>12. ASSUME NEW q \in Procs \ (R \cup {p})
       PROVE  /\ proc[q] = "live" => dir[q] \notin D
              /\ job[q].dir \notin D
  <2>1. ASSUME NEW r \in R, dir[q] = dir[r] PROVE FALSE
    <3>1. dir[r] # NoDir
      BY <1>3, Owners
    <3> QED BY <1>3, <2>1, <3>1, SoleOwner
  <2>2. ASSUME NEW r \in R, job[q].dir = dir[r] PROVE FALSE
    <3>1. job[q].op = "fork" /\ job[q].child = r
      BY <1>3, <2>2, Owners
    <3> QED BY <1>3, <3>1, Owners DEF OwnDir
  <2> QED BY <1>1, <2>1, <2>2
<1>13. \A q \in Procs \ (R \cup {p}) :
         /\ job'[q] = job[q] /\ alloc'[q] = alloc[q] /\ saved'[q] = saved[q]
         /\ proc'[q] = proc[q] /\ dir'[q] = dir[q]
         /\ proc[q] = "live" => dir[q] \notin D
         /\ job[q].dir \notin D
  BY <1>2, <1>5, <1>12
<1> QED BY <1>6, <1>7, <1>8, <1>9, <1>10, <1>11, <1>13, StepKeeps, Zenon

\* wait starts to release the address space of an exited process.
LEMMA ReapKeeps ==
  ASSUME MemInv, NEW p \in Procs, NEW q \in Procs, Reap(p, q), UNCHANGED lost
  PROVE  MemInv'
<1>0. proc[p] = "live" /\ proc[q] = "zombie"
  BY DEF Reap
<1>1. /\ proc' = [proc EXCEPT ![q] = "reaped"] /\ Goto(q, Destruct("reap", p, dir[q]))
      /\ UNCHANGED <<pool, pte, readonly, dir, alloc, checked, saved, lost>>
  BY DEF Reap
<1>2. dir[q] \in Dirs /\ job[q].op = "user" /\ job[q].dir = NoDir
  BY <1>0, Owners DEF OwnDir
<1>3. PICK j : j = Destruct("reap", p, dir[q])
  OBVIOUS
<1>4. j \in Jobs /\ j.op = "reap" /\ j.dir = dir[q] /\ j.next = 1
  <2>1. "reap" \in Destructs
    BY DEF Destructs
  <2> QED BY <1>2, <1>3, <2>1, DestructFields
<1>5. /\ job' \in [Procs -> Jobs] /\ job'[q] = j
      /\ \A r \in Procs \ {q} : job'[r] = job[r]
  BY <1>1, <1>3, <1>4, GotoEffect, Owners
<1>6. proc'[q] = "reaped" /\ \A r \in Procs \ {q} : proc'[r] = proc[r]
  BY <1>1, Owners DEF MemType
<1>7. MemType'
  BY <1>1, <1>5, Owners DEF MemType
<1>8. DirsOK'
  <2>0. \A r \in Procs : dir[r] = dir[q] => r = q
    BY <1>0, <1>2, Owners, SoleOwner
  <2>1. \A r \in Procs : OwnDir(r)'
    BY <1>0, <1>1, <1>2, <1>4, <1>5, <1>6, Owners DEF OwnDir
  <2>2. \A r \in Procs \ {q} : job[r].dir # dir[q]
    BY <1>0, <1>2, Owners DEF OwnDir
  <2>3. \A r, s \in Procs : job'[r].dir = job'[s].dir /\ job'[r].dir # NoDir => r = s
    BY <1>4, <1>5, <2>2, Owners
  <2>4. \A r, s \in Procs : job'[r].dir = dir[s] /\ dir[s] # NoDir =>
          \/ job'[r].op = "fork" /\ job'[r].child = s
          \/ job'[r].op = "reap" /\ r = s
    BY <1>0, <1>2, <1>4, <1>5, <2>0, Owners
  <2>5. \A r, s \in Procs : dir'[r] = dir'[s] /\ dir'[r] # NoDir =>
          r = s \/ Fills(r, s)' \/ Fills(s, r)'
    BY <1>1, <1>2, <1>5, Owners DEF Fills
  <2> QED BY <1>1, <2>1, <2>3, <2>4, <2>5 DEF DirsOK
<1>9. \A e \in Dirs : FreeDir(e)' => FreeDir(e)
  BY <1>1, <1>2, <1>5, Owners DEF FreeDir
<1>10. CallOK(q)'
  <2>1. DestructOK(q)'
    BY <1>4, <1>5, Numbers DEF DestructOK
  <2> QED BY <1>4, <1>5, <1>6, <2>1 DEF CallOK
<1> QED BY <1>1, <1>5, <1>6, <1>7, <1>8, <1>9, <1>10, TransferKeeps

\* destruct_page_dir is done.
LEMMA DestructDoneKeeps ==
  ASSUME MemInv, NEW p \in Procs, DestructDone(p), UNCHANGED lost
  PROVE  MemInv'
<1>0. job[p].op \in Destructs /\ job[p].next = NPages
  BY DEF DestructDone
<1>1. UNCHANGED <<pool, pte, readonly, checked, saved, lost>> /\ Goto(p, User)
  BY DEF DestructDone
<1>2. /\ job' \in [Procs -> Jobs] /\ job'[p].op = "user" /\ job'[p].dir = NoDir
      /\ \A r \in Procs \ {p} : job'[r] = job[r]
  BY <1>1, GotoEffect, Owners, UserFields
<1>3. job[p].dir \in Dirs /\ BlankDir(job[p].dir)
  <2>1. job[p].dir \in Dirs /\ DestructOK(p)
    BY <1>0, Owners DEF OwnDir, CallOK, Destructs
  <2>2. \A v \in UserPages : pte[job[p].dir][v] = Unavailable /\ v \notin readonly[job[p].dir]
    BY <1>0, <2>1, Numbers DEF DestructOK
  <2>3. readonly[job[p].dir] \subseteq UserPages
    BY <2>1, Owners DEF MemType
  <2> QED BY <2>1, <2>2, <2>3 DEF BlankDir
<1>4. CASE job[p].op = "reap"
  <2>0. proc[p] = "reaped" /\ dir[p] = job[p].dir
    BY <1>4, Owners DEF OwnDir
  <2>1. /\ alloc' = [alloc EXCEPT ![p] = <<>>] /\ proc' = [proc EXCEPT ![p] = "free"]
        /\ dir' = [dir EXCEPT ![p] = NoDir]
    BY <1>4 DEF DestructDone
  <2>2. /\ proc'[p] = "free" /\ dir'[p] = NoDir
        /\ \A r \in Procs \ {p} :
             proc'[r] = proc[r] /\ dir'[r] = dir[r] /\ alloc'[r] = alloc[r]
    BY <2>1, Owners DEF MemType
  <2>3. MemType'
    BY <1>1, <1>2, <2>1, Owners DEF MemType
  <2>4. DirsOK'
    <3>1. \A r \in Procs : OwnDir(r)'
      BY <1>2, <2>0, <2>2, Owners DEF OwnDir
    <3>2. \A r, s \in Procs : dir'[r] = dir'[s] /\ dir'[r] # NoDir =>
          r = s \/ Fills(r, s)' \/ Fills(s, r)'
      BY <1>0, <1>2, <2>2, Owners DEF Fills, Destructs
    <3>3. \A r, s \in Procs : job'[r].dir = job'[s].dir /\ job'[r].dir # NoDir => r = s
      BY <1>2, Owners
    <3>4. \A r, s \in Procs : job'[r].dir = dir'[s] /\ dir'[s] # NoDir =>
            \/ job'[r].op = "fork" /\ job'[r].child = s
            \/ job'[r].op = "reap" /\ r = s
      BY <1>2, <2>2, Owners
    <3> QED BY <3>1, <3>2, <3>3, <3>4 DEF DirsOK
  <2>5. \A e \in Dirs : FreeDir(e)' => FreeDir(e) \/ BlankDir(e)
    BY <1>2, <1>3, <2>0, <2>2 DEF FreeDir
  <2>6. CallOK(p)'
    BY <1>2, <2>2, UserCall
  <2> QED BY <1>1, <1>2, <2>2, <2>3, <2>4, <2>5, <2>6, TransferKeeps
<1>5. CASE job[p].op # "reap"
  <2>0. proc[p] = "live"
    BY <1>0, <1>5, LiveDir DEF Destructs
  <2>1. /\ alloc' = IF job[p].op = "exec_free" THEN [alloc EXCEPT ![p] = <<>>] ELSE alloc
        /\ UNCHANGED <<proc, dir>>
    BY <1>5 DEF DestructDone
  <2>2. \A r \in Procs \ {p} : alloc'[r] = alloc[r]
    BY <2>1, Owners DEF MemType
  <2>3. MemType'
    BY <1>1, <1>2, <2>1, Owners DEF MemType
  <2>4. DirsOK'
    <3>1. \A r \in Procs : OwnDir(r)'
      BY <1>2, <2>0, <2>1, Owners DEF OwnDir
    <3>3. \A r, s \in Procs : job'[r].dir = job'[s].dir /\ job'[r].dir # NoDir => r = s
      BY <1>2, Owners
    <3>4. \A r, s \in Procs : job'[r].dir = dir[s] /\ dir[s] # NoDir =>
            \/ job'[r].op = "fork" /\ job'[r].child = s
            \/ job'[r].op = "reap" /\ r = s
      BY <1>2, Owners
    <3>5. \A r, s \in Procs : dir'[r] = dir'[s] /\ dir'[r] # NoDir =>
            r = s \/ Fills(r, s)' \/ Fills(s, r)'
      BY <1>0, <1>2, <2>1, Owners DEF Fills, Destructs
    <3> QED BY <2>1, <3>1, <3>3, <3>4, <3>5 DEF DirsOK
  <2>5. \A e \in Dirs : FreeDir(e)' => FreeDir(e) \/ BlankDir(e)
    BY <1>2, <1>3, <2>1 DEF FreeDir
  <2>6. Backed(alloc[p], dir[p])'
    <3>1. CASE job[p].op = "exec_free"
      <4>1. alloc'[p] = <<>> /\ TextOK(dir[p])
        BY <2>1, <3>1, Owners DEF MemType, CallOK
      <4>2. \A i \in 1..Len(<<>>) : FALSE
        OBVIOUS
      <4> QED BY <1>1, <2>1, <4>1, <4>2 DEF Backed, TextOK
    <3>2. CASE job[p].op # "exec_free"
      <4>1. Backed(alloc[p], dir[p])
        BY <1>0, <2>0, <3>2, Owners DEF CallOK, Destructs
      <4> QED BY <1>1, <2>1, <3>2, <4>1 DEF Backed, TextOK
    <3> QED BY <3>1, <3>2
  <2>7. CallOK(p)'
    BY <1>2, <2>6, UserCall
  <2> QED BY <1>1, <1>2, <2>1, <2>2, <2>3, <2>4, <2>5, <2>7, TransferKeeps
<1> QED BY <1>4, <1>5
\* fork takes a directory for the child.
LEMMA ForkKeeps ==
  ASSUME MemInv, NEW p \in Procs, NEW q \in Procs, NEW d \in Dirs, Fork(p, q, d), UNCHANGED lost
  PROVE  MemInv'
<1>0. /\ proc[p] = "live" /\ job[p].op = "user" /\ proc[q] = "free" /\ FreeDir(d)
  BY DEF Fork, MayCall
<1>1. /\ proc' = [proc EXCEPT ![q] = "new"] /\ dir' = [dir EXCEPT ![q] = d]
      /\ Goto(p, Job("fork", q, d, 0, 0, 1))
      /\ UNCHANGED <<pool, pte, readonly, alloc, checked, saved, lost>>
  BY DEF Fork, USER_PAGE_START
<1>2. /\ dir[q] = NoDir /\ job[p].dir = NoDir /\ p # q /\ job[q].op = "user"
  BY <1>0, Owners DEF OwnDir
<1>3. PICK j : j = Job("fork", q, d, 0, 0, 1)
  OBVIOUS
<1>4. j \in Jobs /\ j.op = "fork" /\ j.dir = d /\ j.child = q /\ j.next = 1
  <2>1. "fork" \in JobOps /\ 0 \in Pages /\ 0 \in 0..NPages /\ 1 \in 0..NPages
    BY Numbers DEF JobOps
  <2> QED BY <1>3, <2>1, JobFields
<1>5. /\ job' \in [Procs -> Jobs] /\ job'[p] = j
      /\ \A r \in Procs \ {p} : job'[r] = job[r]
  BY <1>1, <1>3, <1>4, GotoEffect, Owners
<1>6. /\ proc'[q] = "new" /\ \A r \in Procs \ {q} : proc'[r] = proc[r]
      /\ dir'[q] = d /\ \A r \in Procs \ {q} : dir'[r] = dir[r]
  BY <1>1, Owners DEF MemType
<1>7. MemType'
  BY <1>1, <1>5, Owners DEF MemType
<1>8. \A r \in Procs : dir[r] # d /\ job[r].dir # d
  BY <1>0 DEF FreeDir
<1>9. DirsOK'
  <2>1. \A r \in Procs : OwnDir(r)'
    BY <1>0, <1>2, <1>4, <1>5, <1>6, Owners DEF OwnDir
  <2>2. \A r, s \in Procs : dir'[r] = dir'[s] /\ dir'[r] # NoDir =>
          r = s \/ Fills(r, s)' \/ Fills(s, r)'
    BY <1>0, <1>5, <1>6, <1>8, Owners DEF Fills
  <2>3. \A r, s \in Procs : job'[r].dir = job'[s].dir /\ job'[r].dir # NoDir => r = s
    BY <1>4, <1>5, <1>8, Owners
  <2>4. \A r, s \in Procs : job'[r].dir = dir'[s] /\ dir'[s] # NoDir =>
          \/ job'[r].op = "fork" /\ job'[r].child = s
          \/ job'[r].op = "reap" /\ r = s
    BY <1>4, <1>5, <1>6, <1>8, Owners
  <2> QED BY <2>1, <2>2, <2>3, <2>4 DEF DirsOK
<1>10. \A e \in Dirs : FreeDir(e)' => FreeDir(e)
  BY <1>2, <1>5, <1>6, Owners DEF FreeDir
<1>11. CallOK(q)'
  BY <1>2, <1>5, <1>6, UserCall
<1>12. CallOK(p)'
  <2>1. readonly[d] = {} /\ \A v \in UserPages : pte[d][v] = Unavailable
    BY <1>0 DEF MemInv, FreeBlank
  <2>2. \A v \in UserPages : ~(v < 1)
    BY Numbers
  <2>3. {v \in Text : v < 1} = {}
    BY <2>2 DEF Text
  <2>4. ForkOK(p)'
    BY <1>1, <1>4, <1>5, <2>1, <2>2, <2>3 DEF ForkOK
  <2>5. Backed(alloc[p], dir[p])'
    BY <1>0, <1>1, <1>2, <1>6, Owners DEF CallOK, Backed, TextOK
  <2> QED BY <1>4, <1>5, <2>4, <2>5 DEF CallOK, Destructs
<1> QED BY <1>1, <1>5, <1>6, <1>7, <1>9, <1>10, <1>11, <1>12, TransferKeeps

\* fork copies an entry without a frame, or gives the child a frame and goes
\* over to the child's directory.
LEMMA ForkPageKeeps ==
  ASSUME MemInv, NEW p \in Procs, ForkPage(p), UNCHANGED lost
  PROVE  MemInv'
<1>1. /\ job[p].op = "fork" /\ job[p].next < NPages /\ MemType
      /\ UNCHANGED <<readonly, proc, alloc, checked, saved>>
  BY DEF ForkPage, MemInv
<1>2. /\ job[p] \in Jobs /\ CallOK(p) /\ OwnDir(p) /\ job[p].dir \in Dirs
      /\ proc[p] = "live" /\ dir[p] \in Dirs /\ dir[p] # job[p].dir
      /\ ForkOK(p) /\ Backed(alloc[p], dir[p])
  BY <1>1, LiveDir DEF Plain, CallOK, SingleThread
<1>3. PICK d, h, v, x, q :
        d = job[p].dir /\ h = dir[p] /\ v = job[p].next /\ x = pte[dir[p]][v] /\ q = job[p].child
  OBVIOUS
<1>4. d \in Dirs /\ v \in UserPages /\ x \in Entries /\ pte[d][v] = Unavailable
  <2>1. v \in UserPages
    BY <1>1, <1>2, <1>3, Numbers DEF ForkOK, Jobs
  <2>2. pte[d][v] = Unavailable
    BY <1>2, <1>3, <2>1, Numbers DEF ForkOK
  <2> QED BY <1>1, <1>2, <1>3, <2>1, <2>2 DEF MemType
<1>5. /\ readonly[d] = {w \in Text : w < v}
      /\ \A w \in UserPages :
           IF w < v THEN pte[d][w] \in Frames <=> pte[h][w] \in Frames ELSE pte[d][w] = Unavailable
  BY <1>2, <1>3 DEF ForkOK
\* A page that was done is as it was, and the one at hand is like the parent's.
<1>6. ASSUME PoolType', Edits(d, v), pte'[d][v] \in Frames <=> x \in Frames
      PROVE  /\ \A e \in Dirs \ {d} : pte'[e] = pte[e]
             /\ Backed(alloc[p], h)'
             /\ \A w \in UserPages :
                  IF w <= v THEN pte'[d][w] \in Frames <=> pte'[h][w] \in Frames
                  ELSE pte'[d][w] = Unavailable
  <2>1. \A e \in Dirs \ {d} : pte'[e] = pte[e]
    BY <1>4, <1>6, EditsDir, Pool
  <2>2. pte'[h] = pte[h]
    BY <1>2, <1>3, <2>1
  <2>3. Backed(alloc[p], h)'
    BY <1>1, <1>2, <1>3, <2>2 DEF Backed, TextOK
  <2>4. ASSUME NEW w \in UserPages
        PROVE  IF w <= v THEN pte'[d][w] \in Frames <=> pte'[h][w] \in Frames
               ELSE pte'[d][w] = Unavailable
    <3>1. CASE w = v
      BY <1>3, <1>4, <1>6, <2>2, <3>1, Numbers
    <3>2. CASE w # v
      <4>1. pte'[d][w] = pte[d][w]
        BY <1>4, <1>6, <3>2 DEF Edits
      <4>2. w \in Nat /\ v \in Nat
        BY <1>4, Numbers
      <4> QED BY <1>5, <2>2, <3>2, <4>1, <4>2
    <3> QED BY <3>1, <3>2
  <2> QED BY <2>1, <2>3, <2>4
<1>7. CASE x \notin Frames /\ MapOther(d, v, x) /\ Advance(p) /\ UNCHANGED dir
  <2>1. PoolType' /\ FramesOK' /\ (pte'[d][v] \in Frames <=> x \in Frames) /\ Edits(d, v)
    BY <1>4, <1>7, MapOtherKeeps, Pool, NotFrames
  <2>2. /\ job' \in [Procs -> Jobs]
        /\ job'[p].op = "fork" /\ job'[p].child = job[p].child
        /\ job'[p].dir = d /\ job'[p].next = v + 1
        /\ \A r \in Procs \ {p} : job'[r] = job[r]
    BY <1>1, <1>3, <1>7, AdvanceEffect
  <2>3. MemType'
    BY <1>1, <1>7, <2>1, <2>2 DEF MemType, PoolType
  <2>4. Local(p, d)
    BY <1>1, <1>3, <1>6, <1>7, <2>1, <2>2 DEF Local
  <2>5. readonly'[d] = {w \in Text : w < v + 1}
    <3>1. v \notin Text
      BY <1>2, <1>3, <1>7 DEF Backed, TextOK
    <3>2. \A w \in Text : w < v + 1 <=> w < v \/ w = v
      BY <1>4, Numbers DEF Text
    <3> QED BY <1>1, <1>5, <3>1, <3>2
  <2>6. ForkOK(p)'
    <3>1. \A w \in UserPages : w < v + 1 <=> w <= v
      BY <1>4, Numbers
    <3>2. v + 1 > 0
      BY <1>4, Numbers
    <3> QED BY <1>3, <1>6, <1>7, <2>1, <2>2, <2>5, <3>1, <3>2 DEF ForkOK
  <2>7. CallOK(p)'
    BY <1>3, <1>6, <1>7, <2>1, <2>2, <2>6 DEF CallOK, Destructs
  <2> QED BY <1>4, <2>1, <2>3, <2>4, <2>7, LocalKeeps
<1>8. CASE /\ x \in Frames /\ MapNewFrame(d, v) /\ dir' = [dir EXCEPT ![p] = d]
           /\ Goto(p, [job[p] EXCEPT !.op = "fork_copy", !.dir = dir[p]])
  <2>1. PoolType' /\ FramesOK' /\ (pte'[d][v] \in Frames <=> x \in Frames) /\ Edits(d, v)
    BY <1>4, <1>8, MapNewFrameKeeps, Pool, NotFrames
  <2>2. PICK j : j = [job[p] EXCEPT !.op = "fork_copy", !.dir = dir[p]]
    OBVIOUS
  <2>3. j \in Jobs /\ j.op = "fork_copy" /\ j.dir = h /\ j.child = q /\ j.next = v
    <3>1. "fork_copy" \in JobOps
      BY DEF JobOps
    <3> QED BY <1>2, <1>3, <2>2, <3>1 DEF Jobs
  <2>4. /\ job' \in [Procs -> Jobs] /\ job'[p] = j
        /\ \A r \in Procs \ {p} : job'[r] = job[r]
    BY <1>1, <1>8, <2>2, <2>3, GotoEffect
  <2>5. dir'[p] = d /\ \A r \in Procs \ {p} : dir'[r] = dir[r]
    BY <1>1, <1>8 DEF MemType
  <2>6. MemType'
    BY <1>1, <1>4, <1>8, <2>1, <2>4 DEF MemType, PoolType
  <2>7. q \in Procs /\ q # p /\ proc[q] = "new" /\ dir[q] = d /\ job[q].op = "user"
    BY <1>1, <1>2, <1>3, Owners DEF OwnDir
  <2>8. h \in Dirs /\ h # d /\ h # NoDir /\ d # NoDir
    BY <1>2, <1>3, Owners
  <2>9. \A r \in Procs \ {p} :
          job[r].dir # d /\ job[r].dir # h /\ dir[r] # h /\ (dir[r] = d => r = q)
    BY <1>1, <1>2, <1>3, <2>8, Owners DEF OwnDir, Fills
  <2>10. DirsOK'
    <3>1. \A r \in Procs : OwnDir(r)'
      <4>1. OwnDir(p)'
        BY <1>1, <1>2, <2>3, <2>4, <2>5, <2>7, <2>8 DEF OwnDir
      <4>2. ASSUME NEW r \in Procs \ {p} PROVE OwnDir(r)'
        <5>1. job[r].op \in {"fork", "fork_copy"} => job[r].child # p
          BY <1>2, Owners DEF OwnDir
        <5> QED BY <1>1, <2>4, <2>5, <5>1, Owners DEF OwnDir
      <4> QED BY <4>1, <4>2
    <3>2. \A r, s \in Procs : dir'[r] = dir'[s] /\ dir'[r] # NoDir =>
            r = s \/ Fills(r, s)' \/ Fills(s, r)'
      BY <1>1, <2>3, <2>4, <2>5, <2>9, Owners DEF Fills
    <3>3. \A r, s \in Procs : job'[r].dir = job'[s].dir /\ job'[r].dir # NoDir => r = s
      BY <2>3, <2>4, <2>9, Owners
    <3>4. \A r, s \in Procs : job'[r].dir = dir'[s] /\ dir'[s] # NoDir =>
            \/ job'[r].op = "fork" /\ job'[r].child = s
            \/ job'[r].op = "reap" /\ r = s
      BY <2>3, <2>4, <2>5, <2>8, <2>9, Owners
    <3> QED BY <3>1, <3>2, <3>3, <3>4 DEF DirsOK
  <2>11. \A e \in Dirs : FreeDir(e)' => FreeDir(e) /\ e \notin {d}
    BY <1>3, <2>3, <2>4, <2>5 DEF FreeDir
  <2>12. CallOK(q)'
    BY <1>1, <2>4, <2>7, UserCall
  <2>13. CallOK(p)'
    <3>1. Backed(alloc[p], h)'
      BY <1>6, <2>1
    <3>2. v > 0
      BY <1>4, Numbers
    <3>3. CopyOK(p)'
      BY <1>1, <1>3, <1>5, <1>6, <2>1, <2>3, <2>4, <2>5, <3>1, <3>2 DEF CopyOK
    <3> QED BY <2>3, <2>4, <3>3 DEF CallOK, Destructs
  <2>14. \A r \in Procs \ {p, q} :
           /\ job'[r] = job[r] /\ alloc'[r] = alloc[r] /\ saved'[r] = saved[r]
           /\ proc'[r] = proc[r] /\ dir'[r] = dir[r]
           /\ proc[r] = "live" => dir[r] \notin {d}
           /\ job[r].dir \notin {d}
    BY <1>1, <2>4, <2>5, <2>9
  <2>15. \A e \in Dirs \ {d} : pte'[e] = pte[e] /\ readonly'[e] = readonly[e]
    BY <1>1, <1>6, <2>1
  <2>16. \A r \in Procs \cap {p, q} : CallOK(r)'
    BY <2>12, <2>13
  <2> QED BY <2>1, <2>6, <2>10, <2>11, <2>14, <2>15, <2>16, StepKeeps, Zenon
<1> QED BY <1>3, <1>7, <1>8 DEF ForkPage, Entry

\* fork has filled the frame and comes back to its own directory.
LEMMA ForkCopiedKeeps ==
  ASSUME MemInv, NEW p \in Procs, ForkCopied(p), UNCHANGED lost
  PROVE  MemInv'
<1>1. /\ job[p].op = "fork_copy" /\ MemType
      /\ UNCHANGED <<pool, pte, proc, alloc, checked, saved, lost>>
  BY DEF ForkCopied, MemInv
<1>2. /\ job[p] \in Jobs /\ CallOK(p) /\ OwnDir(p) /\ job[p].dir \in Dirs
      /\ proc[p] = "live" /\ dir[p] \in Dirs /\ dir[p] # job[p].dir
      /\ CopyOK(p)
  BY <1>1, LiveDir DEF Plain, CallOK, SingleThread
<1>3. PICK d, h, v, q : d = dir[p] /\ h = job[p].dir /\ v = job[p].next /\ q = job[p].child
  OBVIOUS
<1>4. /\ d \in Dirs /\ h \in Dirs /\ d # h /\ d # NoDir /\ h # NoDir
      /\ v \in UserPages /\ v < NPages /\ v \in Nat
  BY <1>2, <1>3, Owners, Numbers DEF CopyOK, Jobs
<1>5. /\ readonly[d] = {w \in Text : w < v} /\ Backed(alloc[p], h)
      /\ \A w \in UserPages :
           IF w <= v THEN pte[d][w] \in Frames <=> pte[h][w] \in Frames ELSE pte[d][w] = Unavailable
  BY <1>2, <1>3 DEF CopyOK
<1>6. /\ dir' = [dir EXCEPT ![p] = h]
      /\ readonly' = [readonly EXCEPT ![d] = @ \cup (readonly[h] \cap {v})]
      /\ Goto(p, [job[p] EXCEPT !.op = "fork", !.dir = d, !.next = @ + 1])
  BY <1>3 DEF ForkCopied
<1>7. PICK j : j = [job[p] EXCEPT !.op = "fork", !.dir = d, !.next = @ + 1]
  OBVIOUS
<1>8. j \in Jobs /\ j.op = "fork" /\ j.dir = d /\ j.child = q /\ j.next = v + 1
  <2>1. "fork" \in JobOps /\ v + 1 \in 0..NPages
    BY <1>4, Numbers DEF JobOps
  <2> QED BY <1>2, <1>3, <1>4, <1>7, <2>1 DEF Jobs
<1>9. /\ job' \in [Procs -> Jobs] /\ job'[p] = j
      /\ \A r \in Procs \ {p} : job'[r] = job[r]
  BY <1>1, <1>6, <1>7, <1>8, GotoEffect
<1>10. dir'[p] = h /\ \A r \in Procs \ {p} : dir'[r] = dir[r]
  BY <1>1, <1>6 DEF MemType
<1>11. /\ readonly' \in [Dirs -> SUBSET UserPages]
       /\ readonly'[d] = readonly[d] \cup (Text \cap {v})
       /\ \A e \in Dirs \ {d} : readonly'[e] = readonly[e]
  <2>1. readonly[h] = Text
    BY <1>5 DEF Backed, TextOK
  <2> QED BY <1>1, <1>4, <1>6, <2>1 DEF MemType
<1>12. MemType'
  BY <1>1, <1>4, <1>6, <1>9, <1>11 DEF MemType
<1>13. q \in Procs /\ q # p /\ proc[q] = "new" /\ dir[q] = d /\ job[q].op = "user"
  BY <1>1, <1>2, <1>3, Owners DEF OwnDir
<1>14. \A r \in Procs \ {p} :
         job[r].dir # d /\ job[r].dir # h /\ dir[r] # h /\ (dir[r] = d => r = q)
  BY <1>1, <1>2, <1>3, <1>4, Owners DEF OwnDir, Fills
<1>15. DirsOK'
  <2>1. \A r \in Procs : OwnDir(r)'
    <3>1. OwnDir(p)'
      BY <1>1, <1>2, <1>4, <1>8, <1>9, <1>10, <1>13 DEF OwnDir
    <3>2. ASSUME NEW r \in Procs \ {p} PROVE OwnDir(r)'
      <4>1. job[r].op \in {"fork", "fork_copy"} => job[r].child # p
        BY <1>2, Owners DEF OwnDir
      <4> QED BY <1>1, <1>9, <1>10, <4>1, Owners DEF OwnDir
    <3> QED BY <3>1, <3>2
  <2>2. \A r, s \in Procs : dir'[r] = dir'[s] /\ dir'[r] # NoDir =>
          r = s \/ Fills(r, s)' \/ Fills(s, r)'
    <3> SUFFICES ASSUME NEW r \in Procs, NEW s \in Procs, dir'[r] = dir'[s],
                        dir'[r] # NoDir, r # s
                 PROVE  Fills(r, s)' \/ Fills(s, r)'
      OBVIOUS
    <3>1. r # p /\ s # p
      BY <1>10, <1>14
    <3> QED BY <1>9, <1>10, <3>1, Owners DEF Fills
  <2>3. \A r, s \in Procs : job'[r].dir = job'[s].dir /\ job'[r].dir # NoDir => r = s
    BY <1>8, <1>9, <1>14, Owners
  <2>4. \A r, s \in Procs : job'[r].dir = dir'[s] /\ dir'[s] # NoDir =>
          \/ job'[r].op = "fork" /\ job'[r].child = s
          \/ job'[r].op = "reap" /\ r = s
    BY <1>4, <1>8, <1>9, <1>10, <1>14, Owners
  <2> QED BY <2>1, <2>2, <2>3, <2>4 DEF DirsOK
<1>16. \A e \in Dirs : FreeDir(e)' => FreeDir(e) /\ e \notin {d}
  BY <1>3, <1>8, <1>9, <1>10 DEF FreeDir
<1>17. CallOK(q)'
  BY <1>1, <1>9, <1>13, UserCall
<1>18. CallOK(p)'
  <2>1. Backed(alloc[p], h)'
    BY <1>1, <1>4, <1>5, <1>11 DEF Backed, TextOK
  <2>2. readonly'[d] = {w \in Text : w < v + 1}
    <3>1. \A w \in Text : w < v + 1 <=> w < v \/ w = v
      BY <1>4, Numbers DEF Text
    <3> QED BY <1>5, <1>11, <3>1
  <2>3. v + 1 > 0 /\ \A w \in UserPages : w < v + 1 <=> w <= v
    BY <1>4, Numbers
  <2>4. ForkOK(p)'
    BY <1>1, <1>5, <1>8, <1>9, <1>10, <2>2, <2>3 DEF ForkOK
  <2> QED BY <1>8, <1>9, <1>10, <2>1, <2>4 DEF CallOK, Destructs
<1>19. \A r \in Procs \ {p, q} :
         /\ job'[r] = job[r] /\ alloc'[r] = alloc[r] /\ saved'[r] = saved[r]
         /\ proc'[r] = proc[r] /\ dir'[r] = dir[r]
         /\ proc[r] = "live" => dir[r] \notin {d}
         /\ job[r].dir \notin {d}
  BY <1>1, <1>9, <1>10, <1>14
<1>20. \A e \in Dirs \ {d} : pte'[e] = pte[e] /\ readonly'[e] = readonly[e]
  BY <1>1, <1>11
<1>21. \A r \in Procs \cap {p, q} : CallOK(r)'
  BY <1>17, <1>18
<1>22. FramesOK'
  BY <1>1, FramesStay
<1> QED BY <1>12, <1>15, <1>16, <1>19, <1>20, <1>21, <1>22, StepKeeps, Zenon

\* fork fails and starts to release the child's directory.
LEMMA ForkFailKeeps ==
  ASSUME MemInv, NEW p \in Procs, ForkFail(p), UNCHANGED lost
  PROVE  MemInv'
<1>0. PICK q : q = job[p].child
  OBVIOUS
<1>1. /\ proc' = [proc EXCEPT ![q] = "free"] /\ dir' = [dir EXCEPT ![q] = NoDir]
      /\ Goto(p, Destruct("fork_undo", NoProc, job[p].dir)) /\ job[p].op = "fork"
      /\ UNCHANGED <<pool, pte, readonly, alloc, checked, saved, lost>>
  BY <1>0 DEF ForkFail
<1>2. /\ q \in Procs /\ proc[q] = "new" /\ dir[q] = job[p].dir /\ job[p].dir \in Dirs
      /\ proc[p] = "live" /\ job[q].op = "user" /\ p # q
  BY <1>0, <1>1, Owners, LiveDir DEF OwnDir
<1>3. PICK j : j = Destruct("fork_undo", NoProc, job[p].dir)
  OBVIOUS
<1>4. j \in Jobs /\ j.op = "fork_undo" /\ j.dir = job[p].dir /\ j.next = 1
  <2>1. "fork_undo" \in Destructs
    BY DEF Destructs
  <2> QED BY <1>2, <1>3, <2>1, DestructFields
<1>5. /\ job' \in [Procs -> Jobs] /\ job'[p] = j
      /\ \A r \in Procs \ {p} : job'[r] = job[r]
  BY <1>1, <1>3, <1>4, GotoEffect, Owners
<1>6. /\ proc'[q] = "free" /\ \A r \in Procs \ {q} : proc'[r] = proc[r]
      /\ dir'[q] = NoDir /\ \A r \in Procs \ {q} : dir'[r] = dir[r]
  BY <1>1, <1>2, Owners DEF MemType
<1>7. MemType'
  BY <1>1, <1>2, <1>5, Owners DEF MemType
<1>8. \A r \in Procs \ {p} : job[r].op = "fork" => job[r].child # q
  BY <1>2, Owners DEF OwnDir
<1>9. DirsOK'
  <2>1. \A r \in Procs : OwnDir(r)'
    BY <1>1, <1>2, <1>4, <1>5, <1>6, <1>8, Owners DEF OwnDir
  <2>2. \A r, s \in Procs : dir'[r] = dir'[s] /\ dir'[r] # NoDir =>
          r = s \/ Fills(r, s)' \/ Fills(s, r)'
    BY <1>1, <1>5, <1>6, Owners DEF Fills
  <2>3. \A r, s \in Procs : job'[r].dir = job'[s].dir /\ job'[r].dir # NoDir => r = s
    BY <1>4, <1>5, Owners
  <2>4. \A r, s \in Procs : job'[r].dir = dir'[s] /\ dir'[s] # NoDir =>
          \/ job'[r].op = "fork" /\ job'[r].child = s
          \/ job'[r].op = "reap" /\ r = s
    BY <1>2, <1>4, <1>5, <1>6, Owners
  <2> QED BY <2>1, <2>2, <2>3, <2>4 DEF DirsOK
<1>10. \A e \in Dirs : FreeDir(e)' => FreeDir(e)
  BY <1>2, <1>4, <1>5, <1>6, Owners DEF FreeDir
<1>11. CallOK(q)'
  BY <1>2, <1>5, <1>6, UserCall
<1>12. CallOK(p)'
  <2>1. DestructOK(p)'
    BY <1>4, <1>5, Numbers DEF DestructOK
  <2>2. Backed(alloc[p], dir[p])'
    BY <1>1, <1>2, <1>6, Owners DEF CallOK, Backed, TextOK
  <2> QED BY <1>4, <1>5, <2>1, <2>2 DEF CallOK
<1> QED BY <1>1, <1>2, <1>5, <1>6, <1>7, <1>9, <1>10, <1>11, <1>12, TransferKeeps

\* The child runs.
LEMMA ForkDoneKeeps ==
  ASSUME MemInv, NEW p \in Procs, ForkDone(p), UNCHANGED lost
  PROVE  MemInv'
<1>0. PICK q : q = job[p].child
  OBVIOUS
<1>1. /\ alloc' = [alloc EXCEPT ![q] = alloc[p]] /\ proc' = [proc EXCEPT ![q] = "live"]
      /\ Goto(p, User) /\ job[p].op = "fork" /\ job[p].next = NPages
      /\ UNCHANGED <<pool, pte, readonly, dir, checked, saved, lost>>
  BY <1>0 DEF ForkDone
<1>2. /\ q \in Procs /\ proc[q] = "new" /\ dir[q] = job[p].dir /\ job[p].dir \in Dirs
      /\ proc[p] = "live" /\ job[q].op = "user" /\ job[q].dir = NoDir /\ p # q
      /\ alloc[p] \in Seq(Allocs)
  BY <1>0, <1>1, Owners, LiveDir DEF OwnDir, MemType
<1>3. /\ job' \in [Procs -> Jobs] /\ job'[p].op = "user" /\ job'[p].dir = NoDir
      /\ \A r \in Procs \ {p} : job'[r] = job[r]
  BY <1>1, GotoEffect, Owners, UserFields
<1>4. /\ proc'[q] = "live" /\ \A r \in Procs \ {q} : proc'[r] = proc[r]
      /\ alloc'[q] = alloc[p] /\ \A r \in Procs \ {q} : alloc'[r] = alloc[r]
  BY <1>1, <1>2, Owners DEF MemType
<1>5. MemType'
  BY <1>1, <1>2, <1>3, Owners DEF MemType
<1>6. \A r \in Procs \ {p} : job[r].op = "fork" => job[r].child # q
  BY <1>2, Owners DEF OwnDir
<1>7. DirsOK'
  <2>1. \A r \in Procs : OwnDir(r)'
    BY <1>1, <1>2, <1>3, <1>4, <1>6, Owners DEF OwnDir
  <2>2. \A r, s \in Procs : job'[r].dir = job'[s].dir /\ job'[r].dir # NoDir => r = s
    BY <1>3, Owners
  <2>3. \A r, s \in Procs : job'[r].dir = dir[s] /\ dir[s] # NoDir =>
          \/ job'[r].op = "fork" /\ job'[r].child = s
          \/ job'[r].op = "reap" /\ r = s
    BY <1>3, Owners
  <2>4. \A r, s \in Procs : dir'[r] = dir'[s] /\ dir'[r] # NoDir =>
          r = s \/ Fills(r, s)' \/ Fills(s, r)'
    BY <1>1, <1>3, Owners DEF Fills
  <2> QED BY <1>1, <2>1, <2>2, <2>3, <2>4 DEF DirsOK
<1>8. \A e \in Dirs : FreeDir(e)' => FreeDir(e)
  BY <1>1, <1>2, <1>3, Owners DEF FreeDir
<1>9. Backed(alloc[p], dir[p]) /\ ForkOK(p)
  BY <1>1, <1>2, Owners DEF CallOK
<1>10. CallOK(p)'
  <2>1. Backed(alloc[p], dir[p])'
    BY <1>1, <1>2, <1>4, <1>9 DEF Backed, TextOK
  <2> QED BY <1>3, <2>1, UserCall
<1>11. CallOK(q)'
  <2>1. \A v \in UserPages : v < NPages
    BY Numbers
  <2>2. \A v \in UserPages : pte[dir[q]][v] \in Frames <=> pte[dir[p]][v] \in Frames
    BY <1>1, <1>2, <1>9, <2>1 DEF ForkOK
  <2>3. TextOK(dir[q])
    BY <1>1, <1>2, <1>9, <2>1, <2>2 DEF ForkOK, Text, TextOK, Backed
  <2>4. \A i \in 1..Len(alloc[p]) : \A v \in AllocPages(alloc[p][i]) : pte[dir[q]][v] \in Frames
    BY <1>2, <1>9, <2>2, AllocPagesUser DEF Backed
  <2>5. Backed(alloc[q], dir[q])'
    BY <1>1, <1>4, <1>9, <2>3, <2>4 DEF Backed, TextOK
  <2> QED BY <1>2, <1>3, <2>5, UserCall
<1> QED BY <1>1, <1>2, <1>3, <1>4, <1>5, <1>7, <1>8, <1>10, <1>11, TransferKeeps

\* exec puts the process on a new directory.
LEMMA ExecKeeps ==
  ASSUME MemInv, NEW p \in Procs, NEW d \in Dirs, Exec(p, d), UNCHANGED lost
  PROVE  MemInv'
<1>0. /\ proc[p] = "live" /\ job[p].op = "user" /\ FreeDir(d)
  BY DEF Exec, MayCall
<1>1. /\ dir' = [dir EXCEPT ![p] = d]
      /\ Goto(p, Job("exec", NoProc, dir[p], 0, 0, 1))
      /\ UNCHANGED <<pool, pte, readonly, proc, alloc, checked, saved, lost>>
  BY DEF Exec, USER_PAGE_START
<1>2. dir[p] \in Dirs /\ job[p].dir = NoDir
  BY <1>0, Owners DEF OwnDir
<1>3. PICK j : j = Job("exec", NoProc, dir[p], 0, 0, 1)
  OBVIOUS
<1>4. j \in Jobs /\ j.op = "exec" /\ j.dir = dir[p] /\ j.next = 1
  <2>1. "exec" \in JobOps /\ 0 \in Pages /\ 0 \in 0..NPages /\ 1 \in 0..NPages
    BY Numbers DEF JobOps
  <2> QED BY <1>2, <1>3, <2>1, JobFields
<1>5. /\ job' \in [Procs -> Jobs] /\ job'[p] = j
      /\ \A r \in Procs \ {p} : job'[r] = job[r]
  BY <1>1, <1>3, <1>4, GotoEffect, Owners
<1>6. dir'[p] = d /\ \A r \in Procs \ {p} : dir'[r] = dir[r]
  BY <1>1, Owners DEF MemType
<1>7. MemType'
  BY <1>1, <1>5, Owners DEF MemType
<1>8. \A r \in Procs : dir[r] # d /\ job[r].dir # d
  BY <1>0 DEF FreeDir
<1>9. DirsOK'
  <2>0. \A r \in Procs : job[r].dir # dir[p]
    BY <1>0, <1>2, Owners DEF OwnDir
  <2>5. \A r \in Procs : dir[r] = dir[p] => r = p
    BY <1>0, <1>2, Owners, SoleOwner
  <2>1. \A r \in Procs : OwnDir(r)'
    BY <1>0, <1>1, <1>2, <1>4, <1>5, <1>6, Owners DEF OwnDir
  <2>2. \A r, s \in Procs : dir'[r] = dir'[s] /\ dir'[r] # NoDir =>
          r = s \/ Fills(r, s)' \/ Fills(s, r)'
    BY <1>0, <1>5, <1>6, <1>8, Owners DEF Fills
  <2>3. \A r, s \in Procs : job'[r].dir = job'[s].dir /\ job'[r].dir # NoDir => r = s
    BY <1>4, <1>5, <2>0, Owners
  <2>4. \A r, s \in Procs : job'[r].dir = dir'[s] /\ dir'[s] # NoDir =>
          \/ job'[r].op = "fork" /\ job'[r].child = s
          \/ job'[r].op = "reap" /\ r = s
    BY <1>2, <1>4, <1>5, <1>6, <1>8, <2>5, Owners
  <2> QED BY <2>1, <2>2, <2>3, <2>4 DEF DirsOK
<1>10. \A e \in Dirs : FreeDir(e)' => FreeDir(e)
  BY <1>2, <1>4, <1>5, <1>6, Owners DEF FreeDir
<1>11. CallOK(p)'
  <2>1. readonly[d] = {} /\ \A v \in UserPages : pte[d][v] = Unavailable
    BY <1>0 DEF MemInv, FreeBlank
  <2>2. \A v \in UserPages : ~(v < 1)
    BY Numbers
  <2>3. {v \in Text : v < 1} = {}
    BY <2>2 DEF Text
  <2>4. Backed(alloc[p], job[p].dir)'
    BY <1>0, <1>1, <1>4, <1>5, Owners DEF CallOK, Backed, TextOK
  <2>5. ExecOK(p)'
    BY <1>1, <1>4, <1>5, <1>6, <2>1, <2>2, <2>3, <2>4 DEF ExecOK, Text
  <2> QED BY <1>4, <1>5, <2>5 DEF CallOK, Destructs
<1> QED BY <1>1, <1>5, <1>6, <1>7, <1>9, <1>10, <1>11, TransferKeeps

\* exec fails: the process is back on the old directory.
LEMMA ExecFailKeeps ==
  ASSUME MemInv, NEW p \in Procs, ExecFail(p), UNCHANGED lost
  PROVE  MemInv'
<1>1. /\ job[p].op = "exec" /\ dir' = [dir EXCEPT ![p] = job[p].dir]
      /\ Goto(p, Destruct("exec_undo", NoProc, dir[p]))
      /\ UNCHANGED <<pool, pte, readonly, proc, alloc, checked, saved, lost>>
  BY DEF ExecFail
<1>2. proc[p] = "live" /\ dir[p] \in Dirs /\ job[p].dir \in Dirs /\ job[p].dir # dir[p]
  BY <1>1, LiveDir DEF Plain, SingleThread
<1>3. PICK j : j = Destruct("exec_undo", NoProc, dir[p])
  OBVIOUS
<1>4. j \in Jobs /\ j.op = "exec_undo" /\ j.dir = dir[p] /\ j.next = 1
  <2>1. "exec_undo" \in Destructs
    BY DEF Destructs
  <2> QED BY <1>2, <1>3, <2>1, DestructFields
<1>5. /\ job' \in [Procs -> Jobs] /\ job'[p] = j
      /\ \A r \in Procs \ {p} : job'[r] = job[r]
  BY <1>1, <1>3, <1>4, GotoEffect, Owners
<1>6. dir'[p] = job[p].dir /\ \A r \in Procs \ {p} : dir'[r] = dir[r]
  BY <1>1, Owners DEF MemType
<1>7. MemType'
  BY <1>1, <1>2, <1>5, Owners DEF MemType
<1>8. \A r \in Procs \ {p} : job[r].dir # dir[p] /\ dir[r] # job[p].dir
  BY <1>1, <1>2, Owners DEF OwnDir
<1>9. DirsOK'
  <2>5. \A r \in Procs : dir[r] = dir[p] => r = p
    BY <1>1, <1>2, Owners, SoleOwner
  <2>1. \A r \in Procs : OwnDir(r)'
    BY <1>1, <1>2, <1>4, <1>5, <1>6, Owners DEF OwnDir
  <2>2. \A r, s \in Procs : dir'[r] = dir'[s] /\ dir'[r] # NoDir =>
          r = s \/ Fills(r, s)' \/ Fills(s, r)'
    BY <1>1, <1>5, <1>6, <1>8, Owners DEF Fills
  <2>3. \A r, s \in Procs : job'[r].dir = job'[s].dir /\ job'[r].dir # NoDir => r = s
    BY <1>4, <1>5, <1>8, Owners
  <2>4. \A r, s \in Procs : job'[r].dir = dir'[s] /\ dir'[s] # NoDir =>
          \/ job'[r].op = "fork" /\ job'[r].child = s
          \/ job'[r].op = "reap" /\ r = s
    BY <1>2, <1>4, <1>5, <1>6, <1>8, <2>5, Owners
  <2> QED BY <2>1, <2>2, <2>3, <2>4 DEF DirsOK
<1>10. \A e \in Dirs : FreeDir(e)' => FreeDir(e)
  BY <1>4, <1>5, <1>6 DEF FreeDir
<1>11. CallOK(p)'
  <2>1. DestructOK(p)'
    BY <1>4, <1>5, Numbers DEF DestructOK
  <2>2. Backed(alloc[p], job[p].dir)
    BY <1>1, Owners DEF CallOK, ExecOK
  <2>3. Backed(alloc[p], dir[p])'
    BY <1>1, <1>6, <2>2 DEF Backed, TextOK
  <2> QED BY <1>4, <1>5, <2>1, <2>3 DEF CallOK
<1> QED BY <1>1, <1>5, <1>6, <1>7, <1>9, <1>10, <1>11, TransferKeeps


-----------------------------------------------------------------------------
(***************************************************************************)
(* The start, and the theorems.                                            *)
(***************************************************************************)

\* The frames of the first process are the first ones, each at one page.
LEMMA LoadedFrames ==
  /\ IsFiniteSet(Framed) /\ Cardinality(Framed) \in Nat /\ Cardinality(Framed) <= NFrames
  /\ Loaded \in [UserPages -> Entries]
  /\ \A v \in UserPages \ Framed : Loaded[v] \notin Frames
  /\ \A v \in Framed : Loaded[v] \in 1..Cardinality(Framed)
  /\ \A v, w \in Framed : Loaded[v] = Loaded[w] => v = w
  /\ \A f \in 1..Cardinality(Framed) : \E v \in Framed : Loaded[v] = f
<1>1. IsFiniteSet(UserPages) /\ Framed \in SUBSET UserPages
  BY FS_Interval, Numbers DEF Framed
<1>2. IsFiniteSet(Framed) /\ Cardinality(Framed) \in Nat
  BY <1>1, FS_Subset, FS_CardinalityType
<1>3. PICK c : c = Cardinality(Framed)
  OBVIOUS
<1>4. c \in Nat /\ c <= NFrames
  BY <1>2, <1>3, MemoryAssumption DEF Framed
<1> DEFINE below(v) == {w \in Framed : w <= v}
<1>5. \A v \in Framed : Loaded[v] = Cardinality(below(v))
  BY <1>1 DEF Loaded, Framed
<1>6. \A v \in UserPages \ Framed : Loaded[v] \in {Unavailable, Zero}
  BY MemoryAssumption DEF Loaded, Framed
<1>7. ASSUME NEW v \in Framed
      PROVE  IsFiniteSet(below(v)) /\ Cardinality(below(v)) \in 1..c
  <2>1. below(v) \in SUBSET Framed
    OBVIOUS
  <2>2. IsFiniteSet(below(v)) /\ Cardinality(below(v)) <= c
    BY ONLY <1>2, <1>3, <2>1, FS_Subset
  <2>3. Cardinality(below(v)) \in Nat
    BY ONLY <2>2, FS_CardinalityType
  <2>4. v \in below(v)
    BY <1>1, Numbers
  <2>5. Cardinality(below(v)) # 0
    BY <2>2, <2>4, FS_EmptySet
  <2> HIDE DEF below
  <2> QED BY <1>4, <2>2, <2>3, <2>5
<1>8. ASSUME NEW v \in Framed, NEW w \in Framed, v < w
      PROVE  Cardinality(below(v)) # Cardinality(below(w))
  <2>1. v \in Nat /\ w \in Nat /\ \A u \in Framed : u \in Nat
    BY <1>1, Numbers
  <2>5. /\ \A u \in Framed : u <= v => u <= w
        /\ w <= w /\ ~(w <= v)
    BY <2>1, <1>8
  <2>2. below(v) \in SUBSET below(w)
    BY <2>5
  <2>3. w \in below(w) /\ w \notin below(v)
    BY <2>5
  <2>4. IsFiniteSet(below(w))
    BY <1>7
  <2> HIDE DEF below
  <2> QED BY <2>2, <2>3, <2>4, FS_Subset
<1>9. \A v, w \in Framed : Loaded[v] = Loaded[w] => v = w
  <2> SUFFICES ASSUME NEW v \in Framed, NEW w \in Framed, Loaded[v] = Loaded[w], v # w
               PROVE  FALSE
    OBVIOUS
  <2>1. v < w \/ w < v
    BY <1>1, Numbers
  <2> HIDE DEF below
  <2> QED BY <1>5, <1>8, <2>1
<1>10. \A v \in Framed : Loaded[v] \in 1..c
  BY <1>5, <1>7
<1>11. \A f \in 1..c : \E v \in Framed : Loaded[v] = f
  <2>1. PICK g : g = [v \in Framed |-> Loaded[v]]
    OBVIOUS
  <2>2. g \in Injection(Framed, 1..c)
    BY <1>9, <1>10, <2>1 DEF Injection, IsInjective
  <2>3. IsFiniteSet(1..c) /\ Cardinality(1..c) = c
    BY <1>4, FS_Interval
  <2>4. g \in Surjection(Framed, 1..c)
    BY ONLY <1>3, <2>2, <2>3, FS_Injection
  <2> QED BY <2>1, <2>4 DEF Surjection
<1>12. Loaded \in [UserPages -> Entries]
  <2>1. \A v \in UserPages : Loaded[v] \in Entries
    BY <1>4, <1>6, <1>10, NotFrames, Numbers
  <2> QED BY <2>1 DEF Loaded
<1> QED BY <1>2, <1>3, <1>4, <1>6, <1>9, <1>10, <1>11, <1>12, NotFrames

\* The first process is in order.
LEMMA MemStarts == Init => MemInv
<1> SUFFICES ASSUME Init PROVE MemInv
  OBVIOUS
<1>1. PICK d \in Dirs :
        /\ dir = [p \in Procs |-> IF p = InitProc THEN d ELSE NoDir]
        /\ pte = [e \in Dirs |-> IF e = d THEN Loaded ELSE Blank]
        /\ readonly = [e \in Dirs |-> IF e = d THEN Text ELSE {}]
  BY DEF Init
<1>2. PICK c : c = Cardinality(Framed)
  OBVIOUS
<1>3. c \in Nat /\ NFrames - c \in Nat /\ NFrames \in Nat
  BY <1>2, LoadedFrames, Numbers
<1>4. pool = [i \in 1..(NFrames - c) |-> c + i] /\ lost = {}
  BY <1>2 DEF Init
<1>5. /\ pool \in Seq(Frames) /\ Len(pool) = NFrames - c
      /\ \A i \in 1..(NFrames - c) : pool[i] = c + i
  <2>1. pool \in [1..(NFrames - c) -> Frames]
    BY <1>3, <1>4, Numbers
  <2>2. pool \in Seq(Frames)
    BY <1>3, <2>1, SeqDef
  <2>3. Len(pool) \in Nat /\ 1..Len(pool) = 1..(NFrames - c)
    BY <2>1, <2>2, LenProperties
  <2>4. Len(pool) = NFrames - c
    BY <1>3, <2>3
  <2> QED BY <1>4, <2>2, <2>4
<1>6. Range(pool) = (c + 1)..NFrames
  <2>1. DOMAIN pool = 1..(NFrames - c)
    BY <1>4
  <2>2. ASSUME NEW f \in (c + 1)..NFrames PROVE f \in Range(pool)
    <3>1. f - c \in 1..(NFrames - c) /\ pool[f - c] = f
      BY <1>3, <1>5
    <3> QED BY <2>1, <3>1 DEF Range
  <2>3. ASSUME NEW f \in Range(pool) PROVE f \in (c + 1)..NFrames
    BY <1>3, <1>5, <2>1 DEF Range
  <2> QED BY <2>2, <2>3
<1>7. /\ \A p \in Procs : proc[p] = (IF p = InitProc THEN "live" ELSE "free") /\ alloc[p] = <<>>
      /\ \A p \in Procs : job[p] = User
      /\ \A p \in Procs : dir[p] = IF p = InitProc THEN d ELSE NoDir
      /\ \A p \in Procs : job[p].op = "user" /\ job[p].dir = NoDir
  BY <1>1, UserFields DEF Init
<1>8. MemType
  <2>1. /\ pte \in [Dirs -> [UserPages -> Entries]]
        /\ readonly \in [Dirs -> SUBSET UserPages]
    BY <1>1, LoadedFrames, NotFrames DEF Blank, Text
  <2>2. /\ proc \in [Procs -> {"free", "new", "live", "zombie", "reaped"}]
        /\ dir \in [Procs -> Dirs \cup {NoDir}]
        /\ job \in [Procs -> Jobs]
        /\ checked \in [Procs -> Pages]
    BY <1>1, UserFields, Numbers DEF Init
  <2>3. saved \in [Procs -> [UserPages -> Entries]]
    BY NotFrames DEF Init, Blank
  <2>4. alloc \in [Procs -> Seq(Allocs)]
    BY DEF Init
  <2> QED BY <1>4, <1>5, <2>1, <2>2, <2>3, <2>4 DEF MemType
<1>9. /\ \A v \in UserPages : pte[d][v] = Loaded[v]
      /\ \A e \in Dirs \ {d} : \A v \in UserPages : pte[e][v] = Unavailable
  BY <1>1 DEF Blank
<1>10. FramesOK
  <2>1. Sorted(pool)
    BY <1>3, <1>5 DEF Sorted
  <2>2. \A e, g \in Dirs, v, w \in UserPages :
          pte[e][v] \in Frames /\ pte[e][v] = pte[g][w] => e = g /\ v = w
    <3> SUFFICES ASSUME NEW e \in Dirs, NEW g \in Dirs, NEW v \in UserPages, NEW w \in UserPages,
                        pte[e][v] \in Frames, pte[e][v] = pte[g][w]
                 PROVE  e = g /\ v = w
      OBVIOUS
    <3>1. e = d /\ g = d
      BY <1>9, NotFrames
    <3>2. v \in Framed /\ w \in Framed /\ Loaded[v] = Loaded[w]
      BY <1>9, <3>1, LoadedFrames
    <3> QED BY <3>1, <3>2, LoadedFrames
  <2>3. \A e \in Dirs, v \in UserPages : pte[e][v] \notin Range(pool) \cup lost
    <3> SUFFICES ASSUME NEW e \in Dirs, NEW v \in UserPages
                 PROVE  pte[e][v] \notin (c + 1)..NFrames
      BY <1>4, <1>6
    <3>0. (c + 1)..NFrames \subseteq Frames
      BY <1>3, Numbers
    <3>1. CASE e = d /\ v \in Framed
      <4>1. pte[e][v] \in 1..c
        BY <1>2, <1>9, <3>1, LoadedFrames
      <4> QED BY <1>3, <4>1
    <3>2. CASE e # d \/ v \notin Framed
      <4>1. pte[e][v] \notin Frames
        BY <1>9, <3>2, LoadedFrames, NotFrames
      <4> QED BY <3>0, <4>1
    <3> QED BY <3>1, <3>2
  <2>4. \A f \in Frames :
          f \in Range(pool) \cup lost \/ \E e \in Dirs, v \in UserPages : pte[e][v] = f
    <3> SUFFICES ASSUME NEW f \in Frames, f \notin (c + 1)..NFrames
                 PROVE  \E e \in Dirs, v \in UserPages : pte[e][v] = f
      BY <1>6
    <3>1. f \in 1..c
      BY <1>3, Numbers
    <3>2. PICK v \in Framed : Loaded[v] = f
      BY <1>2, <3>1, LoadedFrames
    <3>3. v \in UserPages
      BY DEF Framed
    <3> QED BY <1>9, <3>2, <3>3
  <2> QED BY <1>4, <2>1, <2>2, <2>3, <2>4 DEF FramesOK
<1>11. DirsOK
  BY <1>7, MemoryAssumption DEF DirsOK, OwnDir
<1>12. FreeBlank
  <2> SUFFICES ASSUME NEW e \in Dirs, FreeDir(e)
               PROVE  readonly[e] = {} /\ \A v \in UserPages : pte[e][v] = Unavailable
    BY DEF FreeBlank
  <2>1. e # d
    BY <1>7, MemoryAssumption DEF FreeDir
  <2> QED BY <1>1, <1>9, <2>1
<1>13. \A p \in Procs : CallOK(p)
  <2> SUFFICES ASSUME NEW p \in Procs PROVE CallOK(p)
    OBVIOUS
  <2>1. \A i \in 1..Len(<<>>) : FALSE
    OBVIOUS
  <2>2. proc[p] = "live" => Backed(alloc[p], dir[p])
    <3>1. TextOK(d)
      BY <1>1, <1>9, LoadedFrames, Numbers DEF TextOK, Text, Framed
    <3> QED BY <1>7, <2>1, <3>1 DEF Backed
  <2> QED BY <1>7, <2>2 DEF CallOK, Destructs
<1> QED BY <1>8, <1>10, <1>11, <1>12, <1>13 DEF MemInv

\* Every step keeps the invariant.
LEMMA MemSteps == MemInv /\ [Next]_vars => MemInv'
<1> SUFFICES ASSUME MemInv, [Next]_vars PROVE MemInv'
  OBVIOUS
<1>1. CASE UNCHANGED vars
  <2>1. UNCHANGED <<pool, pte, readonly, proc, dir, alloc, job, checked, saved, lost>>
    BY <1>1 DEF vars
  <2>2. MemType'
    BY <2>1, Owners DEF MemType
  <2>3. DirsOK' /\ FreeBlank'
    BY <2>1 DEF MemInv, DirsOK, OwnDir, Fills, FreeBlank, FreeDir
  <2>4. ASSUME NEW p \in Procs PROVE CallOK(p)'
    BY <2>1, CallFrame
  <2> QED BY <2>1, <2>2, <2>3, <2>4, FramesStay DEF MemInv
<1>2. ASSUME NEW p \in Procs, Freeing(p)
      PROVE  MemInv'
  BY <1>2, NewUndoKeeps, RemovePageKeeps, DestructPageKeeps, VanishKeeps DEF Freeing
<1>3. ASSUME NEW p \in Procs, Other(p), UNCHANGED lost
      PROVE  MemInv'
  <2>1. ASSUME NEW v \in Pages, NEW n \in 1..NPages, NewPages(p, v, n) PROVE MemInv'
    BY <1>3, <2>1, NewPagesKeeps
  <2>2. CASE NewPage(p) \/ NewPageFail(p) \/ NewDone(p) \/ NewFailed(p)
    BY <1>3, <2>2, NewPageKeeps, NewPageFailKeeps, NewDoneKeeps, NewFailedKeeps
  <2>3. ASSUME NEW v \in UserPages, RemovePages(p, v) PROVE MemInv'
    BY <1>3, <2>3, RemovePagesKeeps
  <2>4. CASE RemoveDone(p) \/ DestructDone(p)
    BY <1>3, <2>4, RemoveDoneKeeps, DestructDoneKeeps
  <2>5. ASSUME NEW q \in Procs, Reap(p, q) PROVE MemInv'
    BY <1>3, <2>5, ReapKeeps
  <2>6. ASSUME NEW q \in Procs, NEW d \in Dirs, Fork(p, q, d) PROVE MemInv'
    BY <1>3, <2>6, ForkKeeps
  <2>7. CASE ForkPage(p) \/ ForkCopied(p) \/ ForkFail(p) \/ ForkDone(p)
    BY <1>3, <2>7, ForkPageKeeps, ForkCopiedKeeps, ForkFailKeeps, ForkDoneKeeps
  <2>8. ASSUME NEW d \in Dirs, Exec(p, d) PROVE MemInv'
    BY <1>3, <2>8, ExecKeeps
  <2>9. CASE ExecPage(p) \/ ExecFail(p) \/ ExecDone(p)
    BY <1>3, <2>9, ExecPageKeeps, ExecFailKeeps, ExecDoneKeeps
  <2>10. ASSUME NEW v \in UserPages, NEW w \in BOOLEAN, PageFault(p, v, w) PROVE MemInv'
    BY <1>3, <2>10, PageFaultKeeps
  <2>11. ASSUME NEW v \in UserPages, DescheduleCheck(p, v) \/ NewPagesArgs(p, v) PROVE MemInv'
    BY <1>3, <2>11, DescheduleCheckKeeps, NewPagesArgsKeeps
  <2>12. CASE DescheduleRead(p)
    BY <1>3, <2>12, DescheduleReadKeeps
  <2> QED BY <1>3, <2>1, <2>2, <2>3, <2>4, <2>5, <2>6, <2>7, <2>8, <2>9, <2>10, <2>11, <2>12
          DEF Other
<1> QED BY <1>1, <1>2, <1>3 DEF Next


\* The whole of memory stays in order: who has which directory, what each
\* call in progress has done to it, and where every frame is.
THEOREM MemoryInvariant == Spec => []MemInv
BY MemStarts, MemSteps, PTL DEF Spec

\* alloc_frame, free_frame and all who map, copy, unmap and roll back keep
\* every frame in one place: once in the pool, or at one page.
THEOREM FrameInOnePlace == Spec => []FrameOnce
<1>1. MemInv => FrameOnce
  <2> SUFFICES ASSUME MemInv PROVE FrameOnce
    OBVIOUS
  <2>1. FramesOK /\ DOMAIN pool = 1..Len(pool)
    BY LenProperties DEF MemInv, MemType
  <2>2. {pool[i] : i \in DOMAIN pool} = Range(pool)
    BY DEF Range
  <2>3. \A i, j \in DOMAIN pool : i < j => pool[i] < pool[j]
    BY <2>1 DEF FramesOK, Sorted
  <2>4. ASSUME NEW f \in Frames, NEW e \in Mapped(f)
        PROVE  /\ Mapped(f) = {e} /\ f \notin Range(pool) /\ f \notin lost
    <3>1. e \in Dirs \X UserPages /\ pte[e[1]][e[2]] = f
      BY DEF Mapped
    <3>2. ASSUME NEW g \in Mapped(f) PROVE g = e
      <4>1. g \in Dirs \X UserPages /\ pte[g[1]][g[2]] = f
        BY DEF Mapped
      <4>2. g[1] = e[1] /\ g[2] = e[2]
        BY <2>1, <3>1, <4>1 DEF FramesOK
      <4> QED BY <3>1, <4>1, <4>2
    <3> QED BY <2>1, <3>1, <3>2 DEF FramesOK
  <2>5. ASSUME NEW f \in Frames PROVE Cardinality(Mapped(f)) <= 1
    <3>1. CASE Mapped(f) = {}
      BY <3>1, FS_EmptySet
    <3>2. CASE Mapped(f) # {}
      <4>1. PICK e : Mapped(f) = {e}
        BY <2>4, <3>2
      <4> QED BY <4>1, FS_Singleton
    <3> QED BY <3>1, <3>2
  <2>6. ASSUME NEW f \in Frames
        PROVE  /\ Mapped(f) # {} => f \notin Range(pool)
               /\ f \in lost => Mapped(f) = {} /\ f \notin Range(pool)
    <3>1. Range(pool) \cap lost = {}
      BY <2>1 DEF FramesOK
    <3> QED BY <2>4, <3>1
  <2> QED BY <2>2, <2>3, <2>5, <2>6 DEF FrameOnce
<1> QED BY <1>1, MemoryInvariant, PTL

\* No failure path of new_pages, fork and exec loses a frame, and wait does not
\* unless it is killed: a frame that is not in the pool is mapped in a directory
\* that a process or a running call has, or free_frame had no list node for it,
\* or task_vanish killed the wait that was releasing it.
THEOREM NoFrameLost == Spec => []NoLeak
<1>1. MemInv => NoLeak
  <2> SUFFICES ASSUME MemInv, NEW f \in Frames, f \notin lost,
                      f \notin {pool[i] : i \in DOMAIN pool}
               PROVE  \E e \in Mapped(f) : ~FreeDir(e[1])
    BY DEF NoLeak
  <2>1. f \notin Range(pool)
    BY DEF Range
  <2>2. PICK d \in Dirs, v \in UserPages : pte[d][v] = f
    BY <2>1 DEF MemInv, FramesOK
  <2>3. ~FreeDir(d)
    BY <2>2, NotFrames DEF MemInv, FreeBlank
  <2>4. <<d, v>> \in Mapped(f) /\ <<d, v>>[1] = d
    BY <2>2 DEF Mapped
  <2> QED BY <2>3, <2>4
<1> QED BY <1>1, MemoryInvariant, PTL

\* A directory belongs to one process and to no call that releases it, through
\* fork that fails, exec and its way back, and wait; and a parent is on the
\* directory of its child in the middle of fork only, while the child is not
\* there to run.
THEOREM DirectoriesPrivate == Spec => []DirsPrivate
<1>1. MemInv => DirsPrivate
  <2> SUFFICES ASSUME MemInv, NEW p \in Procs, proc[p] \in {"live", "zombie"}
               PROVE  /\ dir[p] \in Dirs
                      /\ \A q \in Procs : job[q].dir # dir[p]
                      /\ \A q \in Procs \ {p} : dir[q] = dir[p] =>
                           job[p].op = "fork_copy" /\ job[p].child = q /\ proc[q] = "new"
    BY DEF DirsPrivate
  <2>1. dir[p] \in Dirs /\ dir[p] # NoDir
    BY Owners DEF OwnDir
  <2>2. \A q \in Procs : job[q].dir # dir[p]
    BY <2>1, Owners DEF OwnDir
  <2>3. \A q \in Procs \ {p} : dir[q] = dir[p] => Fills(p, q)
    BY <2>1, Owners DEF OwnDir, Fills
  <2> QED BY <2>1, <2>2, <2>3, Owners DEF OwnDir, Fills
<1> QED BY <1>1, MemoryInvariant, PTL

\* What new_pages has recorded is backed by frames, in order and disjoint, and
\* the text stays the only read-only part.
THEOREM AllocationsBacked == Spec => []AllocBacked
<1>1. MemInv => AllocBacked
  <2> SUFFICES ASSUME MemInv, NEW p \in Procs, proc[p] = "live",
                      job[p].op \notin {"exec", "exec_free"}
               PROVE  /\ \A i, j \in DOMAIN alloc[p] : i < j =>
                           alloc[p][i].base + alloc[p][i].len <= alloc[p][j].base
                      /\ \A i \in DOMAIN alloc[p] : \A v \in AllocPages(alloc[p][i]) :
                           v \in UserPages /\ pte[Home(p)][v] \in Frames
                      /\ readonly[Home(p)] = Text
    BY DEF AllocBacked
  <2>1. Backed(alloc[p], Home(p)) /\ alloc[p] \in Seq(Allocs)
    BY Owners DEF CallOK, CopyOK, MemType, Home
  <2>2. DOMAIN alloc[p] = 1..Len(alloc[p])
    BY <2>1, LenProperties
  <2>3. \A i \in 1..Len(alloc[p]) : AllocPages(alloc[p][i]) \subseteq UserPages
    BY <2>1, AllocPagesUser
  <2> QED BY <2>1, <2>2, <2>3 DEF Backed, TextOK
<1> QED BY <1>1, MemoryInvariant, PTL

\* A step of another process, or of another call, does not end the roll-back
\* of a new_pages.
LEMMA OnlyNewFailed ==
  ASSUME MemInv, Next, NEW p \in Procs, job[p].op = "new_undo", job'[p].op = "user"
  PROVE  NewFailed(p)
<1>0. /\ job \in [Procs -> Jobs] /\ job[p] \in Jobs /\ proc[p] = "live"
  BY Owners, LiveDir DEF MemType
<1>1. PICK r \in Procs : Freeing(r) \/ Other(r)
  BY DEF Next
<1>2. ASSUME NEW j, Goto(r, j) PROVE r = p /\ j.op = "user"
  BY <1>0, <1>2 DEF Goto
<1>3. ~Freeing(r)
  <2>1. ~NewUndo(r)
    BY <1>0, <1>2 DEF NewUndo, Advance, Jobs
  <2>2. ~RemovePage(r)
    BY <1>2 DEF RemovePage, Advance
  <2>3. ~DestructPage(r)
    BY <1>2 DEF DestructPage, Advance, Destructs
  <2>4. ~Vanish(r)
    BY <1>0 DEF Vanish, Reaping, MayCall
  <2> QED BY <2>1, <2>2, <2>3, <2>4 DEF Freeing
<1>4. ASSUME NEW v, NEW n PROVE ~NewPages(r, v, n)
  BY <1>2 DEF NewPages, MayCall
<1>5. ~(NewPage(r) \/ NewPageFail(r) \/ NewDone(r))
  BY <1>2 DEF NewPage, NewPageFail, NewDone, Advance, UndoNew
<1>6. ASSUME NEW v PROVE ~RemovePages(r, v)
  BY <1>2 DEF RemovePages, MayCall
<1>7. ~(RemoveDone(r) \/ DestructDone(r))
  BY <1>2 DEF RemoveDone, DestructDone, Destructs
<1>8. ASSUME NEW q \in Procs PROVE ~Reap(r, q)
  BY <1>0 DEF Reap, Goto
<1>9. ASSUME NEW q, NEW d PROVE ~Fork(r, q, d) /\ ~Exec(r, d)
  BY <1>2 DEF Fork, Exec, MayCall
<1>10. ~(ForkPage(r) \/ ForkCopied(r) \/ ForkFail(r) \/ ForkDone(r))
  BY <1>2 DEF ForkPage, ForkCopied, ForkFail, ForkDone, Advance
<1>11. ~(ExecPage(r) \/ ExecFail(r) \/ ExecDone(r))
  BY <1>2 DEF ExecPage, ExecFail, ExecDone, Advance
<1>12. ASSUME NEW v, NEW w PROVE ~PageFault(r, v, w) /\ ~DescheduleCheck(r, v) /\ ~NewPagesArgs(r, v)
  BY <1>2 DEF PageFault, ResolveFault, DescheduleCheck, NewPagesArgs, MayCall
<1>13. ~DescheduleRead(r)
  BY <1>2 DEF DescheduleRead, MayCall
<1>14. NewFailed(r)
  BY <1>1, <1>3, <1>4, <1>5, <1>6, <1>7, <1>8, <1>9, <1>10, <1>11, <1>12, <1>13 DEF Other
<1> QED BY <1>2, <1>14 DEF NewFailed

\* A new_pages that fails leaves every entry as it found it.
THEOREM NewPagesAllOrNothing == Spec => AllOrNothing
<1>1. MemInv /\ [Next]_vars =>
        [\A p \in Procs :
           job[p].op = "new_undo" /\ job'[p].op = "user" => pte'[dir[p]] = saved[p]]_vars
  <2> SUFFICES ASSUME MemInv, Next, NEW p \in Procs,
                      job[p].op = "new_undo", job'[p].op = "user"
               PROVE  pte'[dir[p]] = saved[p]
    OBVIOUS
  <2>1. /\ NewOK(p) /\ dir[p] \in Dirs /\ job[p] \in Jobs
        /\ pte[dir[p]] \in [UserPages -> Entries] /\ saved[p] \in [UserPages -> Entries]
    BY LiveDir, Owners DEF CallOK, MemType
  <2>2. job[p].next = job[p].len /\ pte' = pte
    BY OnlyNewFailed DEF NewFailed
  <2>3. First(p) = job[p].base + job[p].len /\ Limit(p) = job[p].base + job[p].len
    BY <2>2 DEF First, Limit
  <2>4. job[p].base + job[p].len \in Nat
    <3>1. job[p].base \in Pages /\ job[p].len \in 0..NPages
      BY <2>1 DEF Jobs
    <3> QED BY <3>1, Numbers
  <2>5. \A v \in UserPages : pte[dir[p]][v] = saved[p][v]
    BY <2>1, <2>3, <2>4, Numbers DEF NewOK
  <2> QED BY <2>1, <2>2, <2>5
<1> QED BY <1>1, MemoryInvariant, PTL DEF Spec, AllOrNothing
==============================================================================
