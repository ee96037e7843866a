------------------------------- MODULE Readline -------------------------------
(***************************************************************************)
(* readline and print (system_call.c) with the keyboard driver             *)
(* (keyboard.c): one thread at a time owns input_lock and edits the line   *)
(* in ch_buf; the others wait in the READLINE list.  The owner waits for   *)
(* keys in front of them, as the first reader.                             *)
(***************************************************************************)
EXTENDS Scheduler

CONSTANTS
  ProcOf,        \* ProcOf[t]: the process of t (threads come and go in
                 \* Scheduler)
  Readers,       \* the threads that call readline
  Printers,      \* the threads that call print
  BUF_LEN,       \* the capacity of scancode_buf and of ch_buf
  Lens           \* the lengths that are passed to readline

ASSUME ReadlineAssumption ==
  /\ IsFiniteSet(Threads)
  /\ ProcOf \in [Threads -> Procs] /\ ProcOf[IdleThread] = IdleProc
  /\ Readers \cup Printers \subseteq Threads \ {IdleThread}
  /\ BUF_LEN \in Nat \ {0} /\ Lens \subseteq 1..BUF_LEN

VARIABLES
  scancode_buf,  \* keys that were pressed and not looked at yet
  ch_buf,        \* the line that is typed, or what is left of the last one
  input_lock,    \* the holder
  output_lock,   \* the holder
  ch             \* ch[t]: the character that t's readline extracted

rdvars == <<scancode_buf, ch_buf, input_lock, output_lock, ch>>

\* What process_scancode makes of a scancode: a character, KHE_ENTER,
\* KHE_BACKSPACE, or nothing (a key released, a shift key).
Chars == {"char", "enter", "backspace"}
Keys  == Chars \cup {"nothing"}

\* The orders the READY list can be in when every thread but idle is in it:
\* the threads of a process are next to one another.
ReadyOrders ==
  {s \in SetToSeqs(Threads \ {IdleThread}) :
     \A i, j, k \in DOMAIN s :
       i < j /\ j < k /\ ProcOf[s[i]] = ProcOf[s[k]]
         => ProcOf[s[j]] = ProcOf[s[i]]}

\* The idle thread runs, the others are ready.
RdInit ==
  /\ \E ready \in ReadyOrders :
       thr = [list   |-> [l \in ListIdx |->
                            CASE l = "RUNNING" -> <<IdleThread>>
                              [] l = "READY"   -> ready
                              [] OTHER         -> <<>>],
              state  |-> [t \in Threads |->
                            IF t = IdleThread THEN "RUNNING" ELSE "READY"],
              detail |-> [t \in Threads |-> NoDetail],
              pcb    |-> ProcOf]
  /\ tick = 0
  /\ tcbs = [p \in Procs |->
               SetToSeq({t \in Threads : ProcOf[t] = p})]
  /\ parent = [p \in Procs |-> IF p = IdleProc THEN NoProc ELSE IdleProc]
  /\ lock = [p \in Procs |-> NoThread]
  /\ op = [t \in Threads |-> "user"]
  /\ node = [t \in Threads |-> NoThread]
  /\ scancode_buf = <<>>
  /\ ch_buf = <<>>
  /\ input_lock = NoThread
  /\ output_lock = NoThread
  /\ ch = [t \in Threads |-> "nothing"]

kept == <<tick, tcbs, parent, node>>

-----------------------------------------------------------------------------
(***************************************************************************)
(* The buffers.                                                            *)
(***************************************************************************)

\* push_tail fails when the buffer is full; nobody looks at the result.
PushTail(buf, e) == IF Len(buf) < BUF_LEN THEN Append(buf, e) ELSE buf

\* pop_tail
PopTail(buf) == IF buf = <<>> THEN buf ELSE Front(buf)

\* pop_head, n times or until the buffer is empty
PopHeads(buf, n) == SubSeq(buf, n + 1, Len(buf))

\* extract_ch: where the first scancode with a character is, 0 if none is.
FirstChar(buf) == SelectInSeq(buf, LAMBDA k : k \in Chars)

-----------------------------------------------------------------------------
(***************************************************************************)
(* Interrupts, and mutex_lock of output_lock.                              *)
(***************************************************************************)

\* A waiter is resumed, and takes input_lock, with interrupts disabled.
Interruptible == op[Me] # "rl_granted"

RdTimer == Interruptible /\ Timer /\ UNCHANGED rdvars

\* Mutant: the first reader is woken by a character only.
KeyboardCharsOnly(k) ==
  LET s == thr.list["READLINE"]
  IN  /\ Interruptible
      /\ scancode_buf' = PushTail(scancode_buf, k)
      /\ thr' = IF s # <<>> /\ thr.detail[Head(s)].first_reader /\ k = "char"
                THEN SwitchContext(thr, Head(s), "READY", NoDetail)
                ELSE thr
      /\ UNCHANGED <<kept, lock, op, ch_buf, input_lock, output_lock, ch>>

\* handle_keyboard: the first reader, if it waits, gets the processor.
Keyboard(k) ==
  LET s == thr.list["READLINE"]
  IN  /\ Interruptible
      /\ scancode_buf' = PushTail(scancode_buf, k)
      /\ thr' = IF s # <<>> /\ thr.detail[Head(s)].first_reader
                THEN SwitchContext(thr, Head(s), "READY", NoDetail)
                ELSE thr
      /\ UNCHANGED <<kept, lock, op, ch_buf, input_lock, output_lock, ch>>

\* The PCB lock is taken at the beginning of readline and for every character.
RdMutexLock ==
  /\ op[Me] \in {"readline", "rl_read"} /\ lock[Mine] # Me
  /\ SpinLock(Mine)
  /\ UNCHANGED <<kept, op, rdvars>>

\* mutex_lock(&output_lock), then on to place o.
LockOutput(o) ==
  /\ \/ /\ output_lock = NoThread
        /\ output_lock' = Me
        /\ Goto(o)
        /\ UNCHANGED thr
     \/ /\ output_lock # NoThread
        /\ thr' = YieldTo(thr, output_lock) \/ thr' = TakeTurn(thr)
        /\ UNCHANGED <<output_lock, op>>
  /\ UNCHANGED <<kept, lock, scancode_buf, ch_buf, input_lock, ch>>

-----------------------------------------------------------------------------
(***************************************************************************)
(* handle_print                                                            *)
(***************************************************************************)
PrintCall ==
  /\ op[Me] = "user" /\ Me \in Printers
  /\ Goto("print")
  /\ UNCHANGED <<kept, thr, lock, rdvars>>

PrintLock == op[Me] = "print" /\ LockOutput("pr_put")

PrintDone ==
  /\ op[Me] = "pr_put"
  /\ output_lock' = NoThread
  /\ Goto("user")
  /\ UNCHANGED <<kept, thr, lock, scancode_buf, ch_buf, input_lock, ch>>

-----------------------------------------------------------------------------
(***************************************************************************)
(* handle_readline                                                         *)
(***************************************************************************)
ReadCall ==
  /\ op[Me] = "user" /\ Me \in Readers
  /\ Goto("readline")
  /\ UNCHANGED <<kept, thr, lock, rdvars>>

\* Me waits in the READLINE list and goes on at o.
WaitInput(first, o) ==
  LET next == FindNextThread(thr, tcbs[Mine])
  IN  /\ next # NoThread    \* else handle_halt
      /\ thr' = SwitchContext(FindNextRotate(thr, tcbs[Mine]), next, "READLINE",
                              [wakeup_time |-> 0, first_reader |-> first])
      /\ Unlock
      /\ Goto(o)

\* Mutant: what is left of the last line is not looked at.
ReadStartAnew == Goto("rl_read")

\* With input_lock: what is left of the last line is enough, if anything is.
ReadStart == Goto(IF ch_buf = <<>> THEN "rl_read" ELSE "rl_copy")

\* mutex_try_lock(&input_lock); if it fails the thread waits.
TryInput ==
  /\ Holding("readline")
  /\ \/ /\ input_lock = NoThread
        /\ input_lock' = Me
        /\ Unlock
        /\ ReadStart
        /\ UNCHANGED thr
     \/ /\ input_lock # NoThread
        /\ WaitInput(FALSE, "rl_granted")
        /\ UNCHANGED input_lock
  /\ UNCHANGED <<kept, scancode_buf, ch_buf, output_lock, ch>>

\* Resumed by the last owner; the result of mutex_try_lock is ignored.
Granted ==
  /\ op[Me] = "rl_granted"
  /\ input_lock' = IF input_lock = NoThread THEN Me ELSE input_lock
  /\ ReadStart
  /\ UNCHANGED <<kept, thr, lock, scancode_buf, ch_buf, output_lock, ch>>

\* extract_ch, under the PCB lock and with interrupts disabled; without a
\* character the thread waits as the first reader and tries again.
ReadChar ==
  LET i == FirstChar(scancode_buf)
  IN  /\ Holding("rl_read")
      /\ \/ /\ i = 0
            /\ scancode_buf' = <<>>
            /\ WaitInput(TRUE, "rl_read")
            /\ UNCHANGED ch
         \/ /\ i # 0
            /\ scancode_buf' = PopHeads(scancode_buf, i)
            /\ ch' = [ch EXCEPT ![Me] = scancode_buf[i]]
            /\ Unlock
            /\ Goto("rl_echo")
            /\ UNCHANGED thr
      /\ UNCHANGED <<kept, ch_buf, input_lock, output_lock>>

Echo == op[Me] = "rl_echo" /\ LockOutput("rl_put")

\* Mutant: Enter does not end the line when the buffer has no room for it.
EditFull ==
  /\ op[Me] = "rl_put"
  /\ output_lock' = NoThread
  /\ ch_buf' = IF ch[Me] = "backspace" THEN PopTail(ch_buf)
                                       ELSE PushTail(ch_buf, ch[Me])
  /\ Goto(IF ch[Me] = "enter" /\ Len(ch_buf) < BUF_LEN THEN "rl_copy"
                                                       ELSE "rl_read")
  /\ ch' = [ch EXCEPT ![Me] = "nothing"]
  /\ UNCHANGED <<kept, thr, lock, scancode_buf, input_lock>>

\* putbyte, and the line is edited; Enter ends it.  (ch is dead then.)
Edit ==
  /\ op[Me] = "rl_put"
  /\ output_lock' = NoThread
  /\ ch_buf' = IF ch[Me] = "backspace" THEN PopTail(ch_buf)
                                       ELSE PushTail(ch_buf, ch[Me])
  /\ Goto(IF ch[Me] = "enter" THEN "rl_copy" ELSE "rl_read")
  /\ ch' = [ch EXCEPT ![Me] = "nothing"]
  /\ UNCHANGED <<kept, thr, lock, scancode_buf, input_lock>>

\* Mutant: input_lock stays locked for the thread that is resumed.
ReleaseHeld(len) ==
  /\ op[Me] = "rl_copy"
  /\ ch_buf' = PopHeads(ch_buf, len)
  /\ input_lock' = IF thr.list["READLINE"] = <<>> THEN NoThread ELSE input_lock
  /\ Goto("user")
  /\ thr' = IF thr.list["READLINE"] = <<>> THEN thr
            ELSE SwitchContext(thr, Head(thr.list["READLINE"]), "READY",
                               NoDetail)
  /\ UNCHANGED <<kept, lock, scancode_buf, output_lock, ch>>

\* Up to len characters, as many as the caller asked for, go to it.  Then,
\* with interrupts disabled, input_lock is released and the first waiter gets
\* the processor.
Release(len) ==
  /\ op[Me] = "rl_copy"
  /\ ch_buf' = PopHeads(ch_buf, len)
  /\ input_lock' = NoThread
  /\ Goto("user")
  /\ thr' = IF thr.list["READLINE"] = <<>> THEN thr
            ELSE SwitchContext(thr, Head(thr.list["READLINE"]), "READY",
                               NoDetail)
  /\ UNCHANGED <<kept, lock, scancode_buf, output_lock, ch>>

-----------------------------------------------------------------------------
\* A step of the running thread in readline or print.
RdStep ==
  \/ RdMutexLock \/ TryInput \/ Granted \/ ReadChar
  \/ Echo \/ Edit \/ (\E len \in Lens : Release(len))
  \/ PrintLock \/ PrintDone

rvars == <<vars, rdvars>>

RdNext ==
  \/ RdTimer
  \/ \E k \in Keys : Keyboard(k)
  \/ PrintCall
  \/ ReadCall
  \/ RdStep

RdSpec == RdInit /\ [][RdNext]_rvars

\* A step of t that is not one more turn of a spinning mutex_lock, and when
\* t can take one.
Progress(t) == Me = t /\ RdStep /\ (op'[t] # op[t] \/ lock' # lock)

CanProgress(t) ==
  /\ Me = t /\ op[t] # "user"
  /\ op[t] \in {"readline", "rl_read"} => lock[Mine] \in {NoThread, t}
  /\ op[t] \in {"print", "rl_echo"} => output_lock = NoThread

\* The timer keeps interrupting; a thread that gets the processor again and
\* again gets on if the lock it spins on is free; at some time nobody prints
\* any more (mutex_lock promises nothing to a thread that spins on a lock
\* which others keep taking); and the user keeps pressing Enter.  Weak and strong fairness, with the
\* enabling conditions written out.
RdFairSpec ==
  /\ RdSpec
  /\ []<><<RdTimer>>_rvars \/ []<>~(Interruptible /\ TimerEnabled)
  /\ \A t \in Threads \ {IdleThread} :
       []<><<Progress(t)>>_rvars \/ <>[]~CanProgress(t)
  /\ <>[](\A t \in Threads : op[t] # "print")
  /\ []<><<Keyboard("enter")>>_scancode_buf
       \/ <>[]~(Interruptible /\ Len(scancode_buf) < BUF_LEN)
-----------------------------------------------------------------------------
(***************************************************************************)
(* Properties.                                                             *)
(***************************************************************************)
ReadPlaces == {"rl_read", "rl_echo", "rl_put", "rl_copy"}

\* At most one thread is past the entry of readline, and it has input_lock,
\* although a thread that is resumed takes it without looking at the result.
OneReader ==
  \A t \in Threads : op[t] \in ReadPlaces => input_lock = t

\* No key is lost on the way to the sleeping owner: when it waits, it is at
\* the front, where the keyboard finds it, and no key is left to be read.
NoLostKey ==
  \A t \in Threads :
    thr.state[t] = "READLINE" /\ op[t] = "rl_read" =>
      /\ Head(thr.list["READLINE"]) = t /\ thr.detail[t].first_reader
      /\ scancode_buf = <<>>

\* ch_buf holds one complete line at most: an Enter in it is its last
\* character, and no owner edits while there is one, that is before what is
\* left of a line has been handed out.
BufOneLine ==
  /\ \A i \in DOMAIN ch_buf : ch_buf[i] = "enter" => i = Len(ch_buf)
  /\ \A t \in Threads :
       op[t] \in {"rl_read", "rl_echo", "rl_put"} =>
         \A i \in DOMAIN ch_buf : ch_buf[i] # "enter"

\* A thread that owns input_lock or waits for it returns from readline, if
\* the user presses Enter again and again: no key that ends a line is lost,
\* and no waiter is forgotten or overtaken for ever, also when the buffers
\* are full.
ReadlineReturns ==
  \A t \in Threads :
    op[t] \in ReadPlaces \cup {"rl_granted"} ~> op[t] = "user"
===============================================================================
