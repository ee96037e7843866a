-------------------------------- MODULE Guest --------------------------------
(***************************************************************************)
(* A guest under the hypervisor (virtual_interrupt.c and handle in         *)
(* interrupt.c) beside a thread that prints and a thread in readline:      *)
(* hypervisor calls, the delivery of virtual interrupts, and the console   *)
(* and the scancode buffer the guest shares with the host.                 *)
(*                                                                         *)
(* Which thread runs is left open here; Scheduler has the rules.           *)
(***************************************************************************)
EXTENDS Console, Sequences, FiniteSets, SequencesExt

CONSTANTS
  Rows, Cols,    \* the arguments that are tried, valid or not
  Colors,
  BUF_LEN,       \* the capacity of scancode_buf
  MaxFrames      \* the interrupt frames the guest's stack has room for

ASSUME GuestAssumption ==
  /\ Rows \subseteq Int /\ Cols \subseteq Int /\ Colors \subseteq Int
  /\ BUF_LEN \in Nat \ {0} /\ MaxFrames \in Nat

VARIABLES
  cpu,           \* the thread that runs: "guest", "printer" or "reader"
  con,           \* the console
  output_lock,   \* its holder, "free" when unlocked
  scancode_buf,  \* how many keys are in it
  gat,           \* where the guest is
  readable,      \* the buffer it prints is within its memory
  old,           \* old_row, old_col and old_color of hv_print_at
  interrupt_enable_flag,
  virtual_idt,   \* the slots that have a handler
  frames,        \* the interrupt frames on the guest's stack, innermost last
  hat,           \* where the printer is
  asleep         \* the reader waits for keys, as the first reader

hostvars  == <<cpu, con, output_lock>>
keyvars   == <<scancode_buf, asleep>>
guestvars == <<gat, readable, old, interrupt_enable_flag, virtual_idt, frames>>
gvars == <<hostvars, keyvars, guestvars, hat>>

Vectors  == {"timer", "key", "fault"}
ConCalls == {"hv_print", "hv_print_at", "hv_color", "hv_cursor",
             "hv_get_cursor"}

GInit ==
  /\ cpu = "guest"
  /\ con = Con(0, 0, 0)
  /\ output_lock = "free"
  /\ scancode_buf = 0
  /\ gat = "run" /\ readable = TRUE
  /\ old = Con(0, 0, 0)
  /\ interrupt_enable_flag = FALSE     \* a new PCB is zeroed
  /\ virtual_idt = {}
  /\ frames = <<>>
  /\ hat = "user"
  /\ asleep = FALSE

\* The threads the scheduler may choose.
Runnable == {"printer"} \cup (IF gat = "dead" THEN {} ELSE {"guest"})
                        \cup (IF asleep THEN {} ELSE {"reader"})

\* The guest runs its own code, or the host's in a hypervisor call.
InGuest == cpu = "guest" /\ gat = "run"
InCall  == cpu = "guest" /\ gat \in ConCalls \cup {"pa_put"}

\* handle_hv_exit, also for crash_guest: handle_vanish runs another thread.
\* (old and frames are of no use any more.)
Exit ==
  /\ gat' = "dead"
  /\ cpu' \in Runnable \ {"guest"}
  /\ readable' = TRUE /\ old' = Con(0, 0, 0) /\ frames' = <<>>

-----------------------------------------------------------------------------
(***************************************************************************)
(* handle_virtual_interrupt: delivery.                                     *)
(***************************************************************************)

\* Mutant: the eflags of the host are saved, where interrupts are enabled.
SavedFlagHost == TRUE

\* EFL_IF in the eflags that are pushed is the guest's own flag.
SavedFlag == interrupt_enable_flag

\* Interrupt v reaches its handler, if the guest has one and its stack has
\* room; otherwise the guest crashes.
Deliver(v) ==
  IF v \in virtual_idt /\ Len(frames) < MaxFrames
  THEN /\ frames' = Append(frames, [vector |-> v, flag |-> SavedFlag])
       /\ interrupt_enable_flag' = FALSE
       /\ gat' = "run"
       /\ UNCHANGED <<cpu, readable, old>>
  ELSE /\ Exit
       /\ UNCHANGED interrupt_enable_flag

\* A virtual exception is delivered whatever the flag is.
Fault ==
  /\ InGuest
  /\ Deliver("fault")
  /\ UNCHANGED <<con, output_lock, keyvars, virtual_idt, hat>>

\* The host's handle_timer comes first, and may run another thread; the rest
\* of the handler, with interrupts still off, when the guest is back.
GuestTimer ==
  /\ InGuest
  /\ gat' = "timer"
  /\ cpu' \in Runnable
  /\ UNCHANGED <<con, output_lock, keyvars, readable, old,
                 interrupt_enable_flag, virtual_idt, frames, hat>>

GuestTimerBack ==
  /\ cpu = "guest" /\ gat = "timer"
  /\ \/ /\ interrupt_enable_flag
        /\ Deliver("timer")
     \/ /\ ~interrupt_enable_flag
        /\ gat' = "run"
        /\ UNCHANGED <<cpu, readable, old, interrupt_enable_flag, frames>>
  /\ UNCHANGED <<con, output_lock, keyvars, virtual_idt, hat>>

\* push_tail, whose result nobody looks at
PushTail(n) == IF n < BUF_LEN THEN n + 1 ELSE n

\* Mutant: a guest that has disabled interrupts leaves the key where it is.
GuestKeyKeep ==
  /\ InGuest
  /\ \/ /\ interrupt_enable_flag
        /\ scancode_buf' = PushTail(scancode_buf) - 1
        /\ Deliver("key")
     \/ /\ ~interrupt_enable_flag
        /\ scancode_buf' = PushTail(scancode_buf)
        /\ UNCHANGED <<cpu, readable, old, interrupt_enable_flag, frames, gat>>
  /\ UNCHANGED <<con, output_lock, asleep, virtual_idt, hat>>

\* The key goes through scancode_buf: the guest gets the oldest one in it, or
\* loses it when it has disabled interrupts.
GuestKey ==
  /\ InGuest
  /\ scancode_buf' = PushTail(scancode_buf) - 1
  /\ \/ /\ interrupt_enable_flag
        /\ Deliver("key")
     \/ /\ ~interrupt_enable_flag
        /\ UNCHANGED <<cpu, readable, old, interrupt_enable_flag, frames, gat>>
  /\ UNCHANGED <<con, output_lock, asleep, virtual_idt, hat>>

-----------------------------------------------------------------------------
(***************************************************************************)
(* Hypervisor calls that do not use the console.                           *)
(***************************************************************************)

\* handle_hv_enable_interrupts and handle_hv_disable_interrupts.  The guest
\* does not enable them in the handler of a timer or key interrupt.
InHandler ==
  \E i \in DOMAIN frames : frames[i].vector \in {"timer", "key"}

HvSetFlag(b) ==
  /\ InGuest /\ (b => ~InHandler)
  /\ interrupt_enable_flag' = b
  /\ UNCHANGED <<hostvars, keyvars, gat, readable, old, virtual_idt, frames,
                 hat>>

\* handle_hv_setidt.  irqno is not checked from below: with -2 the address is
\* written to interrupt_enable_flag, which the guest may do where it may
\* enable interrupts; -1 is esp0, of guest user mode.  (Below these are the
\* fields of the host's own PCB: the guest is taken not to write there.)
HvSetIdt(v, null) ==
  /\ InGuest
  /\ \/ /\ v \in Vectors
        /\ virtual_idt' =
             IF null THEN virtual_idt \ {v} ELSE virtual_idt \cup {v}
        /\ UNCHANGED interrupt_enable_flag
     \/ /\ v = "flag" /\ (null \/ ~InHandler)
        /\ interrupt_enable_flag' = ~null
        /\ UNCHANGED virtual_idt
  /\ UNCHANGED <<hostvars, keyvars, gat, readable, old, frames, hat>>

\* handle_hv_iret, called by a handler with the eflags of its frame.
HvIret ==
  /\ InGuest /\ frames # <<>>
  /\ interrupt_enable_flag' = Last(frames).flag
  /\ frames' = Front(frames)
  /\ UNCHANGED <<hostvars, keyvars, gat, readable, old, virtual_idt, hat>>

\* hv_exit, and what crashes the guest: arguments out of its memory (a fault
\* in host mode), hv_iret to guest user mode or with bad flags, hv_setpd,
\* hv_adjustpg, any call number or software interrupt without a handler.
HvExit ==
  /\ InGuest
  /\ Exit
  /\ UNCHANGED <<con, output_lock, keyvars, interrupt_enable_flag, virtual_idt,
                 hat>>

-----------------------------------------------------------------------------
(***************************************************************************)
(* Hypervisor calls that use the console.                                  *)
(***************************************************************************)

\* Mutant: the buffer is not checked.
HostReadableAny(b) == TRUE

\* is_host_readable: all the memory of a guest is mapped, so what is within
\* it can be read.
HostReadable(b) == b

\* The buffer (or, for hv_get_cursor, the results) may be out of the guest's
\* memory; then it crashes.
HvCall(o, b) ==
  /\ InGuest
  /\ o \in {"hv_color", "hv_cursor"} => b
  /\ \/ /\ HostReadable(b)
        /\ gat' = o /\ readable' = b
        /\ UNCHANGED <<cpu, old, frames>>
     \/ /\ ~HostReadable(b)
        /\ Exit
  /\ UNCHANGED <<con, output_lock, keyvars, interrupt_enable_flag, virtual_idt,
                 hat>>

\* mutex_lock(&output_lock): take it, or yield.
TakeOutput(t) ==
  \/ /\ output_lock = "free"
     /\ output_lock' = t
     /\ UNCHANGED cpu
  \/ /\ output_lock # "free"
     /\ cpu' \in Runnable
     /\ UNCHANGED output_lock

HvLock ==
  /\ cpu = "guest" /\ gat \in ConCalls /\ output_lock # "guest"
  /\ TakeOutput("guest")
  /\ UNCHANGED <<con, keyvars, guestvars, hat>>

Locked(o) == cpu = "guest" /\ gat = o /\ output_lock = "guest"

\* The console is c and unlocked, and the guest goes on.
Done(c) ==
  /\ con' = c
  /\ output_lock' = "free"
  /\ gat' = "run" /\ readable' = TRUE
  /\ UNCHANGED <<cpu, keyvars, old, interrupt_enable_flag, virtual_idt, frames,
                 hat>>

\* The console is c and unlocked, and the guest crashes.
DoneCrash(c) ==
  /\ con' = c
  /\ output_lock' = "free"
  /\ Exit
  /\ UNCHANGED <<keyvars, interrupt_enable_flag, virtual_idt, hat>>

\* putbytes faults in host mode: handle crashes the guest where it is.  (No
\* buffer that HostReadable lets through does that.)
HostFault ==
  /\ Exit
  /\ UNCHANGED <<con, output_lock, keyvars, interrupt_enable_flag, virtual_idt,
                 hat>>

\* putbytes, which prints any text byte after byte.
PutNext(b) ==
  /\ con' = PutByte(con, b)
  /\ UNCHANGED <<cpu, output_lock, keyvars, guestvars, hat>>

HvPrint(b) ==
  /\ Locked("hv_print")
  /\ IF readable THEN PutNext(b) ELSE HostFault

HvPrintDone == Locked("hv_print") /\ Done(con)

HvGetCursor == Locked("hv_get_cursor") /\ Done(con)

HvColor(color) ==
  /\ Locked("hv_color")
  /\ IF ColorOK(color) THEN Done(SetColor(con, color)) ELSE DoneCrash(con)

HvCursor(row, col) ==
  /\ Locked("hv_cursor")
  /\ IF ValidatePos(row, col) THEN Done(Place(con, row, col))
                              ELSE DoneCrash(con)

\* Mutant: a bad colour does not put the cursor back.
PrintAtSetNoUndo(row, col, color) ==
  /\ Locked("hv_print_at")
  /\ IF ValidatePos(row, col) /\ ColorOK(color)
     THEN /\ old' = con
          /\ con' = SetColor(Place(con, row, col), color)
          /\ gat' = "pa_put"
          /\ UNCHANGED <<cpu, output_lock, keyvars, readable,
                         interrupt_enable_flag, virtual_idt, frames, hat>>
     ELSE DoneCrash(IF ValidatePos(row, col) THEN Place(con, row, col)
                                             ELSE con)

\* handle_hv_print_at.  A bad position or colour: the cursor and the colour
\* are put back and the guest crashes.
PrintAtSet(row, col, color) ==
  /\ Locked("hv_print_at")
  /\ IF ValidatePos(row, col) /\ ColorOK(color)
     THEN /\ old' = con
          /\ con' = SetColor(Place(con, row, col), color)
          /\ gat' = "pa_put"
          /\ UNCHANGED <<cpu, output_lock, keyvars, readable,
                         interrupt_enable_flag, virtual_idt, frames, hat>>
     ELSE DoneCrash(con)

PrintAtPut(b) ==
  /\ cpu = "guest" /\ gat = "pa_put"
  /\ IF readable THEN PutNext(b) ELSE HostFault

PrintAtRestore ==
  /\ cpu = "guest" /\ gat = "pa_put"
  /\ con' = SetColor(Place(con, old.row, old.col), GetColor(old))
  /\ output_lock' = "free"
  /\ gat' = "run" /\ readable' = TRUE /\ old' = Con(0, 0, 0)
  /\ UNCHANGED <<cpu, keyvars, interrupt_enable_flag, virtual_idt, frames, hat>>

-----------------------------------------------------------------------------
(***************************************************************************)
(* The host: print, set_term_color and set_cursor_pos (system_call.c), the *)
(* reader, and interrupts outside of guest code.                           *)
(***************************************************************************)
PrinterCall(o) ==
  /\ cpu = "printer" /\ hat = "user"
  /\ hat' = o
  /\ UNCHANGED <<hostvars, keyvars, guestvars>>

PrinterLock ==
  /\ cpu = "printer" /\ hat # "user" /\ output_lock # "printer"
  /\ TakeOutput("printer")
  /\ UNCHANGED <<con, keyvars, guestvars, hat>>

PrinterHas(o) == cpu = "printer" /\ hat = o /\ output_lock = "printer"

PrinterPut(b) == PrinterHas("print") /\ PutNext(b)

\* The console is c, and unlocked.  (handle_set_term_color and
\* handle_set_cursor_pos return -1 for bad arguments.)
PrinterUse(o, c) ==
  /\ PrinterHas(o)
  /\ con' = c
  /\ output_lock' = "free"
  /\ hat' = "user"
  /\ UNCHANGED <<cpu, keyvars, guestvars>>

PrinterDone ==
  \/ PrinterUse("print", con)
  \/ \E color \in Colors :
       PrinterUse("color", IF ColorOK(color) THEN SetColor(con, color) ELSE con)
  \/ \E row \in Rows, col \in Cols :
       PrinterUse("cursor",
                  IF ValidatePos(row, col) THEN Place(con, row, col) ELSE con)

\* extract_ch in readline: the next key, or wait as the first reader.
ReaderStep ==
  /\ cpu = "reader"
  /\ IF scancode_buf = 0
     THEN /\ asleep' = TRUE
          /\ cpu' \in Runnable \ {"reader"}
          /\ UNCHANGED scancode_buf
     ELSE /\ scancode_buf' = scancode_buf - 1
          /\ UNCHANGED <<asleep, cpu>>
  /\ UNCHANGED <<con, output_lock, guestvars, hat>>

\* handle_keyboard: in the host, and in a hypervisor call of the guest.
HostKey ==
  /\ cpu # "guest" \/ InCall
  /\ scancode_buf' = PushTail(scancode_buf)
  /\ asleep' = FALSE
  /\ cpu' = IF asleep THEN "reader" ELSE cpu
  /\ UNCHANGED <<con, output_lock, guestvars, hat>>

\* handle_timer, likewise.
HostTimer ==
  /\ cpu # "guest" \/ InCall
  /\ cpu' \in Runnable
  /\ UNCHANGED <<con, output_lock, keyvars, guestvars, hat>>

-----------------------------------------------------------------------------
GNext ==
  \/ Fault \/ GuestTimer \/ GuestTimerBack \/ GuestKey
  \/ \E b \in BOOLEAN : HvSetFlag(b)
  \/ \E v \in Vectors \cup {"flag"}, null \in BOOLEAN : HvSetIdt(v, null)
  \/ HvIret \/ HvExit
  \/ \E o \in ConCalls, b \in BOOLEAN : HvCall(o, b)
  \/ HvLock \/ HvGetCursor
  \/ \E b \in Bytes : HvPrint(b) \/ PrintAtPut(b) \/ PrinterPut(b)
  \/ HvPrintDone
  \/ \E color \in Colors : HvColor(color)
  \/ \E row \in Rows, col \in Cols : HvCursor(row, col)
  \/ \E row \in Rows, col \in Cols, color \in Colors :
       PrintAtSet(row, col, color)
  \/ PrintAtRestore
  \/ \E o \in {"print", "color", "cursor"} : PrinterCall(o)
  \/ PrinterLock \/ PrinterDone
  \/ ReaderStep \/ HostKey \/ HostTimer

GSpec == GInit /\ [][GNext]_gvars
-----------------------------------------------------------------------------
(***************************************************************************)
(* Properties.                                                             *)
(***************************************************************************)

\* The cursor stays on the screen after any text from anyone: also after a
\* backspace at the first position and a letter at the last one.
CursorOnScreen == ValidatePos(con.row, con.col)

\* The cursor and the colour without an hv_print_at that is under way.
Visible == IF gat = "pa_put" THEN old ELSE con

\* hv_print_at leaves no trace on the cursor and the colour, whether it
\* succeeds or crashes the guest, and whatever the host wants to print in
\* the meantime.
PrintAtInvisible ==
  [][output_lock = "guest" /\ gat \in {"hv_print_at", "pa_put"}
       => Visible' = Visible]_gvars

\* A guest does not take output_lock to its grave: whatever made it exit, the
\* host can go on printing.
LockSurvivesGuest == gat = "dead" => output_lock # "guest"

\* Timer and key interrupts do not nest: as long as the guest does not enable
\* interrupts in their handlers, by one call or the other, it is in one of
\* them at most, also when the handler faults and returns from the fault.
OneInterrupt ==
  Cardinality({i \in DOMAIN frames : frames[i].vector \in {"timer", "key"}})
    <= 1

\* The host's reader does not sleep on a key, though the guest puts the keys
\* that are pressed while it runs into the same buffer and wakes nobody.
ReaderNotMissed == asleep => scancode_buf = 0
=============================================================================
