------------------------------ MODULE Autostack ------------------------------
(***************************************************************************)
(* Software exceptions (handle_swexn, and handle in interrupt.c) and the   *)
(* library that grows the stack with them (autostack.c), in a process with *)
(* one thread.  A fault goes to the handler the thread registered, before  *)
(* the kernel looks at it; the handler is consumed, and registers itself   *)
(* again if it wants to see the next fault.                                *)
(*                                                                         *)
(* The pages are those of the stack, numbered upwards, and Bss, the page   *)
(* of .bss that holds current_stack_low.  exec maps the top of the stack,  *)
(* with the arguments of the program, to frames and the rest of it, and    *)
(* .bss, to the zero frame, except for the page that .bss may share with   *)
(* .data.                                                                  *)
(***************************************************************************)
EXTENDS Integers, FiniteSetsExt

CONSTANTS
  StackTop,         \* the highest page of the stack; the lowest is 1
  InitialLow,       \* the lowest page that exec gives to the stack
  Frames            \* the frames that are left after exec

ASSUME AutostackAssumption ==
  /\ StackTop \in Nat \ {0} /\ InitialLow \in 1..StackTop
  /\ Frames \in Nat

VARIABLES
  exception_stack,  \* the TCB's exception_stack is not NULL
  handler,          \* its handler: "autostack" or "NULL"
  page,             \* page[v]: "none", or mapped to the "zero" frame or to
                    \* a "frame" of its own
  free,             \* how many frames are left
  current_stack_low,\* 0: NULL
  access,           \* the instruction that runs: the page it accesses, and
                    \* whether it writes
  sat               \* where the thread is

avars == <<exception_stack, handler, page, free, current_stack_low, access,
           sat>>

Bss   == 0
Pages == 0..StackTop

\* An instruction that divides by zero accesses no page.
Divide   == [page |-> -1, write |-> FALSE]
Accesses == [page : Pages, write : BOOLEAN]

SetPlace(p) == sat' = p

\* The address spaces that load_executable builds: the arguments end in page
\* esp of the stack.
Images ==
  {[v \in Pages |-> CASE v = Bss -> bss
                      [] v \in esp..StackTop -> "frame"
                      [] v \in InitialLow..(esp - 1) -> "zero"
                      [] OTHER -> "none"] :
     bss \in {"zero", "frame"}, esp \in InitialLow..StackTop}

\* The thread is at _main.
AInit ==
  /\ exception_stack = FALSE
  /\ handler = "NULL"
  /\ page \in Images
  /\ free = Frames
  /\ current_stack_low = 0
  /\ access = Divide
  /\ sat = "start"

\* handle_exec: handler is cleared, exception_stack is not.
Exec ==
  /\ sat = "run"
  /\ handler' = "NULL"
  /\ page' \in Images
  /\ free' = Frames
  /\ current_stack_low' = 0
  /\ access' = Divide
  /\ SetPlace("start")
  /\ UNCHANGED exception_stack

-----------------------------------------------------------------------------
(***************************************************************************)
(* The program: _main calls install_autostack, then runs any instructions. *)
(***************************************************************************)

\* _main, install_autostack and swexn push their arguments and return
\* addresses: onto the page where exec left esp, or onto the one below it.
Push(v) ==
  /\ sat = "start"
  /\ LET esp == Min({w \in Pages \ {Bss} : page[w] = "frame"})
     IN  v \in {esp, esp - 1} \ {Bss}
  /\ access' = [page |-> v, write |-> TRUE]
  /\ SetPlace("push_instr")
  /\ UNCHANGED <<exception_stack, handler, page, free, current_stack_low>>

\* swexn registers the handler; then current_stack_low is written.
Install ==
  /\ sat = "install"
  /\ exception_stack' = TRUE
  /\ handler' = "autostack"
  /\ access' = [page |-> Bss, write |-> TRUE]
  /\ SetPlace("run_instr")
  /\ UNCHANGED <<page, free, current_stack_low>>

Instruction(a) ==
  /\ sat = "run"
  /\ access' = a
  /\ SetPlace("run_instr")
  /\ UNCHANGED <<exception_stack, handler, page, free, current_stack_low>>

\* How the page is mapped that an instruction accesses.
Mapping(a) == IF a = Divide THEN "none" ELSE page[a.page]

\* What the processor lets through in user mode.
Permitted(a) == Mapping(a) = "frame" \/ (Mapping(a) = "zero" /\ ~a.write)

Complete ==
  /\ sat = "run_instr" /\ Permitted(access)
  /\ current_stack_low' =
       IF current_stack_low = 0 THEN InitialLow ELSE current_stack_low
  /\ access' = Divide
  /\ SetPlace("run")
  /\ UNCHANGED <<exception_stack, handler, page, free>>

CompletePush ==
  /\ sat = "push_instr" /\ Permitted(access)
  /\ access' = Divide
  /\ SetPlace("install")
  /\ UNCHANGED <<exception_stack, handler, page, free, current_stack_low>>

-----------------------------------------------------------------------------
(***************************************************************************)
(* Faults.                                                                 *)
(***************************************************************************)
Faulting == sat \in {"run_instr", "push_instr"} /\ ~Permitted(access)

\* handle, with an exception stack: the handler is consumed and called.  A
\* NULL one is a jump to address 0: anything may happen.
DeliverFault ==
  /\ Faulting /\ exception_stack
  /\ exception_stack' = FALSE
  /\ SetPlace(IF handler = "NULL" THEN "wild" ELSE "handler")
  /\ UNCHANGED <<handler, page, free, current_stack_low, access>>

\* handle_page_fault: the zero frame is replaced by a frame and the
\* instruction runs again; ...
ResolveFault ==
  /\ Faulting /\ ~exception_stack
  /\ Mapping(access) = "zero" /\ free > 0
  /\ page' = [page EXCEPT ![access.page] = "frame"]
  /\ free' = free - 1
  /\ UNCHANGED <<exception_stack, handler, current_stack_low, access, sat>>

\* ... any other fault, or no frame left, kills the thread.
KillFault ==
  /\ Faulting /\ ~exception_stack
  /\ Mapping(access) = "none" \/ free = 0
  /\ SetPlace("dead")
  /\ UNCHANGED <<exception_stack, handler, page, free, current_stack_low,
                 access>>

\* handle_autostack is for the missing page below the stack only.
BelowStack(a) ==
  a # Divide /\ Mapping(a) = "none" /\ a.page = current_stack_low - 1

\* Mutant: the handler stays registered when it declines a fault.
DeclineKeep ==
  /\ sat = "handler" /\ (BelowStack(access) => free = 0)
  /\ exception_stack' = TRUE
  /\ SetPlace("run_instr")
  /\ UNCHANGED <<handler, page, free, current_stack_low, access>>

\* Any other fault, or new_pages failing: swexn(NULL, NULL, NULL, ureg)
\* leaves no handler and runs the instruction again.
Decline ==
  /\ sat = "handler" /\ (BelowStack(access) => free = 0)
  /\ exception_stack' = FALSE
  /\ SetPlace("run_instr")
  /\ UNCHANGED <<handler, page, free, current_stack_low, access>>

\* new_pages; then the handler registers itself again, and the instruction
\* runs again.
Grow ==
  /\ sat = "handler" /\ BelowStack(access) /\ free > 0
  /\ page' = [page EXCEPT ![access.page] = "frame"]
  /\ free' = free - 1
  /\ current_stack_low' = current_stack_low - 1
  /\ exception_stack' = TRUE
  /\ handler' = "autostack"
  /\ SetPlace("run_instr")
  /\ UNCHANGED access

FaultStep ==
  \/ Complete \/ CompletePush \/ DeliverFault \/ ResolveFault \/ KillFault
  \/ Decline \/ Grow

AutostackStep ==
  \/ Install \/ FaultStep \/ Exec
  \/ \E v \in Pages : Push(v)
  \/ \E a \in Accesses \cup {Divide} : Instruction(a)

-----------------------------------------------------------------------------
\* An instruction that faults either completes or kills its thread: the
\* handler, which runs the instruction again whatever it decided, and the
\* kernel never pass a fault back and forth for ever.  (A push before swexn
\* has no handler that could; after an exec it may jump to the NULL handler.)
FaultSettles == sat = "run_instr" ~> sat \in {"run", "dead"}
=============================================================================
