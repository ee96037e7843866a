--------------------------------- MODULE Lock ---------------------------------
(***************************************************************************)
(* What a mutex promises: at most one thread is inside, a thread that      *)
(* asked may enter when nobody is, and a try that fails fails because      *)
(* somebody was inside at that moment.  SpinMutex implements it.           *)
(***************************************************************************)
CONSTANT Threads

VARIABLE phase    \* phase[t]: "out", "lock", "try" or "in"

Init == phase = [t \in Threads |-> "out"]

Free == \A t \in Threads : phase[t] # "in"

Move(t, from, to) == phase[t] = from /\ phase' = [phase EXCEPT ![t] = to]

Request(t) == Move(t, "out", "lock") \/ Move(t, "out", "try")

Acquire(t) == Free /\ (Move(t, "lock", "in") \/ Move(t, "try", "in"))

TryFail(t) == ~Free /\ Move(t, "try", "out")

Release(t) == Move(t, "in", "out")

Next == \E t \in Threads :
          Request(t) \/ Acquire(t) \/ TryFail(t) \/ Release(t)

Spec == Init /\ [][Next]_phase
===============================================================================
