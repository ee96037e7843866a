------------------------------- MODULE MCMutex -------------------------------
(***************************************************************************)
(* Instance of SpinMutex for TLC.                                          *)
(***************************************************************************)
EXTENDS SpinMutex
=============================================================================
