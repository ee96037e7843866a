------------------------------- MODULE MCGuest -------------------------------
(***************************************************************************)
(* An instance of Guest for TLC.                                           *)
(***************************************************************************)
EXTENDS Guest

\* Every position and every kind of colour, and those just out of range.
AnyRow   == -1..CONSOLE_HEIGHT
AnyCol   == -1..CONSOLE_WIDTH
AnyColor == {-1, 0, CharValues - 1, CharValues}
=============================================================================
