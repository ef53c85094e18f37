------------------------------- MODULE Shared --------------------------------
(***************************************************************************)
(* What the components composed in Services have in common.                *)
(***************************************************************************)
CONSTANT None  \* a NULL column, an absent row, an empty slot

VARIABLES
  focus, \* the component this behaviour moves; the others stand still
  calm   \* the faults are over: no statement fails, no process is killed

Moves(component) == focus = component /\ UNCHANGED <<focus, calm>>

\* Faults come in any number, and cease; when, nobody knows.
Fault == ~calm
=============================================================================
