----------------------------- MODULE MCToDoApp -----------------------------
(* Small instances of ToDoApp for TLC; the configurations give the bounds. *)
EXTENDS ToDoApp

CONSTANTS milk, bread, none

MCNames == {milk, bread}
=============================================================================
