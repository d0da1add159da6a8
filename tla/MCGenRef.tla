------------------------------- MODULE MCGenRef -------------------------------
(***************************************************************************)
(* A small table of generation-checked references.                         *)
(***************************************************************************)
EXTENDS GenRef

\* Every handle of the largest table, 0, and handles beyond it.
AllHandles == 0 .. (MaxSlots + 1) * GenBase
=============================================================================
