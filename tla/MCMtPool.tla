------------------------------ MODULE MCMtPool ------------------------------
(* Instances of the thread pool for TLC. *)
EXTENDS MtPool
=============================================================================
