------------------------------ MODULE MCRegions ------------------------------
(***************************************************************************)
(* Small instances of Regions.  Addresses are interchangeable.             *)
(***************************************************************************)
EXTENDS Regions, TLC

Interchangeable == Permutations(Addrs)
=============================================================================
