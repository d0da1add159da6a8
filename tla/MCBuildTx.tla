------------------------------ MODULE MCBuildTx ------------------------------
(***************************************************************************)
(* Instances of BuildTx.  The functions from builds to their projects,     *)
(* entries and artifact paths cannot be written in a .cfg.                 *)
(***************************************************************************)
EXTENDS BuildTx, TLC

CONSTANTS b1, b2, b3, f1, f2, p1, p2, o1, o2

\* Three builds of one multi-file project: two without a path and one of f2.
OneProject   == b1 :> p1 @@ b2 :> p1 @@ b3 :> p1
OneEntry     == b1 :> NoEntry @@ b2 :> f2 @@ b3 :> NoEntry
OneOut       == b1 :> o1 @@ b2 :> o1 @@ b3 :> o1
OneCleanOuts == p1 :> {o1}

\* The two builds without a path are interchangeable.
Interchangeable == Permutations({b1, b3})

\* A directory without a Mind.toml: two named files and a build without a path.
ScratchEntry == b1 :> f1 @@ b2 :> f2 @@ b3 :> NoEntry
ScratchOut   == b1 :> o1 @@ b2 :> o2 @@ b3 :> o1
ScratchCleanOuts == p1 :> {o1, o2}

\* Two projects whose builds name the same --out.
TwoProject   == b1 :> p1 @@ b2 :> p2 @@ b3 :> p1
TwoEntry     == b1 :> f1 @@ b2 :> f2 @@ b3 :> f1
TwoCleanOuts == p1 :> {} @@ p2 :> {}
=============================================================================
