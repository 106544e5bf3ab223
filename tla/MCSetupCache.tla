--------------------------- MODULE MCSetupCache ---------------------------
(***************************************************************************)
(* Finite instances of SetupCache.  With two bytes to a point and words of *)
(* 32 the byte count of 16 points wraps, as that of 2^59 does in the code; *)
(* files are published for capacities 4 and 8.                             *)
(***************************************************************************)
EXTENDS SetupProofs, TLC

CONSTANTS p1, p2

MCProcs     == {p1, p2}
MCPublished == 2 .. 3
MCRows      == {2, 3, 5, 9}
SmallRows   == {0, 2}
LargeRows   == {3, 15}

CacheOf(n, good) == [exists |-> TRUE, points |-> [k \in 1 .. n |-> good]]

\* No file, one written for four powers, one that is not a setup.
MCCaches == {[exists |-> FALSE, points |-> <<>>], CacheOf(4, TRUE), CacheOf(5, FALSE)}

Symmetry == Permutations(MCProcs)
===========================================================================
