---------------------------- MODULE BatchNames ----------------------------
(***************************************************************************)
(* The order in which a table's parquet files are read back.  batch_path   *)
(* names file number i by i, zero-padded to six digits, and parquet_paths  *)
(* sorts the paths as strings.  Both sides of the six digits matter: below *)
(* a million the order of the names is the order of the numbers, from a    *)
(* million on it is not.                                                   *)
(*                                                                         *)
(* Radix is 10 in the code and Padded is 10^6, the first number that no    *)
(* longer fits the padding; a small instance takes smaller ones.  The      *)
(* definitions are exact for numbers below Radix * Padded.                 *)
(***************************************************************************)
EXTENDS Naturals, FiniteSets

CONSTANTS Radix, Padded

ASSUME NamesAssumption == /\ Radix \in Nat /\ Radix > 1
                          /\ Padded \in Nat /\ Padded > 0

\* Mistake: names compare like the numbers they spell.
Leading_Numeric(i) == i

(***************************************************************************)
(* The number spelled by the first six digits of the name of file i: all   *)
(* of i while it fits, otherwise i without its last digit.                 *)
(***************************************************************************)
Leading(i) == IF i < Padded THEN i ELSE i \div Radix

(***************************************************************************)
(* The path of file i sorts before that of file j.  When the first six     *)
(* digits agree, the shorter name comes first, since "." sorts before any  *)
(* digit, and among names of the same length the last digit decides.       *)
(***************************************************************************)
NameBefore(i, j) == \/ Leading(i) < Leading(j)
                    \/ Leading(i) = Leading(j) /\ i < j

(***************************************************************************)
(* How many of the files 0 .. n-1 are listed before file i.                *)
(***************************************************************************)
Position(i, n) == Cardinality({j \in 0 .. n-1 : NameBefore(j, i)})

\* Mistake: the listing is not sorted by name.
ParquetOrder_ByNumber(n) == [k \in 1 .. n |-> k - 1]

(***************************************************************************)
(* The numbers of n files in the order parquet_paths returns them.         *)
(***************************************************************************)
ParquetOrder(n) ==
    [k \in 1 .. n |-> CHOOSE i \in 0 .. n-1 : Position(i, n) = k - 1]
===========================================================================
