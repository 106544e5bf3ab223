----------------------------- MODULE FileNames -----------------------------
(***************************************************************************)
(* The names batch_path gives, spelled out, and the order parquet_paths    *)
(* sorts them in, as a reference for the arithmetic of BatchNames: a       *)
(* directory of a growing number of files, and a file it is compared with. *)
(***************************************************************************)
EXTENDS BatchNames, Sequences, Integers

CONSTANT Width      \* the digits names are padded to: 6 in the code

\* The first number of m + 1 digits.
Power[m \in Nat] == IF m = 0 THEN 1 ELSE Radix * Power[m-1]

ASSUME WidthAssumption == Width \in Nat \ {0} /\ Padded = Power[Width]

VARIABLES n,        \* number of files in the directory
          other     \* number of another file, for comparison with file n

directory == <<n, other>>

\* How many digits i is written with: as many as it has, but Width at least.
Digits(i) ==
    CHOOSE m \in Width .. Width + i : i < Power[m] /\ (m = Width \/ Power[m-1] <= i)

\* A name is these digits and what follows them.  "." sorts before any digit,
\* so it is -1 here; the rest of ".parquet" is the same in every name.
Name(i) == [k \in 1 .. Digits(i) + 1 |->
              IF k > Digits(i) THEN -1 ELSE (i \div Power[Digits(i) - k]) % Radix]

\* The order of strings.  No name is a prefix of another one's.
Less(u, v) == \E k \in 1 .. Len(u) :
                 /\ k <= Len(v) /\ u[k] < v[k]
                 /\ \A l \in 1 .. k-1 : u[l] = v[l]

Limit == Radix * Padded

NoFiles == n = 0 /\ other = 0

AddFile == n < Limit - 1 /\ n' = n + 1 /\ other' = 0
Compare == other < Limit - 1 /\ other' = other + 1 /\ n' = n

\* BatchNames compares file numbers the way their names compare as strings,
\* up to one digit more than the padding (batch_path, parquet_paths).
NamesCompare == NameBefore(n, other) <=> Less(Name(n), Name(other))

\* The order parquet_paths lists n files in is the sorted order of their
\* names, and lists every one of them.
SortedByName ==
    LET order == ParquetOrder(n) IN
    /\ {order[k] : k \in 1 .. n} = 0 .. n-1
    /\ \A k \in 1 .. n-1 : Less(Name(order[k]), Name(order[k + 1]))
===========================================================================
