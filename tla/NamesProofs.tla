---------------------------- MODULE NamesProofs ----------------------------
(***************************************************************************)
(* Lemmas about BatchNames, for any radix and any padding: what the order  *)
(* of the file names makes of the numbers.                                 *)
(***************************************************************************)
EXTENDS BatchNames, Integers, TLAPS, FiniteSetTheorems

---------------------------------------------------------------------------
(***************************************************************************)
(* parquet_paths lists files in the order of their numbers as long as      *)
(* every number fits the padding.                                          *)
(***************************************************************************)
LEMMA PositionInPadding ==
    ASSUME NEW n \in Nat, n <= Padded, NEW i \in 0 .. n-1
    PROVE  Position(i, n) = i
<1>1. {j \in 0 .. n-1 : NameBefore(j, i)} = 0 .. i-1
  BY NamesAssumption DEF NameBefore, Leading
<1>2. Cardinality(0 .. i-1) = i
  BY FS_Interval
<1> QED
  BY <1>1, <1>2 DEF Position

\* So file number k - 1 is the k-th file.
LEMMA OrderInPadding ==
    ASSUME NEW n \in Nat, n <= Padded, NEW k \in 1 .. n
    PROVE  ParquetOrder(n)[k] = k - 1
<1>1. k - 1 \in 0 .. n-1 /\ Position(k - 1, n) = k - 1
  BY PositionInPadding
<1>2. \A i \in 0 .. n-1 : Position(i, n) = k - 1 => i = k - 1
  BY PositionInPadding
<1>3. (CHOOSE i \in 0 .. n-1 : Position(i, n) = k - 1) = k - 1
  BY <1>1, <1>2
<1> QED
  BY <1>3 DEF ParquetOrder

(***************************************************************************)
(* However many files there are, the names order them all: every position  *)
(* has one file, and every file one position.                              *)
(***************************************************************************)
LEMMA NamesOrder ==
    /\ \A i, j \in Nat : i # j => NameBefore(i, j) \/ NameBefore(j, i)
    /\ \A i \in Nat : ~NameBefore(i, i)
    /\ \A i, j, k \in Nat : NameBefore(i, j) /\ NameBefore(j, k) => NameBefore(i, k)
<1>1. \A i \in Nat : Leading(i) \in Nat
  BY NamesAssumption DEF Leading
<1> QED
  BY <1>1 DEF NameBefore

\* A part of a finite set that lacks one of its members is smaller.
LEMMA FewerThan ==
    ASSUME NEW S, IsFiniteSet(S), NEW x \in S, NEW T \in SUBSET (S \ {x})
    PROVE  /\ IsFiniteSet(T) /\ Cardinality(T) \in Nat /\ Cardinality(S) \in Nat
           /\ Cardinality(T) < Cardinality(S)
<1>1. T \in SUBSET S /\ T # S
  OBVIOUS
<1>2. IsFiniteSet(T) /\ Cardinality(T) <= Cardinality(S) /\ Cardinality(T) # Cardinality(S)
  BY <1>1, FS_Subset
<1>3. Cardinality(T) \in Nat /\ Cardinality(S) \in Nat
  BY <1>2, FS_CardinalityType
<1> QED
  BY <1>2, <1>3

\* A position is the number of a place in the list.
LEMMA PositionType ==
    ASSUME NEW n \in Nat, NEW i \in 0 .. n-1
    PROVE  Position(i, n) \in 0 .. n-1
<1> DEFINE S == 0 .. n-1
           before == {m \in S : NameBefore(m, i)}
<1>1. IsFiniteSet(S) /\ Cardinality(S) = n
  BY FS_Interval
<1>2. before \in SUBSET (S \ {i}) /\ i \in S
  BY NamesOrder
<1> HIDE DEF S, before
<1>3. Cardinality(before) \in Nat /\ Cardinality(before) < n
  BY <1>1, <1>2, FewerThan
<1> QED
  BY <1>3 DEF Position, S, before

\* A file whose name comes first has an earlier place.
LEMMA PositionsFollow ==
    ASSUME NEW n \in Nat, NEW i \in 0 .. n-1, NEW j \in 0 .. n-1, NameBefore(i, j)
    PROVE  /\ Position(i, n) \in Nat /\ Position(j, n) \in Nat
           /\ Position(i, n) < Position(j, n)
<1> DEFINE S == 0 .. n-1
           Before(k) == {m \in S : NameBefore(m, k)}
<1>1. IsFiniteSet(Before(j))
  <2>1. IsFiniteSet(S) /\ Before(j) \in SUBSET S
    BY FS_Interval
  <2> HIDE DEF S, Before
  <2> QED
    BY <2>1, FS_Subset
<1>2. i \in Before(j) /\ Before(i) \in SUBSET (Before(j) \ {i})
  BY NamesOrder
<1> HIDE DEF Before
<1>3. Cardinality(Before(i)) < Cardinality(Before(j)) /\ Cardinality(Before(i)) \in Nat
      /\ Cardinality(Before(j)) \in Nat
  BY <1>1, <1>2, FewerThan
<1> QED
  BY <1>3 DEF Position, Before

\* So no two files have the same place.
LEMMA PositionsDiffer ==
    ASSUME NEW n \in Nat, NEW i \in 0 .. n-1, NEW j \in 0 .. n-1, NameBefore(i, j)
    PROVE  Position(i, n) # Position(j, n)
BY PositionsFollow

\* Every place is taken: there are as many files as places.
LEMMA EveryPosition ==
    ASSUME NEW n \in Nat, NEW k \in 1 .. n
    PROVE  \E i \in 0 .. n-1 : Position(i, n) = k - 1
<1> DEFINE S == 0 .. n-1
           f == [i \in S |-> Position(i, n)]
<1>1. IsFiniteSet(S)
  BY FS_Interval
<1>2. f \in [S -> S]
  BY PositionType
<1>3. ASSUME NEW i \in S, NEW j \in S, i # j PROVE f[i] # f[j]
  BY <1>3, PositionsDiffer, NamesOrder
<1>6. k - 1 \in S
  OBVIOUS
<1> HIDE DEF f, S
<1>4. f \in Injection(S, S)
  BY <1>2, <1>3 DEF Injection, IsInjective
<1>5. f \in Surjection(S, S)
  BY <1>1, <1>4, FS_Injection
<1>7. PICK i \in S : f[i] = k - 1
  BY <1>5, <1>6 DEF Surjection
<1> QED
  BY <1>7 DEF f, S

\* parquet_paths lists the numbers of the files there are.
LEMMA OrderType ==
    ASSUME NEW n \in Nat
    PROVE  ParquetOrder(n) \in [1 .. n -> 0 .. n-1]
BY EveryPosition DEF ParquetOrder
============================================================================
