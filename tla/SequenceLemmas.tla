--------------------------- MODULE SequenceLemmas ---------------------------
(***************************************************************************)
(* Facts about sequences that the proofs of several modules rest on: the   *)
(* rows of a sequence of batches (FlattenSeq), prefixes, and sequences     *)
(* that have the members of another with others among them; and about the  *)
(* powers of a number.                                                     *)
(*                                                                         *)
(* FlattenSeq is recursive, so its facts need an induction.  The library's *)
(* induction theorems take an operator as parameter; the ones here are     *)
(* stated for a set of numbers, or of sequences, instead.                  *)
(***************************************************************************)
EXTENDS SequencesExt, Integers, TLAPS, SequenceTheorems, WellFoundedInduction

---------------------------------------------------------------------------
\* The order on Nat as a set of pairs.
LessThan == {ss \in Nat \X Nat : ss[1] < ss[2]}

\* A set of natural numbers that is not empty has a least member.
LEMMA LeastNumber ==
    ASSUME NEW T \in SUBSET Nat, T # {}
    PROVE  \E m \in T : \A k \in T : m <= k
<1>1. OpToRel(<, Nat) = LessThan
  BY DEF OpToRel, LessThan
<1>2. IsWellFoundedOn(LessThan, Nat)
  BY <1>1, NatLessThanWellFounded
<1>3. PICK m \in T : \A k \in T : <<k, m>> \notin LessThan
  BY <1>2, WFMin, Zenon
<1>4. ASSUME NEW k \in T PROVE m <= k
  <2>1. <<k, m>> \in Nat \X Nat /\ <<k, m>>[1] = k /\ <<k, m>>[2] = m
    OBVIOUS
  <2> QED
    BY <1>3, <2>1 DEF LessThan
<1> QED
  BY <1>4

\* Induction over the natural numbers, as a set of them.
LEMMA Induction ==
    ASSUME NEW T \in SUBSET Nat, 0 \in T, \A n \in T : n + 1 \in T
    PROVE  T = Nat
<1> SUFFICES ASSUME T # Nat PROVE FALSE
  OBVIOUS
<1>1. PICK m \in Nat \ T : \A k \in Nat \ T : m <= k
  BY LeastNumber
<1>2. m - 1 \in T
  BY <1>1
<1> QED
  BY <1>1, <1>2

---------------------------------------------------------------------------
(***************************************************************************)
(* A function that multiplies by r from number to number is defined by     *)
(* recursion: that there is one is shown for the numbers up to n first.    *)
(***************************************************************************)
Multiplies(f, r, n) == f = [i \in 0 .. n |-> IF i = 0 THEN 1 ELSE r * f[i-1]]

\* What it is at each number.
LEMMA PowersAt ==
    ASSUME NEW r, NEW f, NEW n \in Nat, Multiplies(f, r, n), NEW i \in 0 .. n
    PROVE  f[i] = IF i = 0 THEN 1 ELSE r * f[i-1]
BY DEF Multiplies

\* There is one for each n.
LEMMA PowersUpTo ==
    ASSUME NEW r, NEW n \in Nat
    PROVE  \E f : Multiplies(f, r, n)
<1> DEFINE T == {k \in Nat : \E f : Multiplies(f, r, k)}
<1>1. 0 \in T
  <2> DEFINE f == [i \in 0 .. 0 |-> 1]
  <2>1. f = [i \in 0 .. 0 |-> IF i = 0 THEN 1 ELSE r * f[i-1]]
    OBVIOUS
  <2>2. Multiplies(f, r, 0)
    BY <2>1 DEF Multiplies
  <2> QED
    BY <2>2
<1>2. ASSUME NEW k \in T PROVE k + 1 \in T
  <2>1. PICK f : Multiplies(f, r, k)
    OBVIOUS
  <2> DEFINE g == [i \in 0 .. k + 1 |-> IF i = k + 1 THEN r * f[k] ELSE f[i]]
  <2>2. ASSUME NEW i \in 0 .. k + 1
        PROVE  g[i] = IF i = 0 THEN 1 ELSE r * g[i-1]
    <3>1. CASE i = k + 1
      <4>1. g[i] = r * f[k] /\ i # 0 /\ i - 1 = k /\ k \in 0 .. k + 1 /\ k # k + 1
        BY <3>1
      <4>2. g[k] = f[k]
        BY <4>1
      <4> QED
        BY <4>1, <4>2
    <3>2. CASE i \in 0 .. k
      <4>1. g[i] = f[i] /\ f[i] = IF i = 0 THEN 1 ELSE r * f[i-1]
        BY <2>1, <3>2, PowersAt
      <4>2. i # 0 => i - 1 \in 0 .. k + 1 /\ i - 1 # k + 1
        BY <3>2
      <4>3. i # 0 => g[i-1] = f[i-1]
        BY <4>2
      <4> QED
        BY <4>1, <4>3
    <3> QED
      BY <3>1, <3>2
  <2>3. g = [i \in 0 .. k + 1 |-> g[i]]
    OBVIOUS
  <2> HIDE DEF g
  <2>4. g = [i \in 0 .. k + 1 |-> IF i = 0 THEN 1 ELSE r * g[i-1]]
    BY <2>2, <2>3
  <2>5. Multiplies(g, r, k + 1)
    BY <2>4 DEF Multiplies
  <2> QED
    BY <2>5
<1> HIDE DEF T
<1>3. T = Nat
  <2>1. T \in SUBSET Nat
    BY DEF T
  <2> QED
    BY <1>1, <1>2, <2>1, Induction
<1> QED
  BY <1>3 DEF T

\* Two of them agree as far as both go.
LEMMA PowersAgree ==
    ASSUME NEW r, NEW n \in Nat, NEW m \in Nat, n <= m, NEW f, NEW g,
           Multiplies(f, r, n), Multiplies(g, r, m), NEW i \in 0 .. n
    PROVE  f[i] = g[i]
<1> DEFINE T == {k \in Nat : k <= n => f[k] = g[k]}
<1>1. 0 \in T
  <2>1. 0 \in 0 .. n /\ 0 \in 0 .. m
    OBVIOUS
  <2>2. f[0] = 1 /\ g[0] = 1
    BY <2>1, PowersAt
  <2> QED
    BY <2>2
<1>2. ASSUME NEW k \in T PROVE k + 1 \in T
  <2> SUFFICES ASSUME k + 1 <= n PROVE f[k + 1] = g[k + 1]
    OBVIOUS
  <2>1. k + 1 \in 0 .. n /\ k + 1 \in 0 .. m /\ k + 1 # 0 /\ (k + 1) - 1 = k
    OBVIOUS
  <2>2. f[k + 1] = r * f[k] /\ g[k + 1] = r * g[k]
    BY <2>1, PowersAt
  <2> QED
    BY <2>2
<1> HIDE DEF T
<1>3. T = Nat
  <2>1. T \in SUBSET Nat
    BY DEF T
  <2> QED
    BY <1>1, <1>2, <2>1, Induction
<1> QED
  BY <1>3 DEF T

\* So the recursion has a solution.
LEMMA PowersExist ==
    ASSUME NEW r
    PROVE  \E f : f = [n \in Nat |-> IF n = 0 THEN 1 ELSE r * f[n-1]]
<1> DEFINE Up(n) == CHOOSE f : Multiplies(f, r, n)
           F == [n \in Nat |-> Up(n)[n]]
<1>1. \A n \in Nat : Multiplies(Up(n), r, n)
  BY PowersUpTo
<1> HIDE DEF Up
<1>2. ASSUME NEW n \in Nat PROVE F[n] = IF n = 0 THEN 1 ELSE r * F[n-1]
  <2>1. CASE n = 0
    BY <1>1, <2>1, PowersAt
  <2>2. CASE n # 0
    <3>1. n - 1 \in Nat /\ n - 1 <= n /\ n \in 0 .. n /\ n - 1 \in 0 .. n - 1
      BY <2>2
    <3>2. Up(n)[n] = r * Up(n)[n-1]
      BY <1>1, <2>2, <3>1, PowersAt
    <3>3. Up(n-1)[n-1] = Up(n)[n-1]
      BY <1>1, <3>1, PowersAgree
    <3> QED
      BY <2>2, <3>1, <3>2, <3>3
  <2> QED
    BY <2>1, <2>2
<1>3. F = [n \in Nat |-> F[n]]
  OBVIOUS
<1> HIDE DEF F
<1>4. F = [n \in Nat |-> IF n = 0 THEN 1 ELSE r * F[n-1]]
  BY <1>2, <1>3
<1> QED
  BY <1>4

---------------------------------------------------------------------------
(***************************************************************************)
(* f is the function FlattenSeq defines to concatenate the first n members *)
(* of s one by one.  There is one, and its values depend on s only.        *)
(***************************************************************************)
Unrolls(f, s, n) ==
    f = [i \in 1 .. n |-> IF i = 1 THEN s[i] ELSE f[i-1] \o s[i]]

\* FlattenSeq is the last value of such a function.
LEMMA FlattenUnrolls ==
    ASSUME NEW s, Len(s) # 0, \E f : Unrolls(f, s, Len(s))
    PROVE  \E f : Unrolls(f, s, Len(s)) /\ FlattenSeq(s) = f[Len(s)]
BY DEF FlattenSeq, Unrolls

\* Its value at i is the one before with member i after it.
LEMMA UnrollsAt ==
    ASSUME NEW f, NEW s, NEW n \in Nat, Unrolls(f, s, n), NEW i \in 1 .. n
    PROVE  f[i] = IF i = 1 THEN s[i] ELSE f[i-1] \o s[i]
BY DEF Unrolls

\* There is such a function for every sequence and length.
LEMMA UnrollsExists ==
    ASSUME NEW s, NEW n \in Nat
    PROVE  \E f : Unrolls(f, s, n)
<1> DEFINE T == {k \in Nat : \E f : Unrolls(f, s, k)}
<1>1. 0 \in T
  <2>1. Unrolls([i \in 1 .. 0 |-> 0], s, 0)
    BY DEF Unrolls
  <2> QED
    BY <2>1
<1>2. ASSUME NEW k \in T PROVE k + 1 \in T
  <2>1. PICK f : Unrolls(f, s, k)
    OBVIOUS
  <2> DEFINE last == IF k = 0 THEN s[1] ELSE f[k] \o s[k+1]
             g == [i \in 1 .. k+1 |-> IF i = k + 1 THEN last ELSE f[i]]
  <2>2. ASSUME NEW i \in 1 .. k+1
        PROVE  g[i] = IF i = 1 THEN s[i] ELSE g[i-1] \o s[i]
    <3>1. CASE i = k + 1
      BY <3>1
    <3>2. CASE i \in 1 .. k
      <4>1. f[i] = IF i = 1 THEN s[i] ELSE f[i-1] \o s[i]
        BY <2>1, <3>2 DEF Unrolls
      <4> QED
        BY <3>2, <4>1
    <3> QED
      BY <3>1, <3>2
  <2> HIDE DEF last
  <2>3. Unrolls(g, s, k + 1)
    BY <2>2 DEF Unrolls
  <2> QED
    BY <2>3
<1> HIDE DEF T
<1>3. T = Nat
  BY <1>1, <1>2, Induction DEF T
<1> QED
  BY <1>3 DEF T

\* Two of them agree as far as their sequences do.
LEMMA UnrollsAgree ==
    ASSUME NEW n \in Nat, NEW m \in Nat, n <= m, NEW s, NEW r, NEW f, NEW g,
           \A i \in 1 .. n : s[i] = r[i],
           Unrolls(f, s, n), Unrolls(g, r, m)
    PROVE  \A i \in 1 .. n : f[i] = g[i]
<1> DEFINE T == {k \in Nat : k \in 1 .. n => f[k] = g[k]}
<1>1. 0 \in T
  OBVIOUS
<1>2. ASSUME NEW k \in T PROVE k + 1 \in T
  <2> SUFFICES ASSUME k + 1 \in 1 .. n PROVE f[k+1] = g[k+1]
    OBVIOUS
  <2>1. f[k+1] = IF k + 1 = 1 THEN s[k+1] ELSE f[(k+1)-1] \o s[k+1]
    BY DEF Unrolls
  <2>3. k + 1 \in 1 .. m
    OBVIOUS
  <2>4. g[k+1] = IF k + 1 = 1 THEN r[k+1] ELSE g[(k+1)-1] \o r[k+1]
    BY <2>3 DEF Unrolls
  <2>2. (k + 1) - 1 = k /\ s[k+1] = r[k+1]
    OBVIOUS
  <2> QED
    BY <2>1, <2>2, <2>4
<1> HIDE DEF T
<1>3. T = Nat
  BY <1>1, <1>2, Induction DEF T
<1> QED
  BY <1>3 DEF T

---------------------------------------------------------------------------
\* No batches have no rows.
LEMMA FlattenEmpty == FlattenSeq(<<>>) = <<>>
BY DEF FlattenSeq

\* Another batch adds its rows after the others.
LEMMA FlattenAppend ==
    ASSUME NEW S, NEW u \in Seq(Seq(S)), NEW b \in Seq(S)
    PROVE  FlattenSeq(Append(u, b)) = FlattenSeq(u) \o b
<1> DEFINE v == Append(u, b)
           n == Len(u)
<1>1. /\ n \in Nat /\ Len(v) = n + 1 /\ v[n + 1] = b
      /\ \A i \in 1 .. n : v[i] = u[i]
  BY AppendProperties, LenProperties
<1> HIDE DEF v, n
<1>2. PICK f : Unrolls(f, v, n + 1) /\ FlattenSeq(v) = f[n + 1]
  <2>1. n + 1 \in Nat /\ Len(v) # 0
    BY <1>1
  <2>2. \E f : Unrolls(f, v, Len(v))
    BY <2>1, <1>1, UnrollsExists
  <2> QED
    BY <1>1, <2>1, <2>2, FlattenUnrolls
<1>3. f[n + 1] = IF n + 1 = 1 THEN v[n + 1] ELSE f[(n + 1) - 1] \o v[n + 1]
  <2>1. n + 1 \in Nat /\ n + 1 \in 1 .. n + 1
    BY <1>1
  <2> QED
    BY <1>2, <2>1, UnrollsAt
<1>4. CASE n = 0
  <2>1. u = <<>> /\ FlattenSeq(u) = <<>>
    BY <1>4, FlattenEmpty, EmptySeq DEF n
  <2> QED
    BY <2>1, <1>1, <1>2, <1>3, <1>4 DEF v
<1>5. CASE n # 0
  <2>1. PICK g : Unrolls(g, u, n) /\ FlattenSeq(u) = g[n]
    BY <1>1, <1>5, UnrollsExists, FlattenUnrolls DEF n
  <2>2. f[n] = g[n]
    BY <1>1, <1>2, <1>5, <2>1, UnrollsAgree
  <2>3. f[n + 1] = f[n] \o v[n + 1]
    BY <1>1, <1>3, <1>5
  <2> QED
    BY <2>1, <2>2, <2>3, <1>1, <1>2 DEF v
<1> QED
  BY <1>4, <1>5

\* Induction over the sequences over S, as a set of them.
LEMMA SequenceInduction ==
    ASSUME NEW S, NEW T \in SUBSET Seq(S), <<>> \in T,
           \A u \in T, x \in S : Append(u, x) \in T
    PROVE  T = Seq(S)
<1> DEFINE N == {n \in Nat : \A u \in Seq(S) : Len(u) = n => u \in T}
<1>1. 0 \in N
  BY EmptySeq
<1>2. ASSUME NEW n \in N PROVE n + 1 \in N
  <2> SUFFICES ASSUME NEW u \in Seq(S), Len(u) = n + 1 PROVE u \in T
    OBVIOUS
  <2>0. u # <<>>
    BY EmptySeq
  <2>1. PICK front \in Seq(S), x \in S : u = Append(front, x)
    BY <2>0, SequenceEmptyOrAppend
  <2>2. Len(front) = n
    BY <2>1, AppendProperties, LenProperties
  <2> QED
    BY <2>1, <2>2
<1> HIDE DEF N
<1>3. N = Nat
  BY <1>1, <1>2, Induction DEF N
<1> QED
  BY <1>3, LenProperties DEF N

\* The rows of sequences over S are a sequence over S.
LEMMA FlattenType ==
    ASSUME NEW S, NEW u \in Seq(Seq(S))
    PROVE  FlattenSeq(u) \in Seq(S)
<1> DEFINE T == {v \in Seq(Seq(S)) : FlattenSeq(v) \in Seq(S)}
<1>1. <<>> \in T
  <2>1. <<>> \in Seq(Seq(S)) /\ <<>> \in Seq(S)
    BY EmptySeq
  <2> QED
    BY <2>1, FlattenEmpty
<1>2. ASSUME NEW v \in T, NEW x \in Seq(S) PROVE Append(v, x) \in T
  <2>1. Append(v, x) \in Seq(Seq(S)) /\ FlattenSeq(v) \o x \in Seq(S)
    BY AppendProperties, ConcatProperties
  <2> QED
    BY <2>1, FlattenAppend
<1> HIDE DEF T
<1>3. T = Seq(Seq(S))
  BY <1>1, <1>2, SequenceInduction DEF T
<1> QED
  BY <1>3 DEF T

---------------------------------------------------------------------------
\* A prefix, member by member.
LEMMA PrefixIs ==
    ASSUME NEW S, NEW u \in Seq(S), NEW v \in Seq(S)
    PROVE  IsPrefix(u, v) <=> /\ Len(u) <= Len(v)
                              /\ \A i \in 1 .. Len(u) : u[i] = v[i]
<1> DEFINE n == Len(u)
<1> SUFFICES ASSUME n <= Len(v)
             PROVE  SubSeq(u, 1, n) = SubSeq(v, 1, n) <=> \A i \in 1 .. n : u[i] = v[i]
  BY DEF IsPrefix
<1>1. n \in Nat /\ \A i \in 1 .. n : u[i] \in S /\ v[i] \in S
  BY LenProperties, ElementOfSeq
<1>2. /\ SubSeq(u, 1, n) \in Seq(S) /\ Len(SubSeq(u, 1, n)) = n
      /\ \A i \in 1 .. n : SubSeq(u, 1, n)[i] = u[i]
  BY <1>1, SubSeqProperties
<1>3. /\ SubSeq(v, 1, n) \in Seq(S) /\ Len(SubSeq(v, 1, n)) = n
      /\ \A i \in 1 .. n : SubSeq(v, 1, n)[i] = v[i]
  BY <1>1, SubSeqProperties
<1> QED
  BY <1>2, <1>3, SeqEqual

\* Appending keeps a prefix a prefix.
LEMMA PrefixOfAppend ==
    ASSUME NEW S, NEW u \in Seq(S), NEW v \in Seq(S), NEW x \in S, IsPrefix(u, v)
    PROVE  IsPrefix(u, Append(v, x))
<1> DEFINE w == Append(v, x)
<1>1. /\ w \in Seq(S) /\ Len(w) = Len(v) + 1
      /\ \A i \in 1 .. Len(v) : w[i] = v[i]
      /\ Len(u) \in Nat /\ Len(v) \in Nat
  BY AppendProperties, LenProperties
<1> HIDE DEF w
<1>2. Len(u) <= Len(v) /\ \A i \in 1 .. Len(u) : u[i] = v[i]
  BY PrefixIs
<1>3. Len(u) <= Len(w) /\ \A i \in 1 .. Len(u) : u[i] = w[i]
  BY <1>1, <1>2
<1>4. IsPrefix(u, w)
  BY <1>1, <1>3, PrefixIs
<1> QED
  BY <1>4 DEF w

\* A sequence is its own prefix.
LEMMA PrefixReflexive ==
    ASSUME NEW S, NEW u \in Seq(S)
    PROVE  IsPrefix(u, u)
BY PrefixIs, LenProperties

\* A prefix of a prefix is one.
LEMMA PrefixTransitive ==
    ASSUME NEW S, NEW u \in Seq(S), NEW v \in Seq(S), NEW w \in Seq(S),
           IsPrefix(u, v), IsPrefix(v, w)
    PROVE  IsPrefix(u, w)
<1>1. Len(u) \in Nat /\ Len(v) \in Nat /\ Len(w) \in Nat
  BY LenProperties
<1>2. /\ Len(u) <= Len(v) /\ \A i \in 1 .. Len(u) : u[i] = v[i]
      /\ Len(v) <= Len(w) /\ \A i \in 1 .. Len(v) : v[i] = w[i]
  BY PrefixIs
<1>3. Len(u) <= Len(w) /\ \A i \in 1 .. Len(u) : u[i] = w[i]
  BY <1>1, <1>2
<1> QED
  BY <1>3, PrefixIs

\* Nothing else is a prefix of the empty sequence.
LEMMA PrefixOfEmpty ==
    ASSUME NEW S, NEW u \in Seq(S), IsPrefix(u, <<>>)
    PROVE  u = <<>>
<1> DEFINE none == <<>>
<1>1. none \in Seq(S) /\ Len(none) = 0
  BY EmptySeq
<1>2. IsPrefix(u, none)
  OBVIOUS
<1> HIDE DEF none
<1>3. Len(u) <= Len(none)
  BY <1>1, <1>2, PrefixIs
<1>4. Len(u) = 0
  BY <1>1, <1>3, LenProperties
<1> QED
  BY <1>4, EmptySeq

---------------------------------------------------------------------------
(***************************************************************************)
(* The members of u are among those of v, in the order u has them.         *)
(***************************************************************************)
Embeds(u, v) ==
    \E at \in [1 .. Len(u) -> 1 .. Len(v)] :
        /\ \A i, j \in 1 .. Len(u) : i < j => at[i] < at[j]
        /\ \A i \in 1 .. Len(u) : v[at[i]] = u[i]

\* A prefix is.
LEMMA PrefixEmbeds ==
    ASSUME NEW S, NEW u \in Seq(S), NEW v \in Seq(S), IsPrefix(u, v)
    PROVE  Embeds(u, v)
<1>1. Len(u) \in Nat /\ Len(v) \in Nat /\ Len(u) <= Len(v)
      /\ \A i \in 1 .. Len(u) : u[i] = v[i]
  BY PrefixIs, LenProperties
<1> DEFINE at == [i \in 1 .. Len(u) |-> i]
<1>2. at \in [1 .. Len(u) -> 1 .. Len(v)]
  BY <1>1
<1>3. /\ \A i, j \in 1 .. Len(u) : i < j => at[i] < at[j]
      /\ \A i \in 1 .. Len(u) : v[at[i]] = u[i]
  BY <1>1
<1> HIDE DEF at
<1> QED
  BY <1>2, <1>3 DEF Embeds

(***************************************************************************)
(* Batches with others among them have the same rows, or more of them.     *)
(***************************************************************************)
LEMMA FlattenEmbedded ==
    ASSUME NEW S, NEW u \in Seq(Seq(S)), NEW v \in Seq(Seq(S)), Embeds(u, v)
    PROVE  \/ FlattenSeq(u) = FlattenSeq(v)
           \/ Len(FlattenSeq(u)) < Len(FlattenSeq(v))
<1> DEFINE R == Seq(S)
           Within(a, b) == \/ FlattenSeq(a) = FlattenSeq(b)
                           \/ Len(FlattenSeq(a)) < Len(FlattenSeq(b))
           T == {b \in Seq(R) : \A a \in Seq(R) : Embeds(a, b) => Within(a, b)}
<1>1. <<>> \in T
  <2> SUFFICES ASSUME NEW a \in Seq(R), Embeds(a, <<>>) PROVE a = <<>>
    BY EmptySeq
  <2>1. PICK at \in [1 .. Len(a) -> 1 .. 0] : TRUE
    BY DEF Embeds
  <2>3. 1 .. Len(a) = {}
    <3>1. 1 .. 0 = {}
      OBVIOUS
    <3>2. \A i \in 1 .. Len(a) : at[i] \in 1 .. 0
      BY <2>1
    <3> QED
      BY <3>1, <3>2
  <2>2. 1 \notin 1 .. Len(a)
    BY <2>3
  <2> QED
    BY <2>2, LenProperties, EmptySeq
<1>2. ASSUME NEW b \in T, NEW x \in R PROVE Append(b, x) \in T
  <2> DEFINE c == Append(b, x)
             n == Len(b)
  <2>1. /\ b \in Seq(R) /\ n \in Nat /\ c \in Seq(R)
        /\ Len(c) = n + 1 /\ c[n + 1] = x
        /\ \A i \in 1 .. n : c[i] = b[i]
    BY AppendProperties, LenProperties
  <2>10. FlattenSeq(c) = FlattenSeq(b) \o x
    BY FlattenAppend
  <2>11. FlattenSeq(b) \in Seq(S) /\ FlattenSeq(c) \in Seq(S)
    BY <2>1, FlattenType
  <2>2. /\ FlattenSeq(c) = FlattenSeq(b) \o x
        /\ FlattenSeq(b) \in Seq(S) /\ FlattenSeq(c) \in Seq(S)
        /\ Len(FlattenSeq(c)) = Len(FlattenSeq(b)) + Len(x)
        /\ Len(x) \in Nat /\ Len(FlattenSeq(b)) \in Nat
    BY <2>10, <2>11, ConcatProperties, LenProperties
  <2>3. FlattenSeq(c) = FlattenSeq(b) \/ Len(FlattenSeq(b)) < Len(FlattenSeq(c))
    <3>1. CASE x = <<>>
      BY <3>1, <2>2, ConcatEmptySeq
    <3>2. CASE x # <<>>
      <4>1. Len(x) > 0
        BY <3>2, EmptySeq, LenProperties
      <4> QED
        BY <4>1, <2>2
    <3> QED
      BY <3>1, <3>2
  <2> HIDE DEF c, n
  <2> SUFFICES ASSUME NEW a \in Seq(R), Embeds(a, c) PROVE Within(a, c)
    BY <2>1 DEF c
  <2> DEFINE m == Len(a)
  <2>4. m \in Nat /\ FlattenSeq(a) \in Seq(S) /\ Len(FlattenSeq(a)) \in Nat
    BY LenProperties, FlattenType
  <2>5. PICK at \in [1 .. m -> 1 .. n + 1] :
           /\ \A i, j \in 1 .. m : i < j => at[i] < at[j]
           /\ \A i \in 1 .. m : c[at[i]] = a[i]
    BY <2>1 DEF Embeds
  <2> HIDE DEF m
  <2>6. CASE \A i \in 1 .. m : at[i] # n + 1
    <3>1. at \in [1 .. m -> 1 .. n]
      BY <2>1, <2>6
    <3>2. \A i \in 1 .. m : b[at[i]] = a[i]
      BY <2>1, <2>5, <3>1
    <3>3. Embeds(a, b)
      BY <2>5, <3>1, <3>2 DEF Embeds, m, n
    <3>4. Within(a, b)
      BY <3>3
    <3> QED
      BY <3>4, <2>2, <2>3, <2>4, <2>11
  <2>7. CASE \E i \in 1 .. m : at[i] = n + 1
    <3>1. PICK l \in 1 .. m : at[l] = n + 1
      BY <2>7
    <3>2. l = m /\ m > 0
      <4>1. ASSUME l < m PROVE FALSE
        <5>1. l \in 1 .. m /\ m \in 1 .. m
          BY <2>4
        <5>2. at[l] < at[m] /\ at[m] \in 1 .. n + 1
          BY <2>5, <4>1, <5>1
        <5> QED
          BY <5>2, <3>1, <2>1
      <4> QED
        BY <4>1, <2>4
    <3>3. PICK d \in Seq(R), y \in R : a = Append(d, y)
      <4>1. a # <<>>
        BY <3>2, EmptySeq DEF m
      <4> QED
        BY <4>1, SequenceEmptyOrAppend
    <3>4. /\ Len(d) = m - 1 /\ a[m] = y
          /\ \A i \in 1 .. m - 1 : a[i] = d[i]
      BY <3>3, AppendProperties, LenProperties DEF m
    <3>5. y = x
      BY <3>1, <3>2, <3>4, <2>1, <2>5
    <3>6. Embeds(d, b)
      <4> DEFINE to == [i \in 1 .. m - 1 |-> at[i]]
      <4>1. ASSUME NEW i \in 1 .. m - 1 PROVE at[i] \in 1 .. n /\ i \in 1 .. m
        <5>1. i \in 1 .. m /\ m \in 1 .. m /\ i < m
          BY <2>4
        <5>2. at[i] < at[m] /\ at[i] \in 1 .. n + 1
          BY <5>1, <2>5
        <5> QED
          BY <5>1, <5>2, <3>1, <3>2, <2>1
      <4>2. to \in [1 .. m - 1 -> 1 .. n]
        BY <4>1
      <4>3. \A i, j \in 1 .. m - 1 : i < j => to[i] < to[j]
        BY <4>1, <2>5
      <4>4. \A i \in 1 .. m - 1 : b[to[i]] = d[i]
        BY <4>1, <2>1, <2>5, <3>4
      <4> HIDE DEF to
      <4> QED
        BY <4>2, <4>3, <4>4, <3>4 DEF Embeds, n
    <3>7. Within(d, b)
      BY <3>6
    <3>9. FlattenSeq(a) = FlattenSeq(d) \o x
      BY <3>3, <3>5, FlattenAppend
    <3>10. FlattenSeq(d) \in Seq(S) /\ x \in Seq(S)
      BY <3>3, FlattenType
    <3>8. /\ FlattenSeq(a) = FlattenSeq(d) \o x
          /\ FlattenSeq(d) \in Seq(S) /\ Len(FlattenSeq(d)) \in Nat
          /\ Len(FlattenSeq(a)) = Len(FlattenSeq(d)) + Len(x)
      BY <3>9, <3>10, ConcatProperties, LenProperties
    <3>11. CASE FlattenSeq(d) = FlattenSeq(b)
      BY <3>11, <3>8, <2>2
    <3>12. CASE Len(FlattenSeq(d)) < Len(FlattenSeq(b))
      <4>1. Len(FlattenSeq(a)) < Len(FlattenSeq(c))
        BY <3>12, <3>8, <2>2
      <4> QED
        BY <4>1
    <3> QED
      BY <3>7, <3>11, <3>12
  <2> QED
    BY <2>6, <2>7
<1> HIDE DEF T
<1>3. T = Seq(R)
  BY <1>1, <1>2, SequenceInduction DEF T
<1> QED
  BY <1>3 DEF T

---------------------------------------------------------------------------
\* An index of n + 1 members is the last one or one of the others.
LEMMA LastOrBefore ==
    ASSUME NEW n \in Nat, NEW k \in 1 .. n + 1
    PROVE  k = n + 1 \/ k \in 1 .. n
OBVIOUS

(***************************************************************************)
(* How many rows batches have does not depend on their order.              *)
(***************************************************************************)
LEMMA FlattenExcept ==
    ASSUME NEW S, NEW u \in Seq(Seq(S)), NEW v \in Seq(Seq(S)), Len(u) = Len(v),
           NEW i \in 1 .. Len(u), \A k \in 1 .. Len(u) : k # i => u[k] = v[k]
    PROVE  Len(FlattenSeq(u)) + Len(v[i]) = Len(FlattenSeq(v)) + Len(u[i])
<1> DEFINE R == Seq(S)
           Differ(a, b, j) == Len(a) = Len(b) /\ \A k \in 1 .. Len(a) : k # j => a[k] = b[k]
           Rest(a, b, j) == Len(FlattenSeq(a)) + Len(b[j]) = Len(FlattenSeq(b)) + Len(a[j])
           T == {a \in Seq(R) : \A b \in Seq(R), j \in 1 .. Len(a) :
                                    Differ(a, b, j) => Rest(a, b, j)}
<1>1. <<>> \in T
  BY EmptySeq
<1>2. ASSUME NEW e \in T, NEW z \in R PROVE Append(e, z) \in T
  <2> DEFINE d == Append(e, z)
             n == Len(e)
  <2>1. /\ e \in Seq(R) /\ n \in Nat /\ d \in Seq(R)
        /\ Len(d) = n + 1 /\ d[n + 1] = z
        /\ \A k \in 1 .. n : d[k] = e[k]
    BY AppendProperties, LenProperties
  <2>2. FlattenSeq(d) = FlattenSeq(e) \o z /\ FlattenSeq(e) \in Seq(S)
    BY <2>1, FlattenAppend, FlattenType
  <2>3. Len(FlattenSeq(d)) = Len(FlattenSeq(e)) + Len(z)
        /\ Len(FlattenSeq(e)) \in Nat /\ Len(z) \in Nat
    BY <2>2, ConcatProperties, LenProperties
  <2>4. \A b \in Seq(R), j \in 1 .. n : Differ(e, b, j) => Rest(e, b, j)
    OBVIOUS
  <2> HIDE DEF d, n, T
  <2> SUFFICES ASSUME NEW w \in Seq(R), NEW j \in 1 .. n + 1, Differ(d, w, j)
               PROVE  Rest(d, w, j)
    BY <2>1 DEF d, T
  <2>12. Len(w) = n + 1 /\ n \in Nat
    BY <2>1
  <2>5. PICK x \in Seq(R), y \in R : w = Append(x, y)
    <3>1. w # <<>>
      BY <2>12, EmptySeq
    <3> QED
      BY <3>1, SequenceEmptyOrAppend
  <2>6. Len(x) = n /\ w[n + 1] = y /\ \A k \in 1 .. n : w[k] = x[k]
    <3>1. Len(x) \in Nat /\ Len(w) = Len(x) + 1 /\ w[Len(x) + 1] = y
          /\ \A k \in 1 .. Len(x) : w[k] = x[k]
      BY <2>5, AppendProperties, LenProperties
    <3> HIDE DEF R
    <3>2. Len(x) = n
      BY <2>12, <3>1
    <3> QED
      BY <3>1, <3>2
  <2>7. FlattenSeq(w) = FlattenSeq(x) \o y /\ FlattenSeq(x) \in Seq(S)
    BY <2>5, FlattenAppend, FlattenType
  <2>8. Len(FlattenSeq(w)) = Len(FlattenSeq(x)) + Len(y)
        /\ Len(FlattenSeq(x)) \in Nat /\ Len(y) \in Nat
    BY <2>7, ConcatProperties, LenProperties
  <2>9. \A k \in 1 .. n + 1 : k # j => d[k] = w[k]
    BY <2>1
  <2>10. CASE j = n + 1
    <3>1. ASSUME NEW k \in 1 .. n PROVE e[k] = x[k]
      <4>1. k \in 1 .. n + 1 /\ k # n + 1
        BY <2>1
      <4> QED
        BY <4>1, <2>1, <2>6, <2>9, <2>10
    <3>2. e = x
      BY <2>1, <2>6, <3>1, SeqEqual DEF n
    <3>3. d[j] = z /\ w[j] = y
      BY <2>1, <2>6, <2>10
    <3> QED
      BY <2>3, <2>8, <3>2, <3>3
  <2>11. CASE j \in 1 .. n
    <3>1. n + 1 \in 1 .. n + 1 /\ n + 1 # j
      BY <2>1, <2>11
    <3>2. z = y
      BY <2>1, <2>6, <2>9, <3>1
    <3>3. ASSUME NEW k \in 1 .. n, k # j PROVE e[k] = x[k]
      <4>1. k \in 1 .. n + 1
        BY <2>1
      <4> QED
        BY <3>3, <4>1, <2>1, <2>6, <2>9
    <3>4. Differ(e, x, j)
      BY <2>6, <3>3 DEF n
    <3>5. Rest(e, x, j)
      BY <2>4, <2>11, <3>4
    <3>6. d[j] = e[j] /\ w[j] = x[j]
      BY <2>1, <2>6, <2>11
    <3>7. e[j] \in Seq(S) /\ x[j] \in Seq(S) /\ Len(e[j]) \in Nat /\ Len(x[j]) \in Nat
      BY <2>1, <2>6, <2>11, ElementOfSeq, LenProperties DEF n
    <3> QED
      <4>1. Len(FlattenSeq(d)) + Len(x[j]) = Len(FlattenSeq(w)) + Len(e[j])
        <5>1. Len(FlattenSeq(e)) + Len(x[j]) = Len(FlattenSeq(x)) + Len(e[j])
          BY <3>5
        <5>2. Len(FlattenSeq(d)) = Len(FlattenSeq(e)) + Len(z)
              /\ Len(FlattenSeq(w)) = Len(FlattenSeq(x)) + Len(z)
              /\ Len(z) \in Nat /\ Len(FlattenSeq(e)) \in Nat /\ Len(FlattenSeq(x)) \in Nat
          BY <2>3, <2>8, <3>2
        <5>3. Len(e[j]) \in Nat /\ Len(x[j]) \in Nat
          BY <3>7
        <5> DEFINE a == Len(FlattenSeq(e))
                   b == Len(FlattenSeq(x))
                   c == Len(z)
                   k == Len(x[j])
                   l == Len(e[j])
        <5>4. a \in Nat /\ b \in Nat /\ c \in Nat /\ k \in Nat /\ l \in Nat /\ a + k = b + l
          BY <5>1, <5>2, <5>3
        <5>5. Len(FlattenSeq(d)) = a + c /\ Len(FlattenSeq(w)) = b + c
          BY <5>2
        <5> HIDE DEF a, b, c, k, l
        <5>6. (a + c) + k = (b + c) + l
          BY <5>4
        <5>7. Len(FlattenSeq(d)) + k = Len(FlattenSeq(w)) + l
          BY <5>5, <5>6
        <5> QED
          BY <5>7 DEF k, l
      <4> QED
        BY <4>1, <3>6
  <2> QED
    BY <2>1, <2>10, <2>11, LastOrBefore
<1> HIDE DEF T
<1>3. T = Seq(R)
  BY <1>1, <1>2, SequenceInduction DEF T
<1> QED
  BY <1>3 DEF T

\* Every member of u is one of v, and no two are the same one.
Among(u, v) ==
    \E at \in [1 .. Len(u) -> 1 .. Len(v)] :
        /\ \A i, j \in 1 .. Len(u) : i # j => at[i] # at[j]
        /\ \A i \in 1 .. Len(u) : v[at[i]] = u[i]

\* Then u has no more rows than v.
LEMMA FlattenAmong ==
    ASSUME NEW S, NEW u \in Seq(Seq(S)), NEW v \in Seq(Seq(S)), Among(u, v)
    PROVE  Len(FlattenSeq(u)) <= Len(FlattenSeq(v))
<1> DEFINE R == Seq(S)
           T == {b \in Seq(R) : \A a \in Seq(R) :
                    Among(a, b) => Len(FlattenSeq(a)) <= Len(FlattenSeq(b))}
<1>1. <<>> \in T
  <2> SUFFICES ASSUME NEW a \in Seq(R), Among(a, <<>>) PROVE a = <<>>
    BY EmptySeq, FlattenEmpty
  <2>1. PICK at \in [1 .. Len(a) -> 1 .. 0] : TRUE
    BY DEF Among
  <2>2. 1 .. Len(a) = {}
    <3>1. 1 .. 0 = {}
      OBVIOUS
    <3>2. \A i \in 1 .. Len(a) : at[i] \in 1 .. 0
      BY <2>1
    <3> QED
      BY <3>1, <3>2
  <2>3. 1 \notin 1 .. Len(a)
    BY <2>2
  <2> QED
    BY <2>3, LenProperties, EmptySeq
<1>2. ASSUME NEW b \in T, NEW x \in R PROVE Append(b, x) \in T
  <2> DEFINE c == Append(b, x)
             n == Len(b)
  <2>0. b \in Seq(R) /\ \A a \in Seq(R) :
          Among(a, b) => Len(FlattenSeq(a)) <= Len(FlattenSeq(b))
    OBVIOUS
  <2> HIDE DEF T
  <2>1. /\ b \in Seq(R) /\ n \in Nat /\ c \in Seq(R)
        /\ Len(c) = n + 1 /\ c[n + 1] = x
        /\ \A i \in 1 .. n : c[i] = b[i]
    BY <2>0, AppendProperties, LenProperties
  <2>2. FlattenSeq(c) = FlattenSeq(b) \o x /\ FlattenSeq(b) \in Seq(S)
    BY <2>1, FlattenAppend, FlattenType
  <2>3. Len(FlattenSeq(c)) = Len(FlattenSeq(b)) + Len(x)
        /\ Len(x) \in Nat /\ Len(FlattenSeq(b)) \in Nat
    BY <2>2, ConcatProperties, LenProperties
  <2> HIDE DEF c, n
  <2> SUFFICES ASSUME NEW a \in Seq(R), Among(a, c)
               PROVE  Len(FlattenSeq(a)) <= Len(FlattenSeq(c))
    BY <2>1 DEF c, T
  <2> DEFINE m == Len(a)
  <2>4. m \in Nat /\ FlattenSeq(a) \in Seq(S) /\ Len(FlattenSeq(a)) \in Nat
    BY LenProperties, FlattenType
  <2>5. PICK at \in [1 .. m -> 1 .. n + 1] :
           /\ \A i, j \in 1 .. m : i # j => at[i] # at[j]
           /\ \A i \in 1 .. m : c[at[i]] = a[i]
    BY <2>1 DEF Among
  <2> HIDE DEF m
  <2>6. CASE \A i \in 1 .. m : at[i] # n + 1
    <3>1. at \in [1 .. m -> 1 .. n]
      BY <2>1, <2>6
    <3>2. \A i \in 1 .. m : b[at[i]] = a[i]
      BY <2>1, <2>5, <3>1
    <3>3. Among(a, b)
      BY <2>5, <3>1, <3>2 DEF Among, m, n
    <3>4. Len(FlattenSeq(a)) <= Len(FlattenSeq(b))
      BY <2>0, <3>3
    <3> QED
      BY <3>4, <2>3, <2>4
  <2>7. CASE \E i \in 1 .. m : at[i] = n + 1
    <3>1. PICK l \in 1 .. m : at[l] = n + 1
      BY <2>7
    <3>2. PICK d \in Seq(R), y \in R : a = Append(d, y)
      <4>1. a # <<>>
        BY <3>1, EmptySeq DEF m
      <4> QED
        BY <4>1, SequenceEmptyOrAppend
    <3>3. /\ Len(d) = m - 1 /\ a[m] = y /\ m >= 1
          /\ \A i \in 1 .. m - 1 : a[i] = d[i]
      BY <3>2, AppendProperties, LenProperties DEF m
    <3>4. a[l] = x
      BY <3>1, <2>1, <2>5
    \* The last member takes the place of member l, which is left out.
    <3> DEFINE rest == IF l = m THEN d ELSE [d EXCEPT ![l] = y]
               to == [i \in 1 .. m - 1 |-> IF i = l THEN at[m] ELSE at[i]]
    <3>5. /\ rest \in Seq(R) /\ Len(rest) = m - 1
          /\ \A i \in 1 .. m - 1 : rest[i] = IF i = l THEN y ELSE d[i]
      <4>1. CASE l = m
        BY <4>1, <3>3, <2>4
      <4>2. CASE l # m
        <5>1. l \in 1 .. Len(d)
          BY <4>2, <3>3, <2>4
        <5> QED
          BY <4>2, <5>1, <3>3, ExceptSeq
      <4> QED
        BY <4>1, <4>2
    <3>6. Len(FlattenSeq(a)) = Len(FlattenSeq(rest)) + Len(x)
          /\ Len(FlattenSeq(rest)) \in Nat
      <4>1. FlattenSeq(a) = FlattenSeq(d) \o y /\ FlattenSeq(d) \in Seq(S)
        BY <3>2, FlattenAppend, FlattenType
      <4>2. Len(FlattenSeq(a)) = Len(FlattenSeq(d)) + Len(y)
            /\ Len(FlattenSeq(d)) \in Nat /\ Len(y) \in Nat
        BY <4>1, ConcatProperties, LenProperties
      <4>3. CASE l = m
        BY <4>2, <4>3, <3>3, <3>4
      <4>4. CASE l # m
        <5>1. l \in 1 .. Len(d) /\ d[l] = x
          <6>1. l \in 1 .. m - 1
            BY <4>4, <2>4
          <6> QED
            BY <6>1, <3>3, <3>4
        <5>5. rest[l] = y /\ \A k \in 1 .. Len(rest) : k # l => rest[k] = d[k]
          BY <5>1, <3>3, <3>5
        <5> HIDE DEF rest
        <5>2. Len(FlattenSeq(rest)) + Len(x) = Len(FlattenSeq(d)) + Len(y)
          BY <5>1, <5>5, <3>3, <3>5, FlattenExcept
        <5>3. FlattenSeq(rest) \in Seq(S)
          BY <3>5, FlattenType
        <5>4. Len(FlattenSeq(rest)) \in Nat
          BY <5>3, LenProperties
        <5> QED
          BY <5>2, <5>4, <4>2, <2>3
      <4> QED
        BY <4>3, <4>4
    <3> HIDE DEF rest
    <3>7. ASSUME NEW i \in 1 .. m - 1
          PROVE  i \in 1 .. m /\ m \in 1 .. m /\ i # m
      BY <2>4
    <3>8. ASSUME NEW i \in 1 .. m - 1 PROVE to[i] \in 1 .. n /\ b[to[i]] = rest[i]
      <4>1. CASE i = l
        <5>1. at[m] # n + 1 /\ at[m] \in 1 .. n + 1 /\ c[at[m]] = y
          BY <4>1, <3>1, <3>3, <3>7, <2>5
        <5>2. at[m] \in 1 .. n
          BY <5>1, <2>1, LastOrBefore
        <5> QED
          BY <4>1, <5>1, <5>2, <3>5, <2>1
      <4>2. CASE i # l
        <5>0. i \in 1 .. m /\ l \in 1 .. m
          BY <3>7
        <5>1. at[i] # n + 1 /\ at[i] \in 1 .. n + 1 /\ c[at[i]] = d[i]
          BY <4>2, <5>0, <3>1, <3>3, <2>5
        <5>2. at[i] \in 1 .. n
          BY <5>1, <2>1, LastOrBefore
        <5> QED
          BY <4>2, <5>1, <5>2, <3>5, <2>1
      <4> QED
        BY <4>1, <4>2
    <3>9. \A i, j \in 1 .. m - 1 : i # j => to[i] # to[j]
      BY <2>5, <3>7
    <3>10. to \in [1 .. m - 1 -> 1 .. n]
      BY <3>8
    <3>11. \A i \in 1 .. m - 1 : b[to[i]] = rest[i]
      BY <3>8
    <3> HIDE DEF to
    <3>12. Among(rest, b)
      <4>1. to \in [1 .. Len(rest) -> 1 .. Len(b)]
        BY <3>5, <3>10 DEF n
      <4>2. /\ \A i, j \in 1 .. Len(rest) : i # j => to[i] # to[j]
            /\ \A i \in 1 .. Len(rest) : b[to[i]] = rest[i]
        BY <3>5, <3>9, <3>11
      <4> QED
        BY <4>1, <4>2 DEF Among
    <3>13. Len(FlattenSeq(rest)) <= Len(FlattenSeq(b))
      BY <2>0, <3>5, <3>12
    <3> QED
      BY <3>6, <3>13, <2>3
  <2> QED
    BY <2>6, <2>7
<1> HIDE DEF T
<1>3. T = Seq(R)
  BY <1>1, <1>2, SequenceInduction DEF T
<1> QED
  BY <1>3 DEF T
=============================================================================
