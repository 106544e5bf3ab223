----------------------------- MODULE PureProofs -----------------------------
(***************************************************************************)
(* Proofs about the parts that keep no state: the order of file names      *)
(* (FileNames), column types (ColumnTypes) and aggregates (ScalarCoercion).*)
(***************************************************************************)
EXTENDS FileNames, ColumnTypes, ScalarCoercion, NamesProofs, SequenceLemmas

---------------------------------------------------------------------------
(***************************************************************************)
(* Division, by a number that is not known.                                *)
(***************************************************************************)
LEMMA ProductsFollow ==
    ASSUME NEW d \in Nat, NEW x \in Int, NEW y \in Int, x <= y
    PROVE  d * x <= d * y
<1>1. d * (y - x) >= 0 /\ d * (y - x) = d * y - d * x
  OBVIOUS
<1> QED
  BY <1>1

\* The quotient and the remainder.
LEMMA Divides ==
    ASSUME NEW x \in Nat, NEW d \in Nat \ {0}
    PROVE  /\ x \div d \in Nat /\ x % d \in 0 .. d-1
           /\ x = d * (x \div d) + (x % d)
           /\ d * (x \div d) <= x /\ x < d * (x \div d) + d
OBVIOUS

\* No other number is the quotient.
LEMMA QuotientIs ==
    ASSUME NEW x \in Nat, NEW d \in Nat \ {0}, NEW q \in Int,
           d * q <= x, x < d * (q + 1)
    PROVE  x \div d = q
<1>1. PICK p \in Nat : p = x \div d /\ d * p <= x /\ x < d * (p + 1)
  BY Divides
<1>2. ~(p < q)
  <2> SUFFICES ASSUME p + 1 <= q PROVE FALSE
    OBVIOUS
  <2>1. d * (p + 1) <= d * q
    BY ProductsFollow
  <2> QED
    BY <1>1, <2>1
<1>3. ~(q < p)
  <2> SUFFICES ASSUME q + 1 <= p PROVE FALSE
    OBVIOUS
  <2>1. d * (q + 1) <= d * p
    BY ProductsFollow
  <2> QED
    BY <1>1, <2>1
<1> QED
  BY <1>1, <1>2, <1>3

\* Dividing twice is dividing by the product.
LEMMA DividesTwice ==
    ASSUME NEW x \in Nat, NEW d \in Nat \ {0}, NEW r \in Nat \ {0}
    PROVE  x \div (r * d) = (x \div d) \div r
<1>1. PICK p \in Nat : p = x \div d /\ d * p <= x /\ x < d * (p + 1)
  BY Divides
<1>2. PICK q \in Nat : q = p \div r /\ r * q <= p /\ p < r * (q + 1)
  BY Divides
<1>3. p + 1 <= r * (q + 1) /\ r * q \in Int /\ r * (q + 1) \in Int
  BY <1>2
<1>4. d * (r * q) <= d * p /\ d * (p + 1) <= d * (r * (q + 1))
  BY <1>2, <1>3, ProductsFollow
<1>5. r * d \in Nat \ {0} /\ d * (r * q) = (r * d) * q /\ d * (r * (q + 1)) = (r * d) * (q + 1)
  OBVIOUS
<1>6. (r * d) * q <= x /\ x < (r * d) * (q + 1)
  <2>1. \A a, b, c \in Int : a <= b /\ b <= c => a <= c
    OBVIOUS
  <2>2. \A a, b, c \in Int : a < b /\ b <= c => a < c
    OBVIOUS
  <2>3. /\ d * (r * q) \in Int /\ d * p \in Int /\ d * (p + 1) \in Int
        /\ d * (r * (q + 1)) \in Int
    BY <1>3
  <2> QED
    BY <1>1, <1>4, <1>5, <2>1, <2>2, <2>3
<1> DEFINE e == r * d
<1>7. e \in Nat \ {0} /\ e * q <= x /\ x < e * (q + 1)
  BY <1>5, <1>6
<1> HIDE DEF e
<1>8. x \div e = q
  BY <1>7, QuotientIs
<1> QED
  BY <1>1, <1>2, <1>8 DEF e

\* The larger of two numbers has the larger quotient, or the same.
LEMMA QuotientsFollow ==
    ASSUME NEW x \in Nat, NEW y \in Nat, NEW d \in Nat \ {0}, x <= y
    PROVE  x \div d <= y \div d
<1>1. PICK p \in Nat : p = x \div d /\ d * p <= x
  BY Divides
<1>2. PICK q \in Nat : q = y \div d /\ y < d * (q + 1)
  BY Divides
<1> SUFFICES ASSUME q + 1 <= p PROVE FALSE
  BY <1>1, <1>2
<1>3. d * (q + 1) <= d * p
  BY ProductsFollow
<1> QED
  BY <1>1, <1>2, <1>3

---------------------------------------------------------------------------
(***************************************************************************)
(* The first number of each length.                                        *)
(***************************************************************************)
LEMMA Powers ==
    /\ Power[0] = 1
    /\ \A m \in Nat : Power[m] \in Nat \ {0} /\ Power[m + 1] = Radix * Power[m]
<1>1. Power = [m \in Nat |-> IF m = 0 THEN 1 ELSE Radix * Power[m-1]]
  <2>1. \E f : f = [m \in Nat |-> IF m = 0 THEN 1 ELSE Radix * f[m-1]]
    BY PowersExist
  <2> QED
    BY <2>1 DEF Power
<1>2. Power[0] = 1 /\ \A m \in Nat : Power[m + 1] = Radix * Power[m]
  <2>1. \A m \in Nat : Power[m] = IF m = 0 THEN 1 ELSE Radix * Power[m-1]
    BY <1>1
  <2>2. \A m \in Nat : m + 1 \in Nat /\ m + 1 # 0 /\ (m + 1) - 1 = m
    OBVIOUS
  <2> QED
    BY <2>1, <2>2
<1> DEFINE T == {m \in Nat : Power[m] \in Nat \ {0}}
<1>3. 0 \in T
  BY <1>2
<1>4. \A m \in T : m + 1 \in T
  <2>1. \A x \in Nat \ {0} : Radix * x \in Nat \ {0}
    BY NamesAssumption
  <2> QED
    BY <1>2, <2>1
<1> HIDE DEF T
<1>5. T = Nat
  <2>1. T \in SUBSET Nat
    BY DEF T
  <2> QED
    BY <1>3, <1>4, <2>1, Induction
<1> QED
  BY <1>2, <1>5 DEF T

\* The more digits, the larger.
LEMMA PowersFollow ==
    ASSUME NEW a \in Nat, NEW b \in Nat, a <= b
    PROVE  Power[a] <= Power[b]
<1> DEFINE T == {d \in Nat : Power[a] <= Power[a + d]}
<1>1. 0 \in T
  BY Powers
<1>2. ASSUME NEW d \in T PROVE d + 1 \in T
  <2>1. /\ Power[a] \in Nat /\ Power[a + d] \in Nat
        /\ Power[(a + d) + 1] = Radix * Power[a + d]
        /\ Power[a] <= Power[a + d]
    BY Powers
  <2>2. \A x \in Nat : x <= Radix * x
    <3> SUFFICES ASSUME NEW x \in Nat PROVE x <= Radix * x
      OBVIOUS
    <3>1. x * 1 <= x * Radix
      BY NamesAssumption, ProductsFollow
    <3> QED
      BY <3>1, NamesAssumption
  <2>3. Power[a + d] <= Radix * Power[a + d] /\ Radix * Power[a + d] \in Nat
    BY <2>1, <2>2, NamesAssumption
  <2>4. (a + d) + 1 = a + (d + 1)
    OBVIOUS
  <2> QED
    BY <2>1, <2>3, <2>4
<1> HIDE DEF T
<1>3. T = Nat
  <2>1. T \in SUBSET Nat
    BY DEF T
  <2> QED
    BY <1>1, <1>2, <2>1, Induction
<1>4. b - a \in T /\ a + (b - a) = b
  BY <1>3
<1> QED
  BY <1>4 DEF T

---------------------------------------------------------------------------
(***************************************************************************)
(* The first k of the m digits of x, as a number, and the last of them.    *)
(***************************************************************************)
Start(x, m, k) == x \div Power[m - k]
Digit(x, m, k) == Start(x, m, k) % Radix

\* With one more digit the number is Radix times as large, and that digit more.
LEMMA Starts ==
    ASSUME NEW x \in Nat, NEW m \in Nat, x < Power[m]
    PROVE  /\ Start(x, m, 0) = 0 /\ Start(x, m, m) = x
           /\ \A k \in 0 .. m : Start(x, m, k) \in Nat
           /\ \A k \in 1 .. m : /\ Digit(x, m, k) \in Nat
                               /\ Start(x, m, k) = Radix * Start(x, m, k-1) + Digit(x, m, k)
<1>1. Start(x, m, 0) = 0
  <2>1. Power[m] \in Nat \ {0} /\ Power[m] * 0 <= x /\ x < Power[m] * (0 + 1) /\ m - 0 = m
    BY Powers
  <2>2. x \div Power[m] = 0
    BY <2>1, QuotientIs
  <2> QED
    BY <2>1, <2>2 DEF Start
<1>2. Start(x, m, m) = x
  BY Powers DEF Start
<1>3. ASSUME NEW k \in 0 .. m PROVE Start(x, m, k) \in Nat
  <2>1. Power[m - k] \in Nat \ {0}
    BY Powers
  <2> QED
    BY <2>1, Divides DEF Start
<1>4. ASSUME NEW k \in 1 .. m
      PROVE  /\ Digit(x, m, k) \in Nat
             /\ Start(x, m, k) = Radix * Start(x, m, k-1) + Digit(x, m, k)
  <2>1. /\ m - k \in Nat /\ m - (k - 1) = (m - k) + 1
        /\ Power[m - k] \in Nat \ {0} /\ Power[(m - k) + 1] = Radix * Power[m - k]
        /\ Radix \in Nat \ {0}
    BY Powers, NamesAssumption
  <2>2. Start(x, m, k-1) = Start(x, m, k) \div Radix
    BY <2>1, DividesTwice DEF Start
  <2>3. Start(x, m, k) \in Nat
    BY <1>3
  <2>4. /\ Start(x, m, k) % Radix \in 0 .. Radix - 1
        /\ Start(x, m, k) = Radix * (Start(x, m, k) \div Radix) + (Start(x, m, k) % Radix)
    BY <2>1, <2>3, Divides
  <2> QED
    BY <2>1, <2>2, <2>4 DEF Digit
<1> QED
  BY <1>1, <1>2, <1>3, <1>4

\* The first digit in which two numbers of m digits differ says which is smaller.
LEMMA DigitsDecide ==
    ASSUME NEW m \in Nat, NEW x \in Nat, NEW y \in Nat, x < y, x < Power[m], y < Power[m]
    PROVE  \E k \in 1 .. m : /\ Digit(x, m, k) < Digit(y, m, k)
                            /\ \A l \in 1 .. k-1 : Digit(x, m, l) = Digit(y, m, l)
<1> DEFINE T == {k \in 0 .. m : Start(x, m, k) # Start(y, m, k)}
<1>1. m \in T
  BY Starts
<1>2. PICK k \in T : \A l \in T : k <= l
  <2>1. T \in SUBSET Nat /\ T # {}
    BY <1>1
  <2> HIDE DEF T
  <2> QED
    BY <2>1, LeastNumber
<1>3. k \in 1 .. m
  BY Starts
<1>4. \A l \in 0 .. k-1 : Start(x, m, l) = Start(y, m, l)
  BY <1>2, <1>3
<1>5. Start(x, m, k) < Start(y, m, k)
  <2>1. Power[m - k] \in Nat \ {0}
    BY <1>3, Powers
  <2>2. Start(x, m, k) <= Start(y, m, k)
    BY <2>1, QuotientsFollow DEF Start
  <2>3. Start(x, m, k) \in Nat /\ Start(y, m, k) \in Nat /\ Start(x, m, k) # Start(y, m, k)
    BY <1>3, Starts
  <2> QED
    BY <2>2, <2>3
<1>6. Digit(x, m, k) < Digit(y, m, k)
  <2>1. /\ Start(x, m, k) = Radix * Start(x, m, k-1) + Digit(x, m, k)
        /\ Start(y, m, k) = Radix * Start(y, m, k-1) + Digit(y, m, k)
        /\ Digit(x, m, k) \in Nat /\ Digit(y, m, k) \in Nat
    BY <1>3, Starts
  <2>2. Radix * Start(x, m, k-1) = Radix * Start(y, m, k-1) /\ Radix * Start(x, m, k-1) \in Nat
    <3>1. k - 1 \in 0 .. k-1 /\ k - 1 \in 0 .. m
      BY <1>3
    <3>2. Start(x, m, k-1) = Start(y, m, k-1) /\ Start(x, m, k-1) \in Nat
      BY <1>4, <3>1, Starts
    <3> QED
      BY <3>2, NamesAssumption
  <2> QED
    BY <1>5, <2>1, <2>2
<1>7. \A l \in 1 .. k-1 : Digit(x, m, l) = Digit(y, m, l)
  BY <1>3, <1>4 DEF Digit
<1> QED
  BY <1>3, <1>6, <1>7

---------------------------------------------------------------------------
\* Names are as long as the padding, or one digit longer.
LEMMA DigitsIs ==
    ASSUME NEW i \in 0 .. Limit - 1
    PROVE  Digits(i) = IF i < Padded THEN Width ELSE Width + 1
<1> DEFINE Enough(m) == i < Power[m] /\ (m = Width \/ Power[m-1] <= i)
           w == IF i < Padded THEN Width ELSE Width + 1
<1>1. /\ Width \in Nat /\ Padded = Power[Width] /\ Padded \in Nat \ {0}
      /\ Limit = Power[Width + 1] /\ i \in Nat /\ i < Power[Width + 1]
  <2>1. Width \in Nat /\ Padded = Power[Width] /\ Padded \in Nat \ {0} /\ Radix \in Nat
    BY NamesAssumption, WidthAssumption
  <2>2. Limit = Power[Width + 1] /\ Limit \in Nat
    BY <2>1, Powers DEF Limit
  <2> QED
    BY <2>1, <2>2
<1>2. w \in Width .. Width + i /\ Enough(w)
  BY <1>1
<1>3. ASSUME NEW m \in Width .. Width + i, Enough(m) PROVE m = w
  <2>1. m \in Nat /\ Width <= m
    BY <1>1
  <2>2. CASE m = Width
    BY <1>1, <1>3, <2>2
  <2>3. CASE m = Width + 1
    BY <1>1, <1>3, <2>3
  <2>4. CASE m > Width + 1
    <3>1. Power[Width + 1] <= Power[m - 1] /\ Power[Width + 1] \in Nat /\ Power[m - 1] \in Nat
      BY <1>1, <2>1, <2>4, PowersFollow, Powers
    <3> QED
      BY <1>1, <1>3, <2>4, <3>1
  <2> QED
    BY <1>1, <2>1, <2>2, <2>3, <2>4
<1> HIDE DEF w
<1>4. (CHOOSE m \in Width .. Width + i : Enough(m)) = w
  BY <1>2, <1>3
<1> QED
  BY <1>4 DEF Digits, w

(***************************************************************************)
(* The name of a file begins with the digits of Leading; then comes the    *)
(* dot, or one more digit and the dot.                                     *)
(***************************************************************************)
LEMMA NameIs ==
    ASSUME NEW i \in 0 .. Limit - 1
    PROVE  /\ Width \in Nat /\ i \in Nat /\ Leading(i) \in Nat /\ Leading(i) < Power[Width]
           /\ Len(Name(i)) \in Nat /\ Width + 1 <= Len(Name(i))
           /\ \A k \in 1 .. Len(Name(i)) : Name(i)[k] \in Int
           /\ \A k \in 1 .. Width : Name(i)[k] = Digit(Leading(i), Width, k)
           /\ Name(i)[Width + 1] = IF i < Padded THEN -1 ELSE i % Radix
<1>1. /\ Width \in Nat /\ Padded = Power[Width] /\ Padded \in Nat \ {0}
      /\ Radix \in Nat \ {0} /\ i \in Nat /\ i < Radix * Padded
  BY NamesAssumption, WidthAssumption DEF Limit
<1>2. \A j \in Nat : Power[j] \in Nat \ {0}
  BY Powers
<1>3. Digits(i) = IF i < Padded THEN Width ELSE Width + 1
  BY DigitsIs
<1> DEFINE d == Digits(i)
<1>4. d \in Nat /\ Width <= d
  BY <1>1, <1>3
<1>5. Name(i) = [k \in 1 .. d + 1 |-> IF k > d THEN -1 ELSE (i \div Power[d - k]) % Radix]
  BY DEF Name
<1> HIDE DEF d
<1>6. Len(Name(i)) = d + 1
  BY <1>4, <1>5
<1>7. ASSUME NEW k \in 1 .. d + 1 PROVE Name(i)[k] \in Int
  <2>1. CASE k > d
    BY <1>4, <1>5, <2>1
  <2>2. CASE k <= d
    <3>1. i \div Power[d - k] \in Nat
      <4>1. d - k \in Nat
        BY <1>4, <2>2
      <4>2. Power[d - k] \in Nat \ {0}
        BY <1>2, <4>1
      <4> QED
        BY <1>1, <4>2, Divides
    <3>2. (i \div Power[d - k]) % Radix \in Int
      BY <1>1, <3>1, Divides
    <3> QED
      BY <1>4, <1>5, <2>2, <3>2
  <2> QED
    BY <1>4, <2>1, <2>2
<1>8. CASE i < Padded
  <2>1. d = Width /\ Leading(i) = i
    BY <1>3, <1>8 DEF d, Leading
  <2>2. \A k \in 1 .. Width : Name(i)[k] = Digit(Leading(i), Width, k)
    BY <1>1, <1>5, <2>1 DEF Digit, Start
  <2>3. Name(i)[Width + 1] = -1
    BY <1>1, <1>5, <2>1
  <2> QED
    BY <1>1, <1>4, <1>6, <1>7, <1>8, <2>1, <2>2, <2>3
<1>9. CASE ~(i < Padded)
  <2>1. d = Width + 1 /\ Leading(i) = i \div Radix
    BY <1>3, <1>9 DEF d, Leading
  <2>2. PICK q \in Nat : q = i \div Radix /\ Radix * q <= i
    BY <1>1, Divides
  <2>3. q < Padded
    <3> SUFFICES ASSUME Padded <= q PROVE FALSE
      BY <1>1, <2>2
    <3>1. Radix * Padded <= Radix * q
      BY <1>1, <2>2, ProductsFollow
    <3> QED
      BY <1>1, <2>2, <3>1
  <2>4. ASSUME NEW k \in 1 .. Width PROVE Name(i)[k] = Digit(Leading(i), Width, k)
    <3>1. /\ Width - k \in Nat /\ d - k = (Width - k) + 1 /\ k \in 1 .. d + 1 /\ ~(k > d)
      BY <1>1, <2>1
    <3>2. Name(i)[k] = (i \div Power[(Width - k) + 1]) % Radix
      BY <1>5, <3>1
    <3>3. Power[(Width - k) + 1] = Power[Width - k] * Radix /\ Power[Width - k] \in Nat \ {0}
      BY <3>1, Powers, NamesAssumption
    <3>4. i \div (Power[Width - k] * Radix) = (i \div Radix) \div Power[Width - k]
      BY <1>1, <3>3, DividesTwice
    <3> QED
      BY <2>1, <3>2, <3>3, <3>4 DEF Digit, Start
  <2>5. Name(i)[Width + 1] = i % Radix
    <3>1. Width + 1 \in 1 .. d + 1 /\ ~(Width + 1 > d) /\ d - (Width + 1) = 0
      BY <1>1, <2>1
    <3>2. Name(i)[Width + 1] = (i \div Power[0]) % Radix
      BY <1>5, <3>1
    <3>3. i \div 1 = i
      BY <1>1
    <3> QED
      BY <3>2, <3>3, Powers
  <2> QED
    BY <1>1, <1>4, <1>6, <1>7, <1>9, <2>1, <2>2, <2>3, <2>4, <2>5
<1> QED
  BY <1>8, <1>9

---------------------------------------------------------------------------
\* Where BatchNames puts a file first, so does the order of the names.
LEMMA NamesFollow ==
    ASSUME NEW i \in 0 .. Limit - 1, NEW j \in 0 .. Limit - 1, NameBefore(i, j)
    PROVE  Less(Name(i), Name(j))
<1> DEFINE u == Name(i)
           v == Name(j)
           x == Leading(i)
           y == Leading(j)
<1>1. /\ Width \in Nat /\ i \in Nat /\ j \in Nat /\ x \in Nat /\ y \in Nat
      /\ x < Power[Width] /\ y < Power[Width]
      /\ Len(u) \in Nat /\ Width + 1 <= Len(u) /\ Len(v) \in Nat /\ Width + 1 <= Len(v)
  BY NameIs
<1>2. \A k \in 1 .. Width : u[k] = Digit(x, Width, k) /\ v[k] = Digit(y, Width, k)
  BY NameIs
<1>3. /\ u[Width + 1] = IF i < Padded THEN -1 ELSE i % Radix
      /\ v[Width + 1] = IF j < Padded THEN -1 ELSE j % Radix
  BY NameIs
<1>4. x < y \/ (x = y /\ i < j)
  BY DEF NameBefore
<1>5. (x = IF i < Padded THEN i ELSE i \div Radix) /\ (y = IF j < Padded THEN j ELSE j \div Radix)
  BY DEF Leading
<1> HIDE DEF u, v, x, y
<1>6. CASE x < y
  <2>1. PICK k \in 1 .. Width : /\ Digit(x, Width, k) < Digit(y, Width, k)
                               /\ \A l \in 1 .. k-1 : Digit(x, Width, l) = Digit(y, Width, l)
    BY <1>1, <1>6, DigitsDecide
  <2>2. /\ k \in 1 .. Len(u) /\ k <= Len(v) /\ u[k] < v[k]
        /\ \A l \in 1 .. k-1 : u[l] = v[l]
    BY <1>1, <1>2, <2>1
  <2> QED
    BY <2>2 DEF Less, u, v
<1>7. CASE x = y /\ i < j
  <2>1. u[Width + 1] < v[Width + 1]
    <3>1. Padded \in Nat /\ Radix \in Nat \ {0}
      BY NamesAssumption
    <3>2. /\ i % Radix \in Nat /\ i = Radix * (i \div Radix) + (i % Radix)
          /\ j % Radix \in Nat /\ j = Radix * (j \div Radix) + (j % Radix)
          /\ Radix * (i \div Radix) \in Nat /\ Radix * (j \div Radix) \in Nat
      <4>1. \A z \in Nat : /\ z % Radix \in Nat /\ z \div Radix \in Nat
                           /\ z = Radix * (z \div Radix) + (z % Radix)
        BY <3>1, Divides
      <4>2. \A z \in Nat : Radix * z \in Nat
        BY <3>1
      <4> QED
        BY <1>1, <4>1, <4>2
    <3>3. CASE j < Padded
      BY <1>1, <1>5, <1>7, <3>1, <3>3
    <3>4. CASE i < Padded /\ ~(j < Padded)
      BY <1>3, <3>2, <3>4
    <3>5. CASE ~(i < Padded) /\ ~(j < Padded)
      <4>1. i \div Radix = j \div Radix
        BY <1>5, <1>7, <3>5
      <4>2. i % Radix < j % Radix
        BY <1>1, <1>7, <3>2, <4>1
      <4> QED
        BY <1>3, <3>5, <4>2
    <3> QED
      BY <3>3, <3>4, <3>5
  <2>2. \A l \in 1 .. (Width + 1) - 1 : u[l] = v[l]
    BY <1>1, <1>2, <1>7
  <2>3. Width + 1 \in 1 .. Len(u) /\ Width + 1 <= Len(v)
    BY <1>1
  <2> QED
    BY <2>1, <2>2, <2>3 DEF Less, u, v
<1> QED
  BY <1>4, <1>6, <1>7

\* No two names are each before the other.
LEMMA LessOneWay ==
    ASSUME NEW i \in 0 .. Limit - 1, NEW j \in 0 .. Limit - 1,
           Less(Name(i), Name(j)), Less(Name(j), Name(i))
    PROVE  FALSE
<1> DEFINE u == Name(i)
           v == Name(j)
<1>1. /\ Len(u) \in Nat /\ \A k \in 1 .. Len(u) : u[k] \in Int
      /\ Len(v) \in Nat /\ \A k \in 1 .. Len(v) : v[k] \in Int
  BY NameIs
<1>2. PICK k \in 1 .. Len(u) : k <= Len(v) /\ u[k] < v[k] /\ \A l \in 1 .. k-1 : u[l] = v[l]
  BY DEF Less
<1>3. PICK m \in 1 .. Len(v) : m <= Len(u) /\ v[m] < u[m] /\ \A l \in 1 .. m-1 : v[l] = u[l]
  BY DEF Less
<1> HIDE DEF u, v
<1>4. k \in Nat /\ m \in Nat /\ u[k] \in Int /\ v[k] \in Int /\ u[m] \in Int /\ v[m] \in Int
  BY <1>1, <1>2, <1>3
<1>5. CASE k = m
  BY <1>2, <1>3, <1>4, <1>5
<1>6. CASE k < m
  <2>1. k \in 1 .. m-1
    BY <1>2, <1>4, <1>6
  <2> QED
    BY <1>2, <1>3, <1>4, <2>1
<1>7. CASE m < k
  <2>1. m \in 1 .. k-1
    BY <1>3, <1>4, <1>7
  <2> QED
    BY <1>2, <1>3, <1>4, <2>1
<1> QED
  BY <1>4, <1>5, <1>6, <1>7

\* So the two orders are the same.
LEMMA NamesAgree ==
    ASSUME NEW i \in 0 .. Limit - 1, NEW j \in 0 .. Limit - 1
    PROVE  NameBefore(i, j) <=> Less(Name(i), Name(j))
<1>1. i \in Nat /\ j \in Nat
  BY NameIs
<1>2. NameBefore(i, j) => Less(Name(i), Name(j))
  BY NamesFollow
<1>3. NameBefore(j, i) => Less(Name(j), Name(i))
  BY NamesFollow
<1>4. ~(Less(Name(i), Name(j)) /\ Less(Name(j), Name(i)))
  BY LessOneWay
<1>5. i = j => ~Less(Name(i), Name(j))
  BY LessOneWay
<1>6. i = j \/ NameBefore(i, j) \/ NameBefore(j, i)
  BY <1>1, NamesOrder
<1> QED
  BY <1>2, <1>3, <1>4, <1>5, <1>6

\* The listing has every file, each after the one whose name comes before.
LEMMA ListingSorted ==
    ASSUME NEW m \in 0 .. Limit - 1
    PROVE  /\ {ParquetOrder(m)[k] : k \in 1 .. m} = 0 .. m-1
           /\ \A k \in 1 .. m-1 : Less(Name(ParquetOrder(m)[k]), Name(ParquetOrder(m)[k + 1]))
<1> DEFINE order == ParquetOrder(m)
<1>1. m \in Nat /\ \A i \in 0 .. m-1 : i \in 0 .. Limit - 1 /\ i \in Nat
  <2>1. Limit \in Nat
    BY NamesAssumption DEF Limit
  <2> QED
    BY <2>1
<1>2. order \in [1 .. m -> 0 .. m-1]
  BY <1>1, OrderType
<1>3. \A k \in 1 .. m : Position(order[k], m) = k - 1
  BY <1>1, EveryPosition DEF ParquetOrder
<1> HIDE DEF order
<1>4. ASSUME NEW i \in 0 .. m-1 PROVE \E k \in 1 .. m : order[k] = i
  <2>1. PICK k \in 1 .. m : k = Position(i, m) + 1
    <3>1. Position(i, m) \in 0 .. m-1
      BY <1>1, PositionType
    <3> QED
      BY <1>1, <3>1
  <2>2. order[k] \in 0 .. m-1 /\ Position(order[k], m) = Position(i, m)
    <3>1. Position(i, m) \in 0 .. m-1
      BY <1>1, PositionType
    <3> QED
      BY <1>1, <1>2, <1>3, <2>1, <3>1
  <2>3. ~NameBefore(order[k], i) /\ ~NameBefore(i, order[k])
    BY <1>1, <2>2, PositionsDiffer
  <2>4. order[k] = i
    BY <1>1, <2>2, <2>3, NamesOrder
  <2> QED
    BY <2>4
<1>5. ASSUME NEW k \in 1 .. m-1 PROVE Less(Name(order[k]), Name(order[k + 1]))
  <2> DEFINE i == order[k]
             j == order[k + 1]
  <2>1. k \in 1 .. m /\ k + 1 \in 1 .. m /\ (k + 1) - 1 = k
    BY <1>1
  <2>2. i \in 0 .. m-1 /\ j \in 0 .. m-1 /\ Position(i, m) = k - 1 /\ Position(j, m) = k
    BY <1>2, <1>3, <2>1
  <2> HIDE DEF i, j
  <2>3. i # j
    BY <1>1, <2>2
  <2>4. ~NameBefore(j, i)
    <3> SUFFICES ASSUME NameBefore(j, i) PROVE FALSE
      OBVIOUS
    <3>1. Position(j, m) < Position(i, m)
      BY <1>1, <2>2, PositionsFollow
    <3> QED
      BY <1>1, <2>1, <2>2, <3>1
  <2>5. NameBefore(i, j)
    BY <1>1, <2>2, <2>3, <2>4, NamesOrder
  <2> QED
    BY <1>1, <2>2, <2>5, NamesFollow DEF i, j
<1>6. {order[k] : k \in 1 .. m} = 0 .. m-1
  BY <1>2, <1>4
<1> QED
  BY <1>5, <1>6 DEF order

---------------------------------------------------------------------------
(***************************************************************************)
(* Directories of any number of files up to the limit, and any other file. *)
(***************************************************************************)
Directories == NoFiles /\ [][AddFile \/ Compare]_directory

\* The numbers of the files are below the limit.
InLimit == n \in 0 .. Limit - 1 /\ other \in 0 .. Limit - 1

\* Both numbers stay below the limit.
LEMMA StaysInLimit == Directories => []InLimit
<1>1. Limit \in Nat \ {0}
  <2>1. \A x, y \in Nat : x > 0 /\ y > 0 => x * y \in Nat /\ x * y > 0
    OBVIOUS
  <2> QED
    BY <2>1, NamesAssumption DEF Limit
<1>2. NoFiles => InLimit
  BY <1>1 DEF NoFiles, InLimit
<1>3. InLimit /\ [AddFile \/ Compare]_directory => InLimit'
  BY <1>1 DEF InLimit, AddFile, Compare, directory
<1> QED
  BY <1>2, <1>3, PTL DEF Directories

(***************************************************************************)
(* BatchNames compares file numbers as their names compare as strings, for *)
(* every radix and every padding.                                          *)
(***************************************************************************)
THEOREM NumbersCompareAsNames == Directories => []NamesCompare
<1>1. InLimit => NamesCompare
  BY NamesAgree DEF InLimit, NamesCompare
<1> QED
  BY <1>1, StaysInLimit, PTL

(***************************************************************************)
(* parquet_paths lists every file of a directory, sorted by name.          *)
(***************************************************************************)
THEOREM ListedByName == Directories => []SortedByName
<1>1. InLimit => SortedByName
  BY ListingSorted DEF InLimit, SortedByName
<1> QED
  BY <1>1, StaysInLimit, PTL

---------------------------------------------------------------------------
(***************************************************************************)
(* The types a column can have, and the way of one column: the name its    *)
(* type is shown by is parsed as that type.                                *)
(***************************************************************************)
FieldTypes == {"Boolean", "Int8", "Int16", "Int32", "Int64", "Utf8"}

\* What is parsed is one of these or unsupported.
LEMMA ParsedTypes ==
    ASSUME NEW column
    PROVE  ParseColumnType(column) # Unsupported => ParseColumnType(column) \in FieldTypes
<1> DEFINE parsed == Parsed(column)
           type == CASE parsed \in {"BOOLEAN", "BOOL"}            -> "Boolean"
                     [] parsed = "TINYINT"                        -> "Int8"
                     [] parsed = "SMALLINT"                       -> "Int16"
                     [] parsed \in {"INT", "INTEGER"}             -> "Int32"
                     [] parsed = "BIGINT"                         -> "Int64"
                     [] parsed \in {"VARCHAR", "TEXT", "STRING"}  -> "Utf8"
                     [] OTHER                                     -> Unsupported
<1> HIDE DEF parsed
<1>1. type \in FieldTypes \cup {Unsupported}
  BY DEF FieldTypes
<1> QED
  BY <1>1 DEF ParseColumnType, parsed

\* The commitment gives back the type it was made with.
LEMMA CommittedBack ==
    ASSUME NEW type \in FieldTypes
    PROVE  DataTypeOf(CommittedTypes[type]) = type
<1>1. DOMAIN CommittedTypes = FieldTypes
  BY DEF CommittedTypes, FieldTypes
<1>2. /\ CommittedTypes["Boolean"] = "Boolean" /\ CommittedTypes["Int8"] = "TinyInt"
      /\ CommittedTypes["Int16"] = "SmallInt" /\ CommittedTypes["Int32"] = "Int"
      /\ CommittedTypes["Int64"] = "BigInt" /\ CommittedTypes["Utf8"] = "VarChar"
  BY DEF CommittedTypes
<1>3. \A other_type \in FieldTypes :
         CommittedTypes[other_type] = CommittedTypes[type] => other_type = type
  BY <1>2 DEF FieldTypes
<1> QED
  BY <1>1, <1>3 DEF DataTypeOf

\* And the type's name is parsed as the type.
LEMMA NamedBack ==
    ASSUME NEW type \in FieldTypes, NEW column,
           column.word = ColumnTypeName(type), column.tail = ""
    PROVE  ParseColumnType(column) = type /\ type # Unsupported
<1>1. /\ ColumnTypeName("Boolean") = "BOOLEAN" /\ ColumnTypeName("Int8") = "TINYINT"
      /\ ColumnTypeName("Int16") = "SMALLINT" /\ ColumnTypeName("Int32") = "INT"
      /\ ColumnTypeName("Int64") = "BIGINT" /\ ColumnTypeName("Utf8") = "VARCHAR"
  BY DEF ColumnTypeName
<1>2. Parsed(column) = column.word
  BY DEF Parsed
<1>3. CASE type = "Boolean"
  BY <1>1, <1>2, <1>3 DEF ParseColumnType, Unsupported
<1>4. CASE type = "Int8"
  BY <1>1, <1>2, <1>4 DEF ParseColumnType, Unsupported
<1>5. CASE type = "Int16"
  BY <1>1, <1>2, <1>5 DEF ParseColumnType, Unsupported
<1>6. CASE type = "Int32"
  BY <1>1, <1>2, <1>6 DEF ParseColumnType, Unsupported
<1>7. CASE type = "Int64"
  BY <1>1, <1>2, <1>7 DEF ParseColumnType, Unsupported
<1>8. CASE type = "Utf8"
  BY <1>1, <1>2, <1>8 DEF ParseColumnType, Unsupported
<1> QED
  BY <1>3, <1>4, <1>5, <1>6, <1>7, <1>8 DEF FieldTypes

\* So does a whole table.
LEMMA ShownFields ==
    ASSUME NEW body \in Seq(Column), Accepted(body)
    PROVE  Accepted(Show(body)) /\ Fields(Show(body)) = Fields(body)
<1> DEFINE D == DOMAIN body
           type(k) == ParseColumnType(body[k])
           shown == Show(body)
<1>1. \A k \in D : type(k) \in FieldTypes
  BY ParsedTypes DEF Accepted
<1>2. Fields(body) = [k \in D |-> [name |-> body[k].name, type |-> type(k)]]
  BY DEF Fields
<1> HIDE DEF D, type
<1>3. Metadata(Fields(body)) = [k \in D |-> [name |-> body[k].name, type |-> CommittedTypes[type(k)]]]
  BY <1>2 DEF Metadata
<1> DEFINE metadata == Metadata(Fields(body))
<1>8. shown = [k \in DOMAIN metadata |->
                  [name |-> metadata[k].name, tail |-> "",
                   word |-> ColumnTypeName(DataTypeOf(metadata[k].type))]]
  BY DEF Show
<1>9. /\ DOMAIN metadata = D
      /\ \A k \in D : /\ metadata[k].name = body[k].name
                       /\ metadata[k].type = CommittedTypes[type(k)]
  BY <1>3
<1> HIDE DEF metadata, shown
<1>4. /\ DOMAIN shown = D
      /\ \A k \in D : /\ shown[k].name = body[k].name /\ shown[k].tail = ""
                       /\ shown[k].word = ColumnTypeName(DataTypeOf(CommittedTypes[type(k)]))
  BY <1>8, <1>9
<1>5. ASSUME NEW k \in D
      PROVE  ParseColumnType(shown[k]) = type(k) /\ type(k) # Unsupported
  <2>1. shown[k].word = ColumnTypeName(type(k)) /\ shown[k].tail = ""
    BY <1>1, <1>4, CommittedBack
  <2> QED
    BY <1>1, <2>1, NamedBack
<1>6. Accepted(shown)
  BY <1>4, <1>5 DEF Accepted
<1>7. Fields(shown) = [k \in D |-> [name |-> body[k].name, type |-> type(k)]]
  <2>1. Fields(shown) = [k \in D |-> [name |-> shown[k].name, type |-> ParseColumnType(shown[k])]]
    BY <1>4 DEF Fields
  <2> QED
    BY <1>4, <1>5, <2>1
<1> QED
  BY <1>2, <1>6, <1>7 DEF shown

\* Bodies of any columns, up to the most.
Bodies == NoColumns /\ [][\E column \in Column : AddColumn(column)]_columns

(***************************************************************************)
(* A table can be made again from its own description, whatever its        *)
(* columns are called and however many there are.                          *)
(***************************************************************************)
THEOREM AlwaysRecreatable == Bodies => []Recreatable
<1> DEFINE Typed == columns \in Seq(Column)
<1>1. NoColumns => Typed
  BY DEF NoColumns
<1>2. Typed /\ [\E column \in Column : AddColumn(column)]_columns => Typed'
  BY DEF AddColumn
<1>3. Typed => Recreatable
  BY ShownFields DEF Recreatable
<1> HIDE DEF Typed
<1> QED
  BY <1>1, <1>2, <1>3, PTL DEF Bodies

---------------------------------------------------------------------------
(***************************************************************************)
(* Aggregates, for every field, number of rows and range of values: the    *)
(* totals stay within half the field on either side of zero, so the field  *)
(* element of each stands for it and for nothing else.                     *)
(*                                                                         *)
(* What m rows can add up to.                                              *)
(***************************************************************************)
Within(m) == -(m * Largest) .. m * Largest

(***************************************************************************)
(* Each sum is the field element of its total, and no total is larger than *)
(* the rows aggregated so far allow; an outcome says what it should.       *)
(***************************************************************************)
SumsStand ==
    \A c \in Columns, g \in Groups :
        /\ totals[c][g] \in Within(rows)
        /\ sums[c][g] = Embed(totals[c][g])

\* The invariant the theorems rest on.
Inv == TypeOK /\ SumsStand /\ AnsweredExactly /\ RefusedWhenTooLarge

---------------------------------------------------------------------------
\* The product that bounds the totals of m rows never exceeds half the field.
LEMMA BoundOfRows ==
    ASSUME NEW m \in 0 .. MaxRows
    PROVE  /\ m * Largest \in Nat
           /\ (m + 1) * Largest = m * Largest + Largest
           /\ m * Largest <= MaxRows * Largest
           /\ MaxRows * Largest \in Nat
<1>1. m \in Nat /\ MaxRows \in Nat /\ Largest \in Nat /\ m <= MaxRows
  BY FieldAssumption
<1>2. /\ m * Largest \in Nat
      /\ MaxRows * Largest \in Nat
      /\ (m + 1) * Largest = m * Largest + Largest
  BY <1>1
<1>3. (MaxRows - m) * Largest >= 0 /\ (MaxRows - m) * Largest = MaxRows * Largest - m * Largest
  BY <1>1
<1> QED
  BY <1>2, <1>3

\* A total that far from the ends of the field can be told from its element.
LEMMA Distinguished ==
    ASSUME NEW v \in Int, -(MaxRows * Largest) <= v, v <= MaxRows * Largest
    PROVE  Embed(v) \in Field /\ Convert(Embed(v)) = v
BY BoundOfRows, FieldAssumption DEF Embed, Convert, Field

\* The field's addition is the integers' as long as the sum is that small.
LEMMA AddsUp ==
    ASSUME NEW v \in Int, NEW w \in Int,
           -(MaxRows * Largest) <= v, v <= MaxRows * Largest,
           -(MaxRows * Largest) <= w, w <= MaxRows * Largest,
           -(MaxRows * Largest) <= v + w, v + w <= MaxRows * Largest
    PROVE  Plus(Embed(v), Embed(w)) = Embed(v + w)
BY BoundOfRows, FieldAssumption DEF Embed, Plus

\* Nothing is aggregated in the initial states.
LEMMA InitInv == Init => Inv
<1> SUFFICES ASSUME Init PROVE Inv
  OBVIOUS
<1>1. 0 \in 0 .. MaxRows /\ 0 \in Field /\ 0 \in Within(0) /\ Embed(0) = 0
  BY FieldAssumption DEF Field, Within, Embed
<1> QED
  BY <1>1 DEF Init, Inv, TypeOK, SumsStand, AnsweredExactly, RefusedWhenTooLarge

---------------------------------------------------------------------------
\* The proof sums the rows that were read.
LEMMA AggregateStep ==
    ASSUME Inv, NEW g \in Groups, NEW row \in [Columns -> Values], Aggregate(g, row)
    PROVE  Inv'
<1>1. rows \in 0 .. MaxRows /\ rows + 1 \in 0 .. MaxRows /\ rows' = rows + 1
  BY FieldAssumption DEF Inv, TypeOK, Aggregate
<1>2. 1 * Largest = Largest /\ 1 \in 0 .. MaxRows
  BY <1>1, FieldAssumption
<1>3. ASSUME NEW c \in Columns, NEW h \in Groups
      PROVE  /\ sums'[c][h] \in Field
             /\ totals'[c][h] \in Int
             /\ totals'[c][h] \in Within(rows + 1)
             /\ sums'[c][h] = Embed(totals'[c][h])
  <2> DEFINE v == totals[c][h]
  <2>1. /\ v \in Int /\ sums[c][h] = Embed(v)
        /\ -(rows * Largest) <= v /\ v <= rows * Largest
    BY BoundOfRows, <1>1 DEF Inv, TypeOK, SumsStand, Within
  <2>2. /\ row[c] \in Int /\ -Largest <= row[c] /\ row[c] <= Largest
    <3>1. row[c] \in Values /\ Largest \in Nat
      BY FieldAssumption
    <3>2. row[c] \in -Largest .. Largest
      BY <3>1, FieldAssumption
    <3> QED
      BY <3>1, <3>2
  <2>3. /\ rows * Largest <= MaxRows * Largest
        /\ rows * Largest \in Nat /\ MaxRows * Largest \in Nat
        /\ (rows + 1) * Largest = rows * Largest + Largest
        /\ (rows + 1) * Largest <= MaxRows * Largest
        /\ Largest <= MaxRows * Largest /\ Largest \in Nat
    BY BoundOfRows, <1>1, <1>2, FieldAssumption
  <2>4. /\ sums' = [d \in Columns |-> [sums[d] EXCEPT ![g] = Plus(@, Embed(row[d]))]]
        /\ totals' = [d \in Columns |-> [totals[d] EXCEPT ![g] = @ + row[d]]]
    BY DEF Aggregate
  <2>5. CASE h = g
    <3>1. sums'[c][h] = Plus(Embed(v), Embed(row[c])) /\ totals'[c][h] = v + row[c]
      BY <2>1, <2>4, <2>5 DEF Inv, TypeOK
    <3>2. v + row[c] \in Int /\ v + row[c] \in Within(rows + 1)
      BY <2>1, <2>2, <2>3 DEF Within
    <3>3. /\ Plus(Embed(v), Embed(row[c])) = Embed(v + row[c])
          /\ Embed(v + row[c]) \in Field
      <4> DEFINE w == row[c]
      <4>1. /\ v \in Int /\ w \in Int /\ v + w \in Int
            /\ -(MaxRows * Largest) <= v /\ v <= MaxRows * Largest
            /\ -(MaxRows * Largest) <= w /\ w <= MaxRows * Largest
            /\ -(MaxRows * Largest) <= v + w /\ v + w <= MaxRows * Largest
        BY <2>1, <2>2, <2>3 DEF Within
      <4> HIDE DEF v, w
      <4>2. Plus(Embed(v), Embed(w)) = Embed(v + w)
        BY <4>1, AddsUp
      <4>3. Embed(v + w) \in Field
        BY <4>1, Distinguished
      <4> QED
        BY <4>2, <4>3 DEF w
    <3> QED
      BY <3>1, <3>2, <3>3
  <2>6. CASE h # g
    <3>1. sums'[c][h] = sums[c][h] /\ totals'[c][h] = v
      BY <2>4, <2>6 DEF Inv, TypeOK
    <3>2. v \in Within(rows + 1)
      BY <2>1, <2>2, <2>3 DEF Within
    <3> QED
      BY <2>1, <3>1, <3>2 DEF Inv, TypeOK
  <2> QED
    BY <2>5, <2>6
<1>4. sums' \in [Columns -> [Groups -> Field]]
  BY <1>3 DEF Aggregate, Inv, TypeOK
<1>5. totals' \in [Columns -> [Groups -> Int]]
  BY <1>3 DEF Aggregate, Inv, TypeOK
<1>6. TypeOK'
  BY <1>1, <1>4, <1>5 DEF Aggregate, Inv, TypeOK
<1>7. outcome'.status = "None"
  BY DEF Aggregate
<1> QED
  BY <1>1, <1>3, <1>6, <1>7 DEF Inv, SumsStand, AnsweredExactly, RefusedWhenTooLarge

\* coerce_scalars answers a sum or refuses it.
LEMMA CoerceStep ==
    ASSUME Inv, CoerceScalars
    PROVE  Inv'
<1>1. \A c \in Columns, g \in Groups : Convert(sums[c][g]) = totals[c][g]
  <2> SUFFICES ASSUME NEW c \in Columns, NEW g \in Groups
               PROVE  Convert(sums[c][g]) = totals[c][g]
    OBVIOUS
  <2>1. rows \in 0 .. MaxRows /\ totals[c][g] \in Int
    BY DEF Inv, TypeOK
  <2>2. -(MaxRows * Largest) <= totals[c][g] /\ totals[c][g] <= MaxRows * Largest
    BY <2>1, BoundOfRows DEF Inv, SumsStand, Within
  <2> QED
    BY <2>1, <2>2, Distinguished DEF Inv, SumsStand
<1>2. UNCHANGED <<fields, sums, totals, rows>>
  BY DEF CoerceScalars
<1>3. SumsStand'
  BY <1>2 DEF Inv, SumsStand
<1>4. CASE /\ \A c \in Columns : Coercible(sums[c], fields[c])
           /\ outcome' = [status |-> "Ok",
                 table |-> [c \in Columns |-> [g \in Groups |-> Convert(sums[c][g])]]]
  <2>1. outcome'.status = "Ok" /\ TypeOK'
    BY <1>2, <1>4 DEF Inv, TypeOK
  <2>2. AnsweredExactly'
    BY <1>1, <1>2, <1>4 DEF AnsweredExactly, Coercible
  <2> QED
    BY <1>3, <2>1, <2>2 DEF Inv, RefusedWhenTooLarge
<1>5. CASE /\ \E c \in Columns : ~Coercible(sums[c], fields[c])
           /\ outcome' = [outcome EXCEPT !.status = "ScalarOverflow"]
  <2>1. outcome'.status \in {"None", "Ok", "ScalarOverflow"} /\ outcome'.status # "Ok"
    BY <1>5
  <2>2. TypeOK'
    BY <1>2, <2>1 DEF Inv, TypeOK
  <2>3. RefusedWhenTooLarge'
    BY <1>1, <1>2, <1>5 DEF RefusedWhenTooLarge, Coercible
  <2> QED
    BY <1>3, <2>1, <2>2, <2>3 DEF Inv, AnsweredExactly
<1> QED
  BY <1>4, <1>5 DEF CoerceScalars

(***************************************************************************)
(* The invariant holds in every reachable state of every aggregation.      *)
(***************************************************************************)
THEOREM Invariance == Spec => []Inv
<1>1. Inv /\ [Next]_vars => Inv'
  <2> SUFFICES ASSUME Inv, [Next]_vars PROVE Inv'
    OBVIOUS
  <2>1. ASSUME NEW g \in Groups, NEW row \in [Columns -> Values], Aggregate(g, row)
        PROVE  Inv'
    BY <2>1, AggregateStep
  <2>2. CASE CoerceScalars
    BY <2>2, CoerceStep
  <2>3. CASE UNCHANGED vars
    BY <2>3 DEF vars, Inv, TypeOK, SumsStand, AnsweredExactly, RefusedWhenTooLarge
  <2> QED
    BY <2>1, <2>2, <2>3 DEF Next
<1> QED
  BY InitInv, <1>1, PTL DEF Spec

(***************************************************************************)
(* An answered aggregate is the sum of its rows, for every field large     *)
(* enough for the rows, whatever the values, groups and types.             *)
(***************************************************************************)
THEOREM AnswersAreExact == Spec => []AnsweredExactly
<1>1. Inv => AnsweredExactly
  BY DEF Inv
<1> QED
  BY Invariance, <1>1, PTL

(***************************************************************************)
(* Only an aggregate that does not fit its column's type is refused.       *)
(***************************************************************************)
THEOREM RefusalsAreJustified == Spec => []RefusedWhenTooLarge
<1>1. Inv => RefusedWhenTooLarge
  BY DEF Inv
<1> QED
  BY Invariance, <1>1, PTL

(***************************************************************************)
(* Every reachable state of an aggregation is well typed: the sums stay    *)
(* elements of the field.                                                  *)
(***************************************************************************)
THEOREM TypeCorrect == Spec => []TypeOK
<1>1. Inv => TypeOK
  BY DEF Inv
<1> QED
  BY Invariance, <1>1, PTL
============================================================================
