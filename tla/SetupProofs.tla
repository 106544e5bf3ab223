---------------------------- MODULE SetupProofs ----------------------------
(***************************************************************************)
(* Proofs about SetupCache, for any processes, row counts, ceremony files, *)
(* word and point sizes and whatever setup.bin was at first.               *)
(***************************************************************************)
EXTENDS SetupCache, SequenceLemmas, TLAPS

---------------------------------------------------------------------------
\* The recursion that defines TwoTo has a solution, and TwoTo is one.
LEMMA TwoToDoubles ==
    TwoTo = [n \in Nat |-> IF n = 0 THEN 1 ELSE 2 * TwoTo[n-1]]
<1>1. \E f : f = [n \in Nat |-> IF n = 0 THEN 1 ELSE 2 * f[n-1]]
  BY PowersExist
<1> QED
  BY <1>1 DEF TwoTo

\* The powers of two, each twice the one before, and each more than its exponent.
LEMMA PowersOfTwo ==
    \A n \in Nat : /\ TwoTo[n] \in Nat
                   /\ TwoTo[n + 1] = 2 * TwoTo[n]
                   /\ n < TwoTo[n]
<1>1. TwoTo[0] = 1 /\ \A n \in Nat : TwoTo[n + 1] = 2 * TwoTo[n]
  <2>1. \A n \in Nat : TwoTo[n] = IF n = 0 THEN 1 ELSE 2 * TwoTo[n-1]
    BY TwoToDoubles
  <2>2. \A n \in Nat : n + 1 \in Nat /\ n + 1 # 0 /\ (n + 1) - 1 = n
    OBVIOUS
  <2> QED
    BY <2>1, <2>2
<1> DEFINE T == {n \in Nat : TwoTo[n] \in Nat /\ n < TwoTo[n]}
<1>2. 0 \in T
  BY <1>1
<1>3. \A n \in T : n + 1 \in T
  BY <1>1
<1> HIDE DEF T
<1>4. T = Nat
  <2>1. T \in SUBSET Nat
    BY DEF T
  <2> QED
    BY <1>2, <1>3, <2>1, Induction
<1> QED
  BY <1>1, <1>4 DEF T

\* Log2Up finds the least power of two that is large enough.
LEMMA Log2UpIs ==
    ASSUME NEW m \in Nat \ {0}
    PROVE  /\ Log2Up(m) \in 0 .. m
           /\ TwoTo[Log2Up(m)] >= m
           /\ Log2Up(m) = 0 \/ TwoTo[Log2Up(m)-1] < m
<1> DEFINE T == {n \in Nat : TwoTo[n] >= m}
<1>1. m \in T
  BY PowersOfTwo
<1>2. PICK n \in T : \A k \in T : n <= k
  <2>1. T \in SUBSET Nat /\ T # {}
    BY <1>1
  <2> HIDE DEF T
  <2> QED
    BY <2>1, LeastNumber
<1>3. n \in 0 .. m
  BY <1>1, <1>2
<1>4. n = 0 \/ TwoTo[n-1] < m
  <2> SUFFICES ASSUME n # 0 PROVE TwoTo[n-1] < m
    OBVIOUS
  <2>1. n - 1 \in Nat /\ n - 1 \notin T
    BY <1>2
  <2>2. TwoTo[n-1] \in Nat
    BY <2>1, PowersOfTwo
  <2> QED
    BY <2>1, <2>2
<1>5. \E k \in 0 .. m : TwoTo[k] >= m /\ (k = 0 \/ TwoTo[k-1] < m)
  BY <1>2, <1>3, <1>4
<1> QED
  BY <1>5 DEF Log2Up

\* So the powers a process asks for are enough for its rows.
LEMMA PowersEnough ==
    ASSUME NEW rows \in Nat
    PROVE  PowersFor(rows) \in Nat /\ PowersFor(rows) >= rows /\ PowersFor(rows) > 0
<1> DEFINE m == IF rows = 0 THEN 1 ELSE rows
<1>1. m \in Nat \ {0} /\ m >= rows
  OBVIOUS
<1> HIDE DEF m
<1>2. Log2Up(m) \in Nat /\ TwoTo[Log2Up(m)] >= m
  BY <1>1, Log2UpIs
<1>3. TwoTo[Log2Up(m)] \in Nat
  BY <1>2, PowersOfTwo
<1>4. PowersFor(rows) = TwoTo[Log2Up(m)]
  BY DEF PowersFor, m
<1> QED
  BY <1>1, <1>2, <1>3, <1>4

---------------------------------------------------------------------------
\* What the types of the arithmetic are.
LEMMA Wraps ==
    ASSUME NEW a \in Nat, NEW w \in Nat \ {0}
    PROVE  /\ a % w \in Nat /\ a \div w \in Nat
           /\ a < w => a % w = a
           /\ (a * w) \div w = a
OBVIOUS

\* Points and the bytes of a capacity that can be counted do not wrap.
LEMMA CapacityIs ==
    ASSUME NEW rows \in Nat
    PROVE  /\ CapacityFor(rows) \in Nat /\ PointsWanted(CapacityFor(rows)) \in Nat
           /\ Countable(rows) => /\ CapacityFor(rows) >= rows
                                 /\ PointsWanted(CapacityFor(rows)) >= rows
<1> DEFINE c == PowersFor(rows)
<1>1. c \in Nat /\ c >= rows
  BY PowersEnough
<1>2. PointBytes \in Nat \ {0} /\ Word \in Nat \ {0}
  BY SetupAssumption
<1> HIDE DEF c
<1>3. c % Word \in Nat
  BY <1>1, <1>2, Wraps
<1> DEFINE d == c % Word
<1>4. d \in Nat /\ CapacityFor(rows) = d
  BY <1>3 DEF CapacityFor, c
<1> HIDE DEF d
<1>5. d * PointBytes \in Nat
  BY <1>2, <1>4
<1>6. (d * PointBytes) % Word \in Nat
  BY <1>2, <1>5, Wraps
<1>7. ((d * PointBytes) % Word) \div PointBytes \in Nat
  BY <1>2, <1>6, Wraps
<1>8. PointsWanted(d) \in Nat
  BY <1>7 DEF PointsWanted
<1>9. ASSUME Countable(rows) PROVE d = c /\ PointsWanted(d) = c
  <2>1. c * PointBytes \in Nat /\ c * PointBytes < Word
    BY <1>1, <1>2, <1>9 DEF Countable, c
  <2>2. c <= c * PointBytes
    BY <1>1, <1>2
  <2>3. c < Word
    BY <1>1, <1>2, <2>1, <2>2
  <2>4. d = c
    BY <1>1, <1>2, <2>3, Wraps DEF d
  <2>5. (c * PointBytes) % Word = c * PointBytes
    BY <1>2, <2>1, Wraps
  <2>6. (c * PointBytes) \div PointBytes = c
    BY <1>1, <1>2, Wraps
  <2> QED
    BY <2>4, <2>5, <2>6 DEF PointsWanted
<1> QED
  BY <1>1, <1>4, <1>8, <1>9

---------------------------------------------------------------------------
(***************************************************************************)
(* The inductive invariant.  From the moment a process knows where its     *)
(* powers come from, it has enough of them; and what setup.bin is behind   *)
(* its writers.                                                            *)
(***************************************************************************)
Enough(k) ==
    k.pc \in {"open", "write", "ready", "exited"} /\ Countable(k.rows) => k.powers >= k.rows

\* The file is all powers, and no writer has gone past its end.
Whole ==
    /\ \A k \in 1 .. Len(cache.points) : cache.points[k]
    /\ \A q \in Procs : proc[q].pc = "write" => proc[q].written <= Len(cache.points)

\* r writes at least as far as the file and every other writer go, and the file is
\* all powers as far as r is.
Leads(r) ==
    /\ proc[r].pc = "write"
    /\ proc[r].written <= Len(cache.points)
    /\ Len(cache.points) <= proc[r].powers
    /\ \A k \in 1 .. proc[r].written : cache.points[k]
    /\ \A q \in Procs : proc[q].pc = "write" => proc[q].powers <= proc[r].powers

\* What the history of setup.bin says of it.
HistoryTells ==
    /\ made = "alone" => Whole
    /\ made = "shared" => (Whole \/ \E r \in Procs : Leads(r))

\* With the types.
Inv == TypeOK /\ HistoryTells /\ \A p \in Procs : Enough(proc[p])

\* A row count is a number.
LEMMA RowsNat == \A n \in RowCounts : n \in Nat
BY SetupAssumption

\* A process that is idle.
LEMMA IdleIs == Idle \in Proc /\ Enough(Idle) /\ Idle.written = 0 /\ Idle.powers = 0 /\ Idle.pc = "idle"
<1>1. <<>> \in Seq(BOOLEAN)
  BY EmptySeq
<1> QED
  BY <1>1 DEF Idle, Proc, Places, Enough

\* At the start.
LEMMA InitInv == Init => Inv
<1> SUFFICES ASSUME Init PROVE Inv
  OBVIOUS
<1>1. cache \in Cache /\ 0 \in 0 .. MaxStarts
  BY SetupAssumption DEF Init
<1>2. proc \in [Procs -> Proc] /\ \A p \in Procs : proc[p] = Idle
  BY IdleIs DEF Init
<1>3. TypeOK
  BY <1>1, <1>2, IdleIs DEF Init, TypeOK, Histories
<1>4. HistoryTells
  BY DEF Init, HistoryTells
<1>5. \A p \in Procs : Enough(proc[p])
  BY <1>2, IdleIs
<1> QED
  BY <1>3, <1>4, <1>5 DEF Inv

\* A process that goes to another place keeps its rows and powers.
LEMMA GoEffect ==
    ASSUME TypeOK, NEW p \in Procs, NEW place \in Places, Go(p, place)
    PROVE  /\ proc' \in [Procs -> Proc]
           /\ proc'[p].pc = place /\ proc'[p].rows = proc[p].rows
           /\ proc'[p].powers = proc[p].powers
           /\ proc'[p].written = 0
           /\ \A q \in Procs \ {p} : proc'[q] = proc[q]
<1>1. <<>> \in Seq(BOOLEAN)
  BY EmptySeq
<1> QED
  BY <1>1 DEF TypeOK, Go, Proc

\* It may take other powers with it.
LEMMA TakeEffect ==
    ASSUME TypeOK, NEW p \in Procs, NEW place \in Places, NEW n \in Nat, Take(p, place, n)
    PROVE  /\ proc' \in [Procs -> Proc]
           /\ proc'[p].pc = place /\ proc'[p].rows = proc[p].rows
           /\ proc'[p].powers = n
           /\ proc'[p].written = 0
           /\ \A q \in Procs \ {p} : proc'[q] = proc[q]
<1>1. <<>> \in Seq(BOOLEAN) /\ proc[p] \in Proc
  BY EmptySeq DEF TypeOK
<1> DEFINE k == [proc[p] EXCEPT !.pc = place, !.powers = n, !.written = 0, !.read = <<>>]
<1>2. k \in Proc /\ k.pc = place /\ k.rows = proc[p].rows /\ k.powers = n /\ k.written = 0
  BY <1>1 DEF Proc
<1>3. proc' = [proc EXCEPT ![p] = k]
  BY DEF Take
<1> HIDE DEF k
<1> QED
  BY <1>2, <1>3 DEF TypeOK

\* A step of p on which the invariant rests only on what p and the file become.
LEMMA StepInv ==
    ASSUME Inv, NEW p \in Procs,
           proc' \in [Procs -> Proc], \A q \in Procs \ {p} : proc'[q] = proc[q],
           proc'[p].written <= proc'[p].powers,
           proc'[p].pc # "write" => proc'[p].written = 0,
           Enough(proc'[p]),
           cache' \in Cache, made' \in Histories, HistoryTells',
           starts' \in 0 .. MaxStarts
    PROVE  Inv'
<1>1. TypeOK'
  BY DEF TypeOK, Inv
<1>2. \A q \in Procs : Enough(proc'[q])
  BY DEF Inv
<1>3. \A q \in Procs : Enough(proc[q])'
  BY <1>2 DEF Enough, Countable, PowersFor
<1> QED
  BY <1>1, <1>3 DEF Inv

(***************************************************************************)
(* A step of p that leaves the file alone, and after which p does not      *)
(* write, whether it did before or not.                                    *)
(***************************************************************************)
LEMMA QuietStep ==
    ASSUME Inv, NEW p \in Procs,
           proc' \in [Procs -> Proc], \A q \in Procs \ {p} : proc'[q] = proc[q],
           proc'[p].pc # "write", proc'[p].written = 0,
           Enough(proc'[p]),
           UNCHANGED cache,
           Stops(p) \/ (made' = made /\ proc[p].pc # "write"),
           starts' \in 0 .. MaxStarts
    PROVE  Inv'
<1>1. /\ TypeOK /\ HistoryTells
      /\ cache' \in Cache /\ made' \in Histories
      /\ proc'[p].written <= proc'[p].powers
  BY DEF Inv, TypeOK, Stops, Histories, Proc
<1>2. \A q \in Procs : proc'[q].pc = "write" => q # p /\ proc'[q] = proc[q]
  OBVIOUS
<1>3. Whole => Whole'
  BY <1>2 DEF Whole
<1>4. made' = made \/ made' = "spoilt"
  BY DEF Stops
<1>5. made' = "shared" => made = "shared" /\ proc[p].pc # "write"
  BY DEF Stops, Is
<1>6. ASSUME NEW r \in Procs, Leads(r), proc[p].pc # "write" PROVE Leads(r)'
  <2>1. r # p /\ proc'[r] = proc[r]
    BY <1>6 DEF Leads
  <2> QED
    BY <1>2, <1>6, <2>1 DEF Leads
<1>7. HistoryTells'
  BY <1>1, <1>3, <1>4, <1>5, <1>6 DEF HistoryTells
<1> QED
  BY <1>1, <1>7, StepInv

---------------------------------------------------------------------------
\* What a write of some points makes of a file.
LEMMA WrittenIs ==
    ASSUME NEW points \in Seq(BOOLEAN), NEW from \in Nat, NEW upTo \in Nat
    PROVE  /\ Written(points, from, upTo) \in Seq(BOOLEAN)
           /\ Len(Written(points, from, upTo)) =
                 IF upTo < Len(points) THEN Len(points) ELSE upTo
           /\ \A k \in 1 .. Len(Written(points, from, upTo)) :
                 Written(points, from, upTo)[k] =
                    (k \in from + 1 .. upTo \/ (k <= Len(points) /\ points[k]))
<1> DEFINE n == IF upTo < Len(points) THEN Len(points) ELSE upTo
<1>1. n \in Nat
  BY LenProperties
<1> HIDE DEF n
<1> DEFINE w == [k \in 1 .. n |-> k \in from + 1 .. upTo \/ (k <= Len(points) /\ points[k])]
<1>2. w \in [1 .. n -> BOOLEAN]
  OBVIOUS
<1>3. Written(points, from, upTo) = w
  BY DEF Written, n
<1>4. \A k \in 1 .. n : w[k] = (k \in from + 1 .. upTo \/ (k <= Len(points) /\ points[k]))
  OBVIOUS
<1> HIDE DEF w
<1>5. w \in Seq(BOOLEAN) /\ Len(w) = n
  BY <1>1, <1>2, IsASeq, LenProperties
<1> QED
  BY <1>3, <1>4, <1>5 DEF n

(***************************************************************************)
(* A write to a file that is whole leaves it whole, and one beside the     *)
(* writer that leads, or by it, leaves it leading until it is done.        *)
(***************************************************************************)
LEMMA WriteKeeps ==
    ASSUME Inv, NEW p \in Procs, proc[p].pc = "write",
           NEW upTo \in proc[p].written + 1 .. proc[p].powers,
           cache'.points = Written(cache.points, proc[p].written, upTo),
           \A q \in Procs \ {p} : proc'[q] = proc[q],
           proc'[p].pc = "write" => /\ upTo < proc[p].powers
                                    /\ proc'[p].written = upTo
                                    /\ proc'[p].powers = proc[p].powers,
           upTo < proc[p].powers => proc'[p].pc = "write",
           made' = made
    PROVE  HistoryTells'
<1> DEFINE from == proc[p].written
           n == Len(cache.points)
           len == Len(cache'.points)
<1>1. /\ cache.points \in Seq(BOOLEAN) /\ n \in Nat
      /\ \A q \in Procs : /\ proc[q].written \in Nat /\ proc[q].powers \in Nat
                          /\ proc[q].written <= proc[q].powers
      /\ HistoryTells
  BY LenProperties DEF Inv, TypeOK, Cache, Proc
<1>2. from \in Nat /\ upTo \in Nat /\ from < upTo /\ upTo <= proc[p].powers
  BY <1>1
<1>3. /\ len = IF upTo < n THEN n ELSE upTo
      /\ \A k \in 1 .. len : cache'.points[k] =
            (k \in from + 1 .. upTo \/ (k <= n /\ cache.points[k]))
  BY <1>1, <1>2, WrittenIs
<1> HIDE DEF from, n, len
<1>4. \A q \in Procs : proc'[q].pc = "write" => proc[q].pc = "write"
  OBVIOUS
<1>5. ASSUME Whole PROVE Whole'
  <2>1. from <= n /\ \A k \in 1 .. n : cache.points[k]
    BY <1>5 DEF Whole, from, n
  <2>2. ASSUME NEW k \in 1 .. len PROVE cache'.points[k]
    <3>1. k \in from + 1 .. upTo \/ k \in 1 .. n
      BY <1>1, <1>2, <1>3, <2>1
    <3>2. k \in from + 1 .. upTo \/ (k <= n /\ cache.points[k])
      BY <1>1, <2>1, <3>1
    <3> QED
      BY <1>3, <3>2
  <2>3. ASSUME NEW q \in Procs, proc'[q].pc = "write" PROVE proc'[q].written <= len
    <3>1. CASE q = p
      BY <1>1, <1>2, <1>3, <2>3, <3>1
    <3>2. CASE q # p
      <4>1. proc[q].written <= n /\ proc'[q] = proc[q]
        BY <1>4, <1>5, <2>3, <3>2 DEF Whole, n
      <4> QED
        BY <4>1, <1>1, <1>2, <1>3
    <3> QED
      BY <3>1, <3>2
  <2> QED
    BY <2>2, <2>3 DEF Whole, len
<1>6. ASSUME NEW r \in Procs, Leads(r) PROVE Whole' \/ Leads(r)'
  <2>1. /\ proc[r].pc = "write" /\ proc[r].written <= n /\ n <= proc[r].powers
        /\ \A k \in 1 .. proc[r].written : cache.points[k]
        /\ \A q \in Procs : proc[q].pc = "write" => proc[q].powers <= proc[r].powers
    BY <1>6 DEF Leads, n
  <2>2. len \in Nat /\ n <= len /\ upTo <= len /\ len <= proc[r].powers
    BY <1>1, <1>2, <1>3, <2>1
  <2>3. ASSUME NEW k \in 1 .. proc[r].written PROVE k \in 1 .. len /\ cache'.points[k]
    <3>1. k \in 1 .. len /\ k <= n /\ cache.points[k]
      BY <1>1, <2>1, <2>2
    <3> QED
      BY <1>3, <3>1
  <2>4. CASE r # p
    <3>1. proc'[r] = proc[r]
      BY <2>4
    <3>2. ASSUME NEW q \in Procs, proc'[q].pc = "write" PROVE proc'[q].powers <= proc[r].powers
      BY <1>4, <2>1, <3>2
    <3>3. proc[r].written <= len
      BY <1>1, <2>1, <2>2
    <3> QED
      BY <2>1, <2>2, <2>3, <3>1, <3>2, <3>3 DEF Leads, len
  <2>5. CASE r = p
    <3>1. ASSUME NEW k \in 1 .. upTo PROVE cache'.points[k]
      <4>1. k \in 1 .. from \/ k \in from + 1 .. upTo
        BY <1>2
      <4>2. k \in 1 .. len
        BY <1>2, <2>2
      <4> QED
        BY <4>1, <4>2, <1>3, <2>3, <2>5 DEF from
    <3>2. CASE upTo < proc[p].powers
      <4>1. /\ proc'[p].pc = "write" /\ proc'[p].written = upTo
            /\ proc'[p].powers = proc[p].powers
        BY <3>2
      <4>2. ASSUME NEW q \in Procs, proc'[q].pc = "write" PROVE proc'[q].powers <= proc[p].powers
        BY <1>4, <2>1, <2>5, <4>1, <4>2
      <4> QED
        BY <2>2, <2>5, <3>1, <4>1, <4>2 DEF Leads, len
    <3>3. CASE upTo = proc[p].powers
      <4>1. len = upTo
        BY <1>2, <2>2, <2>5, <3>3
      <4>2. ASSUME NEW q \in Procs, proc'[q].pc = "write" PROVE proc'[q].written <= len
        <5>1. q # p /\ proc'[q] = proc[q] /\ proc[q].powers <= proc[p].powers
          BY <2>1, <2>5, <3>3, <4>2, <1>2
        <5> QED
          BY <1>1, <1>2, <3>3, <4>1, <5>1
      <4> QED
        BY <3>1, <4>1, <4>2 DEF Whole, len
    <3> QED
      BY <1>1, <1>2, <3>2, <3>3
  <2> QED
    BY <2>4, <2>5
<1> QED
  BY <1>1, <1>5, <1>6 DEF HistoryTells

\* Opening the file begins a history.
LEMMA OpenKeeps ==
    ASSUME Inv, NEW p \in Procs,
           cache'.points = <<>>, MadeBy(p),
           \A q \in Procs \ {p} : proc'[q] = proc[q],
           proc'[p].pc = "write", proc'[p].written = 0, proc'[p].powers = proc[p].powers
    PROVE  HistoryTells'
<1>1. Len(cache'.points) = 0 /\ 1 .. Len(cache'.points) = {} /\ 1 .. proc'[p].written = {}
  BY EmptySeq
<1>2. \A q \in Procs : proc[q].powers \in Nat
  BY DEF Inv, TypeOK, Proc
<1>3. ASSUME Beside(p) = {} PROVE Whole'
  <2>1. \A q \in Procs \ {p} : proc'[q].pc # "write"
    BY <1>3 DEF Beside, Is
  <2> QED
    BY <1>1, <2>1 DEF Whole
<1>4. ASSUME \A q \in Beside(p) : proc[q].powers <= proc[p].powers PROVE Leads(p)'
  <2>1. ASSUME NEW q \in Procs, proc'[q].pc = "write" PROVE proc'[q].powers <= proc'[p].powers
    BY <1>2, <1>4, <2>1 DEF Beside, Is
  <2> QED
    BY <1>1, <1>2, <2>1 DEF Leads
<1> QED
  BY <1>3, <1>4 DEF MadeBy, HistoryTells

---------------------------------------------------------------------------
\* Each action keeps the invariant.
LEMMA NextInv == Inv /\ [Next]_vars => Inv'
<1> SUFFICES ASSUME Inv, [Next]_vars PROVE Inv'
  OBVIOUS
<1>1. /\ TypeOK /\ HistoryTells /\ \A p \in Procs : Enough(proc[p])
      /\ cache \in Cache /\ cache.points \in Seq(BOOLEAN)
      /\ made \in Histories
      /\ starts \in 0 .. MaxStarts
  BY DEF Inv, TypeOK, Cache
<1>2. ASSUME NEW p \in Procs
      PROVE  /\ proc[p] \in Proc /\ proc[p].rows \in Nat /\ proc[p].powers \in Nat
             /\ proc[p].written \in Nat /\ proc[p].read \in Seq(BOOLEAN)
             /\ proc[p].written <= proc[p].powers
             /\ proc[p].pc # "write" => proc[p].written = 0
  <2>1. proc[p] \in Proc /\ proc[p].written <= proc[p].powers
        /\ (proc[p].pc # "write" => proc[p].written = 0)
    BY <1>1 DEF TypeOK
  <2>2. /\ proc[p].rows \in RowCounts \cup {0} /\ proc[p].powers \in Nat
        /\ proc[p].written \in Nat /\ proc[p].read \in Seq(BOOLEAN)
    BY <2>1 DEF Proc
  <2>3. proc[p].rows \in Nat
    BY <2>2, RowsNat
  <2> QED
    BY <2>1, <2>2, <2>3
<1>3. ASSUME NEW p \in Procs, NEW serve \in BOOLEAN, NEW rows \in RowCounts,
             Start(p, serve, rows)
      PROVE  Inv'
  <2> DEFINE k == [Idle EXCEPT !.pc = IF serve THEN "look" ELSE "fetch",
                               !.serve = serve, !.rows = rows]
  <2>1. k \in Proc /\ k.pc \in {"look", "fetch"} /\ k.written = 0
    BY IdleIs DEF Proc, Places, Idle
  <2>2. proc' = [proc EXCEPT ![p] = k] /\ proc[p].pc = "idle"
    BY <1>3 DEF Start, Is
  <2> HIDE DEF k
  <2>3. proc' \in [Procs -> Proc] /\ proc'[p] = k /\ \A q \in Procs \ {p} : proc'[q] = proc[q]
    BY <1>1, <2>1, <2>2 DEF TypeOK
  <2>4. Enough(proc'[p])
    BY <2>1, <2>3 DEF Enough
  <2>5. starts' \in 0 .. MaxStarts /\ UNCHANGED <<cache, made>>
    BY <1>1, <1>3, SetupAssumption DEF Start
  <2> QED
    BY <2>1, <2>2, <2>3, <2>4, <2>5, QuietStep
<1>4. ASSUME NEW p \in Procs, NEW place \in {"read", "fetch", "failed"}, Go(p, place),
             UNCHANGED <<cache, starts>>,
             Stops(p) \/ (made' = made /\ proc[p].pc # "write")
      PROVE  Inv'
  <2>1. /\ proc' \in [Procs -> Proc] /\ proc'[p].pc = place /\ proc'[p].written = 0
        /\ \A q \in Procs \ {p} : proc'[q] = proc[q]
    BY <1>1, <1>4, GoEffect DEF Places
  <2>2. Enough(proc'[p]) /\ proc'[p].pc # "write"
    BY <2>1 DEF Enough
  <2> QED
    BY <1>1, <1>4, <2>1, <2>2, QuietStep
<1>5. ASSUME NEW p \in Procs, Look(p) PROVE Inv'
  BY <1>4, <1>5 DEF Look, Is
<1>6. ASSUME NEW p \in Procs, NEW place \in {"open", "ready"}, NEW n \in Nat,
             Take(p, place, n), proc[p].pc # "write",
             Countable(proc[p].rows) => n >= proc[p].rows,
             UNCHANGED <<cache, made, starts>>
      PROVE  Inv'
  <2>1. /\ proc' \in [Procs -> Proc] /\ proc'[p].rows = proc[p].rows
        /\ proc'[p].powers = n /\ proc'[p].pc = place /\ proc'[p].written = 0
        /\ \A q \in Procs \ {p} : proc'[q] = proc[q]
    BY <1>1, <1>6, TakeEffect DEF Places
  <2>2. Enough(proc'[p]) /\ proc'[p].pc # "write"
    BY <1>6, <2>1 DEF Enough
  <2> QED
    BY <1>1, <1>6, <2>1, <2>2, QuietStep
<1>7. ASSUME NEW p \in Procs, ReadCache(p) PROVE Inv'
  <2> DEFINE wanted == PointsWanted(Capacity(p))
  <2>1. wanted \in Nat /\ (Countable(proc[p].rows) => wanted >= proc[p].rows)
    BY <1>2, CapacityIs DEF Capacity
  <2> HIDE DEF wanted
  <2>2. /\ UNCHANGED <<cache, made, starts>> /\ proc[p].pc = "read"
        /\ \/ Go(p, "fetch") \/ Go(p, "failed") \/ Take(p, "ready", wanted)
    BY <1>7 DEF ReadCache, wanted, Is
  <2> QED
    BY <1>4, <1>6, <2>1, <2>2
<1>8. ASSUME NEW p \in Procs, Fetch(p) PROVE Inv'
  <2>1. Capacity(p) \in Nat /\ (Countable(proc[p].rows) => Capacity(p) >= proc[p].rows)
    BY <1>2, CapacityIs DEF Capacity
  <2>2. /\ UNCHANGED <<cache, made, starts>> /\ proc[p].pc = "fetch"
        /\ \/ Go(p, "failed") \/ Take(p, "open", Capacity(p))
    BY <1>8 DEF Fetch, Is
  <2> QED
    BY <1>4, <1>6, <2>1, <2>2
<1>9. ASSUME NEW p \in Procs, ReadPoints(p) PROVE Inv'
  <2>1. PICK upTo \in Len(proc[p].read) + 1 .. Len(cache.points) :
           proc' = [proc EXCEPT ![p].read =
                       proc[p].read \o SubSeq(cache.points, Len(proc[p].read) + 1, upTo)]
    BY <1>9 DEF ReadPoints
  <2> DEFINE more == proc[p].read \o SubSeq(cache.points, Len(proc[p].read) + 1, upTo)
  <2>2. more \in Seq(BOOLEAN)
    <3>1. Len(proc[p].read) \in Nat /\ Len(cache.points) \in Nat
      BY <1>1, <1>2, LenProperties
    <3>2. SubSeq(cache.points, Len(proc[p].read) + 1, upTo) \in Seq(BOOLEAN)
      BY <1>1, <3>1, SubSeqProperties
    <3> QED
      BY <1>2, <3>2, ConcatProperties
  <2>3. /\ proc' = [proc EXCEPT ![p].read = more]
        /\ UNCHANGED <<cache, made, starts>> /\ proc[p].pc = "read"
    BY <1>9, <2>1 DEF ReadPoints, Is
  <2> HIDE DEF more
  <2>4. /\ proc' \in [Procs -> Proc] /\ \A q \in Procs \ {p} : proc'[q] = proc[q]
        /\ proc'[p].pc = "read" /\ proc'[p].written = proc[p].written
    BY <1>1, <2>2, <2>3 DEF TypeOK, Proc
  <2>5. proc'[p].pc # "write" /\ proc'[p].written = 0 /\ Enough(proc'[p])
    BY <1>2, <2>3, <2>4 DEF Enough
  <2> QED
    BY <1>1, <2>3, <2>4, <2>5, QuietStep
<1>10. ASSUME NEW p \in Procs, OpenCache(p) PROVE Inv'
  <2>1. /\ cache' = [exists |-> TRUE, points |-> <<>>] /\ MadeBy(p)
        /\ Go(p, "write") /\ UNCHANGED starts /\ proc[p].pc = "open"
    BY <1>10 DEF OpenCache, Is
  <2>2. cache' \in Cache /\ cache'.points = <<>>
    BY <2>1, EmptySeq DEF Cache
  <2>3. /\ proc' \in [Procs -> Proc] /\ proc'[p].pc = "write" /\ proc'[p].written = 0
        /\ proc'[p].rows = proc[p].rows /\ proc'[p].powers = proc[p].powers
        /\ \A q \in Procs \ {p} : proc'[q] = proc[q]
    BY <1>1, <2>1, GoEffect DEF Places
  <2>4. Enough(proc'[p])
    BY <1>1, <2>1, <2>3 DEF Enough
  <2>5. HistoryTells' /\ made' \in Histories
    BY <2>1, <2>2, <2>3, OpenKeeps DEF MadeBy, Histories
  <2> QED
    BY <1>1, <1>2, <2>1, <2>2, <2>3, <2>4, <2>5, StepInv
<1>11. ASSUME NEW p \in Procs, WriteCache(p) PROVE Inv'
  <2>1. PICK upTo \in proc[p].written + 1 .. proc[p].powers :
           /\ cache' = [cache EXCEPT !.points = Written(cache.points, proc[p].written, upTo)]
           /\ IF upTo < proc[p].powers
              THEN proc' = [proc EXCEPT ![p].written = upTo]
              ELSE Go(p, IF proc[p].serve THEN "ready" ELSE "exited")
    BY <1>11 DEF WriteCache
  <2>2. proc[p].pc = "write" /\ UNCHANGED <<made, starts>>
    BY <1>11 DEF WriteCache, Is
  <2>3. upTo \in Nat /\ upTo <= proc[p].powers
    BY <1>2
  <2>4. cache'.points = Written(cache.points, proc[p].written, upTo) /\ cache' \in Cache
    <3>1. Written(cache.points, proc[p].written, upTo) \in Seq(BOOLEAN)
      BY <1>1, <1>2, <2>3, WrittenIs
    <3> QED
      BY <1>1, <2>1, <3>1 DEF Cache
  <2>5. CASE upTo < proc[p].powers
    <3>1. proc' = [proc EXCEPT ![p].written = upTo]
      BY <2>1, <2>5
    <3>2. /\ proc' \in [Procs -> Proc] /\ \A q \in Procs \ {p} : proc'[q] = proc[q]
          /\ proc'[p].pc = "write" /\ proc'[p].written = upTo
          /\ proc'[p].rows = proc[p].rows /\ proc'[p].powers = proc[p].powers
      BY <1>1, <2>2, <2>3, <3>1 DEF TypeOK, Proc
    <3>3. Enough(proc'[p])
      BY <1>1, <2>2, <3>2 DEF Enough
    <3>4. HistoryTells'
      BY <2>2, <2>4, <2>5, <3>2, WriteKeeps
    <3> QED
      BY <1>1, <2>2, <2>3, <2>4, <3>2, <3>3, <3>4, StepInv
  <2>6. CASE ~(upTo < proc[p].powers)
    <3>1. PICK place \in {"ready", "exited"} : Go(p, place)
      BY <2>1, <2>6
    <3>2. /\ proc' \in [Procs -> Proc] /\ proc'[p].pc = place /\ proc'[p].written = 0
          /\ proc'[p].rows = proc[p].rows /\ proc'[p].powers = proc[p].powers
          /\ \A q \in Procs \ {p} : proc'[q] = proc[q]
      BY <1>1, <3>1, GoEffect DEF Places
    <3>3. Enough(proc'[p])
      BY <1>1, <2>2, <3>2 DEF Enough
    <3>4. HistoryTells'
      BY <2>2, <2>4, <2>6, <3>2, WriteKeeps
    <3> QED
      BY <1>1, <1>2, <2>2, <2>4, <3>2, <3>3, <3>4, StepInv
  <2> QED
    BY <2>5, <2>6
<1>12. ASSUME NEW p \in Procs, WriteError(p) PROVE Inv'
  BY <1>4, <1>12 DEF WriteError
<1>13. ASSUME NEW p \in Procs, Kill(p) PROVE Inv'
  <2>1. Stops(p) /\ proc' = [proc EXCEPT ![p] = Idle] /\ UNCHANGED <<cache, starts>>
    BY <1>13 DEF Kill
  <2>2. proc' \in [Procs -> Proc] /\ proc'[p] = Idle /\ \A q \in Procs \ {p} : proc'[q] = proc[q]
    BY <1>1, <2>1, IdleIs DEF TypeOK
  <2>3. proc'[p].pc # "write" /\ proc'[p].written = 0 /\ Enough(proc'[p])
    BY <2>2, IdleIs
  <2> QED
    BY <1>1, <2>1, <2>2, <2>3, QuietStep
<1>14. CASE UNCHANGED vars
  <2>1. UNCHANGED <<cache, proc, made, starts>>
    BY <1>14 DEF vars
  <2>2. TypeOK' /\ HistoryTells'
    BY <1>1, <2>1 DEF TypeOK, HistoryTells, Whole, Leads
  <2>3. \A p \in Procs : Enough(proc[p])'
    BY <1>1, <2>1 DEF Enough, Countable, PowersFor
  <2> QED
    BY <2>2, <2>3 DEF Inv
<1> QED
  BY <1>3, <1>5, <1>7, <1>8, <1>9, <1>10, <1>11, <1>12, <1>13, <1>14 DEF Next

\* The invariant holds throughout.
THEOREM Invariance == Spec => []Inv
BY InitInv, NextInv, PTL DEF Spec

(***************************************************************************)
(* The file and the processes stay within their types.                     *)
(***************************************************************************)
THEOREM TypeCorrect == Spec => []TypeOK
BY Invariance, PTL DEF Inv

(***************************************************************************)
(* A setup.bin truncated while nobody was writing it is made of powers of  *)
(* tau throughout, wherever its writer is killed; the gaps of one that was *)
(* truncated beside writers of no more points are ahead of a process that  *)
(* still writes, as long as none of them stops.                            *)
(***************************************************************************)
THEOREM OwnCacheStaysGood == Spec => []OwnCacheIsGood
<1>1. Inv => OwnCacheIsGood
  <2> SUFFICES ASSUME Inv, NEW k \in 1 .. Len(cache.points)
               PROVE  /\ made = "alone" => cache.points[k]
                      /\ made = "shared" =>
                            \/ cache.points[k]
                            \/ \E p \in Procs : /\ Is(p, "write")
                                                /\ k \in proc[p].written + 1 .. proc[p].powers
    BY DEF OwnCacheIsGood
  <2>1. Whole => cache.points[k]
    BY DEF Whole
  <2>2. ASSUME NEW r \in Procs, Leads(r)
        PROVE  cache.points[k] \/ (Is(r, "write") /\ k \in proc[r].written + 1 .. proc[r].powers)
    <3>1. /\ proc[r].written \in Nat /\ proc[r].powers \in Nat /\ Len(cache.points) \in Nat
      BY LenProperties DEF Inv, TypeOK, Proc, Cache
    <3>2. k \in 1 .. proc[r].written \/ k \in proc[r].written + 1 .. proc[r].powers
      BY <2>2, <3>1 DEF Leads
    <3> QED
      BY <2>2, <3>2 DEF Leads, Is
  <2> QED
    BY <2>1, <2>2 DEF Inv, HistoryTells
<1> QED
  BY <1>1, Invariance, PTL

(***************************************************************************)
(* A process that serves, or has written a setup, has powers for the rows  *)
(* it was asked for, from the file or fetched, if they can be counted in   *)
(* bytes.                                                                  *)
(***************************************************************************)
THEOREM RowsAreCovered == Spec => []CoversRows
<1>1. Inv => CoversRows
  BY DEF Inv, Enough, CoversRows
<1> QED
  BY <1>1, Invariance, PTL
============================================================================
