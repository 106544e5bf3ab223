---------------------------- MODULE LedgerProofs ----------------------------
(***************************************************************************)
(* The proof that Db implements Ledger, for any tables, callers, batches,  *)
(* faults and numbers of files.  ViewIs gives the view of a table by what  *)
(* is on disk, when no call is changing the table and when one is.  With   *)
(* it, every step of a call but its last leaves the view of each table as  *)
(* it is, and the last is one of the ledger's four.                        *)
(***************************************************************************)
EXTENDS DbProofs, DbLedger

---------------------------------------------------------------------------
(***************************************************************************)
(* What the invariant of DbProofs does not say of a call: create_table's   *)
(* batch is empty and its table has no commitment, and insert's table has  *)
(* one until insert truncates it.                                          *)
(***************************************************************************)
Kind(c) ==
    LET k == call[c]
        d == disk[k.t]
    IN  /\ k.n = 0 => k.file.batch = <<>> /\ ~Readable(d)
        /\ k.n # 0 => /\ k.pc # "mkdir"
                      /\ k.pc \in {"open", "write", "extend"} => Readable(d)

\* It is so of every call that runs.
Kinds == \A c \in Callers : Running(c) => Kind(c)

\* None runs at the start.
LEMMA KindsInit == Init => Kinds
BY DEF Init, Kinds, Running, Returned

\* A call keeps what it began with, and only the last steps touch the commitment.
LEMMA KindsStep ==
    ASSUME TypeOK, Inv, Kinds, [Next]_vars
    PROVE  Kinds'
<1> SUFFICES ASSUME NEW c \in Callers, Running(c)' PROVE Kind(c)'
  BY DEF Kinds
<1>1. ASSUME call'[c] = call[c], UNCHANGED disk PROVE Kind(c)'
  BY <1>1 DEF Kinds, Kind, Running
<1>2. ASSUME NEW e \in Callers, NEW t \in Tables, NEW s \in Schemas, Quiet,
             CreateTable(e, t, s) \/ \E b \in Batches : Insert(e, t, s, b)
      PROVE  Kind(c)'
  <2>1. UNCHANGED disk /\ \A f \in Callers \ {e} : call'[f] = call[f]
    BY <1>2, CreateBegins, InsertBegins
  <2>2. CASE c # e
    BY <1>1, <2>1, <2>2
  <2>3. CASE c = e /\ CreateTable(e, t, s)
    <3>1. /\ ~disk[t].dir
          /\ call'[c] = [pc |-> "mkdir", t |-> t, file |-> [schema |-> s, batch |-> <<>>],
                         n |-> 0, commitment |-> <<>>]
      BY <2>3, CreateBegins DEF CreateTable, Begin, Return, Returned, Running, TypeOK
    <3>2. disk[t] = NoDir
      BY <3>1 DEF Inv, NothingWithoutDir
    <3> QED
      BY <2>1, <3>1, <3>2 DEF Kind, Readable, NoDir
  <2>4. ASSUME c = e, NEW b \in Batches, Insert(e, t, s, b) PROVE Kind(c)'
    <3>1. /\ InsertError(disk[t], s) = "Ok"
          /\ call'[c] = [pc |-> "open", t |-> t, file |-> [schema |-> s, batch |-> b],
                         n |-> Len(disk[t].files), commitment |-> disk[t].commit]
      BY <2>4 DEF Insert, Begin, Return, Returned, Running, TypeOK
    <3>2. disk[t].files # <<>> /\ Readable(disk[t])
      BY <3>1 DEF InsertError, SchemaError, CommitmentError, Readable
    <3>3. Len(disk[t].files) # 0
      BY <3>2, DirFields, EmptySeq, LenProperties
    <3> QED
      BY <2>1, <3>1, <3>2, <3>3 DEF Kind
  <2> QED
    BY <1>2, <2>2, <2>3, <2>4
<1>3. ASSUME NEW e \in Callers, Write(e) \/ FileError(e) PROVE Kind(c)'
  <2>1. Running(e) /\ \A f \in Callers \ {e} : call'[f] = call[f]
    BY <1>3, CallGoesOn
  <2>2. c = e
    <3>1. c # e => Running(c)
      BY <2>1 DEF Running
    <3> QED
      BY <2>1, <3>1 DEF Inv, Exclusive
  <2>3. /\ call[c] \in [pc: Steps, t: Tables, file: WholeFile, n: Nat, commitment: Seq(Batches)]
        /\ Kind(c) /\ StillTrue(c) /\ call[c].t \in Tables /\ call[c].n \in Nat
    BY <2>1, <2>2, CallFields, BeforeStep DEF Kinds
  <2>4. CASE MakeDir(c)
    <3>1. /\ call'[c] = [call[c] EXCEPT !.pc = "open"] /\ call[c].pc = "mkdir"
          /\ disk'[call[c].t].commit = disk[call[c].t].commit
      BY <2>3, <2>4 DEF MakeDir, Advance, TypeOK, TableDir
    <3>2. call'[c].t = call[c].t /\ call'[c].n = call[c].n /\ call'[c].file = call[c].file
      BY <2>3, <3>1
    <3> QED
      BY <2>3, <3>1, <3>2 DEF Kind, Readable
  <2>5. CASE OpenBatch(c) \/ WriteBatch(c)
    <3>1. /\ \E step \in {"write", "extend"} : call'[c] = [call[c] EXCEPT !.pc = step]
          /\ call[c].pc \in {"open", "write"}
          /\ disk'[call[c].t].commit = disk[call[c].t].commit
      <4>1. CASE OpenBatch(c)
        BY <2>3, <4>1 DEF OpenBatch, Advance, TypeOK, TableDir
      <4>2. CASE WriteBatch(c)
        BY <2>3, <4>2 DEF WriteBatch, Advance, TypeOK, TableDir
      <4> QED
        BY <2>5, <4>1, <4>2
    <3>2. /\ call'[c].t = call[c].t /\ call'[c].n = call[c].n /\ call'[c].file = call[c].file
          /\ call'[c].pc \in {"write", "extend"}
      BY <2>3, <3>1
    <3> QED
      BY <2>3, <3>1, <3>2 DEF Kind, Readable
  <2>6. CASE ExtendCommitment(c)
    <3>1. /\ call'[c] = [call[c] EXCEPT !.pc = "store",
                                        !.commitment = Append(@, call[c].file.batch)]
          /\ disk'[call[c].t].commit = Torn
      BY <2>3, <2>6 DEF ExtendCommitment, TypeOK, TableDir
    <3>2. /\ call'[c].t = call[c].t /\ call'[c].n = call[c].n /\ call'[c].file = call[c].file
          /\ call'[c].pc = "store"
      BY <2>3, <3>1
    <3> QED
      BY <2>3, <3>1, <3>2 DEF Kind, Readable
  <2>7. CASE StoreCommitment(c) \/ RejectBatch(c) \/ FileError(c)
    <3>1. call'[c].pc = "idle"
      BY <2>7 DEF StoreCommitment, RejectBatch, FileError, Fail, Return, Returned, TypeOK
    <3> QED
      BY <3>1 DEF Running
  <2> QED
    BY <1>3, <2>2, <2>4, <2>5, <2>6, <2>7 DEF Write
<1>4. ASSUME Restart PROVE FALSE
  BY <1>4 DEF Restart, Running, Returned
<1>5. ASSUME UNCHANGED vars PROVE Kind(c)'
  BY <1>1, <1>5 DEF vars
<1> QED
  BY <1>2, <1>3, <1>4, <1>5 DEF Next

---------------------------------------------------------------------------
(***************************************************************************)
(* The view of a table, when no call is changing it and when one is.       *)
(***************************************************************************)
Calm(t) == [made    |-> disk[t].dir,
            rows    |-> Shown(disk[t].files),
            covered |-> acked[t],
            open    |-> disk[t].dir /\ Readable(disk[t])]

\* What call c found of its table when it began.
UnderWay(c) == LET k == call[c] IN
    [made    |-> k.n # 0,
     rows    |-> Shown(SubSeq(disk[k.t].files, 1, k.n)),
     covered |-> acked[k.t],
     open    |-> k.n # 0]

\* Each table's view is one of the two.
ViewIs ==
    /\ \A t \in Tables : Settled(t) => View(t) = Calm(t)
    /\ \A c \in Callers : Running(c) /\ Dirty(call[c]) => View(call[c].t) = UnderWay(c)

\* It is, in every state the invariant holds in ...
LEMMA ViewsAre == TypeOK /\ Inv => ViewIs
<1> SUFFICES ASSUME TypeOK, Inv PROVE ViewIs
  OBVIOUS
<1>1. ASSUME NEW t \in Tables
      PROVE  (IF Readable(disk[t]) THEN disk[t].commit ELSE acked[t]) = acked[t]
  BY DEF Inv, CommitIsAcked
<1>2. ASSUME NEW t \in Tables, Settled(t) PROVE View(t) = Calm(t)
  <2>1. FilesKept(t) = disk[t].files /\ ~BeingMade(t) /\ disk[t].dir \in BOOLEAN
    BY <1>2, DirFields DEF FilesKept, BeingMade
  <2>2. /\ (disk[t].dir /\ ~BeingMade(t)) = disk[t].dir
        /\ (/\ disk[t].dir /\ ~BeingMade(t)
            /\ ~Settled(t) \/ Readable(disk[t])) = (disk[t].dir /\ Readable(disk[t]))
    BY <1>2, <2>1
  <2> QED
    BY <1>1, <2>1, <2>2 DEF View, Calm
<1>3. ASSUME NEW c \in Callers, Running(c), Dirty(call[c])
      PROVE  View(call[c].t) = UnderWay(c)
  <2> DEFINE t == call[c].t
             n == call[c].n
             kept == SubSeq(disk[t].files, 1, n)
  <2>1. /\ t \in Tables /\ n \in Nat /\ disk[t].files \in Seq(WholeFile \cup {Torn})
        /\ disk[t].dir /\ n <= Len(disk[t].files)
    <3>1. /\ t \in Tables /\ n \in Nat /\ disk[t].files \in Seq(WholeFile \cup {Torn})
          /\ StillTrue(c)
      BY <1>3, BeforeStep
    <3> QED
      BY <1>3, <3>1, LenProperties DEF StillTrue, Dirty
  <2>2. ~Settled(t)
    BY <1>3 DEF Settled
  <2>3. (CHOOSE e \in Callers : Running(e) /\ call[e].t = t) = c
    <3>1. \A e \in Callers : Running(e) => e = c
      BY <1>3, Alone DEF Inv
    <3> QED
      BY <1>3, <3>1
  <2>4. FilesKept(t) = kept
    BY <2>2, <2>3 DEF FilesKept
  <2> HIDE DEF t, n
  <2>5. kept = <<>> <=> n = 0
    <3>1. Len(kept) = n /\ kept \in Seq(WholeFile \cup {Torn})
      BY <2>1, SubSeqProperties
    <3> HIDE DEF kept
    <3> QED
      BY <3>1, EmptySeq
  <2>6. BeingMade(t) = (n = 0)
    BY <2>2, <2>4, <2>5 DEF BeingMade
  <2>7. /\ (disk[t].dir /\ ~BeingMade(t)) = (n # 0)
        /\ (/\ disk[t].dir /\ ~BeingMade(t)
            /\ ~Settled(t) \/ Readable(disk[t])) = (n # 0)
    BY <2>1, <2>2, <2>6
  <2>8. View(t) = [made |-> n # 0, rows |-> Shown(kept), covered |-> acked[t], open |-> n # 0]
    BY <1>1, <2>1, <2>4, <2>7 DEF View
  <2> QED
    BY <2>8 DEF UnderWay, t, n
<1> QED
  BY <1>2, <1>3 DEF ViewIs

\* ... and so after every step.
LEMMA ViewsNext == (TypeOK /\ Inv => ViewIs)'
BY ViewsAre, PTL

---------------------------------------------------------------------------
\* What a query finds depends on the files only as far as they go.
LEMMA ShownSame ==
    ASSUME NEW S, NEW f \in Seq(S), NEW g \in Seq(S), NEW n \in Nat,
           n <= Len(f), n <= Len(g), \A k \in 1 .. n : f[k] = g[k]
    PROVE  Shown(SubSeq(f, 1, n)) = Shown(SubSeq(g, 1, n))
<1>1. /\ Len(SubSeq(f, 1, n)) = n /\ Len(SubSeq(g, 1, n)) = n
      /\ \A k \in 1 .. n : SubSeq(f, 1, n)[k] = f[k] /\ SubSeq(g, 1, n)[k] = g[k]
  BY SubSeqProperties
<1> QED
  BY <1>1 DEF Shown

\* All of them.
LEMMA ShownAll ==
    ASSUME NEW S, NEW f \in Seq(S)
    PROVE  Len(f) \in Nat /\ SubSeq(f, 1, Len(f)) = f
BY LenProperties, SubSeqProperties

\* And with one more.
LEMMA ShownNext ==
    ASSUME NEW S, NEW f \in Seq(S), NEW n \in Nat, Len(f) = n + 1
    PROVE  Shown(f) = Append(Shown(SubSeq(f, 1, n)),
                             IF f[n + 1] = Torn THEN Torn ELSE f[n + 1].batch)
<1> DEFINE g == SubSeq(f, 1, n)
           shown(x) == IF x = Torn THEN Torn ELSE x.batch
<1>1. Len(g) = n /\ \A k \in 1 .. n : g[k] = f[k]
  BY SubSeqProperties
<1> HIDE DEF g
<1>2. Shown(f) = [k \in 1 .. n + 1 |-> shown(f[k])]
  BY DEF Shown
<1>3. Shown(g) = [k \in 1 .. n |-> shown(f[k])]
  BY <1>1 DEF Shown
<1> HIDE DEF shown
<1> DEFINE T == {shown(f[k]) : k \in 1 .. n + 1}
           u == [k \in 1 .. n |-> shown(f[k])]
<1>4. u \in Seq(T) /\ Len(u) = n /\ shown(f[n + 1]) \in T
  BY SMT
<1>5. Append(u, shown(f[n + 1])) = [k \in 1 .. n + 1 |-> shown(f[k])]
  BY <1>4, AppendProperties
<1> QED
  BY <1>2, <1>3, <1>5 DEF g, shown

\* Nothing, and one thing more than nothing.
LEMMA ShownFew ==
    ASSUME NEW S, NEW f \in Seq(S)
    PROVE  /\ Shown(SubSeq(f, 1, 0)) = <<>>
           /\ f = <<>> => Shown(f) = <<>>
<1>1. Len(SubSeq(f, 1, 0)) = 0
  BY SubSeqProperties
<1>2. \A g : Len(g) = 0 => Shown(g) = <<>>
  BY DEF Shown
<1> QED
  BY <1>1, <1>2

\* What nothing is found of is empty.
LEMMA FoundNowhere ==
    ASSUME NEW u \in Seq(Batches), NEW files, FoundIn(u, files, 0)
    PROVE  u = <<>>
<1>1. PICK at \in [1 .. Len(u) -> 1 .. 0] : TRUE
  BY DEF FoundIn
<1>2. Len(u) \in Nat
  BY LenProperties
<1>3. ~(1 \in 1 .. Len(u))
  BY <1>1
<1> QED
  BY <1>2, <1>3, EmptySeq

---------------------------------------------------------------------------
(***************************************************************************)
(* What the ledger lets become of one table's account.                     *)
(***************************************************************************)
Created == [made |-> TRUE, rows |-> << <<>> >>, covered |-> << <<>> >>, open |-> TRUE]

\* A table create_table failed on.
Abandoned(rows) == [made |-> TRUE, rows |-> rows, covered |-> <<>>, open |-> FALSE]

\* A table's account stays, or is created, abandoned, extended or given a stray.
Moves(old, new) ==
    \/ new = old
    \/ ~old.made /\ new = Created
    \/ ~old.made /\ \E rows \in {<<>>, << <<>> >>, <<Torn>>} : new = Abandoned(rows)
    \/ /\ old.open
       /\ \E b \in Batches :
             \/ new = [old EXCEPT !.rows = Append(@, b), !.covered = Append(@, b)]
             \/ \E open \in BOOLEAN : new = [old EXCEPT !.rows = Append(@, b), !.open = open]
             \/ new = [old EXCEPT !.rows = Append(@, Torn)]

\* What DbLedger puts for the ledger.
Views == [t \in Tables |-> View(t)]

\* If one table's view moves so and the others stay, it is a step of the ledger.
LEMMA LedgerStep ==
    ASSUME NEW t \in Tables, Moves(View(t), View(t)'),
           \A u \in Tables \ {t} : View(u)' = View(u)
    PROVE  [Abstract!Next]_Views
<1> DEFINE old == View(t)
           new == View(t)'
<1>1. Views' = [Views EXCEPT ![t] = new] /\ Views[t] = old /\ Views'[t] = new
  BY DEF Views
<1>2. old = [made |-> old.made, rows |-> old.rows, covered |-> old.covered, open |-> old.open]
  BY DEF View
<1> HIDE DEF old, new
<1>3. CASE new = old
  <2>1. Views' = Views
    BY <1>1, <1>3 DEF Views
  <2> QED
    BY <2>1
<1>4. ASSUME Abstract!Create(t) \/ Abstract!Abandon(t)
              \/ \E b \in Batches : Abstract!Extend(t, b) \/ Abstract!Stray(t, b),
             new # old
      PROVE  Abstract!Next
  BY <1>1, <1>4 DEF Abstract!Next, Views
<1>5. ASSUME ~old.made, new = Created PROVE Abstract!Create(t)
  BY <1>1, <1>5 DEF Abstract!Create, Abstract!Becomes, Views, Created
<1>6. ASSUME ~old.made, NEW rows \in {<<>>, << <<>> >>, <<Torn>>}, new = Abandoned(rows)
      PROVE  Abstract!Abandon(t)
  BY <1>1, <1>6 DEF Abstract!Abandon, Abstract!Becomes, Views, Abandoned
<1>7. ASSUME old.open, NEW b \in Batches,
             new = [old EXCEPT !.rows = Append(@, b), !.covered = Append(@, b)]
      PROVE  Abstract!Extend(t, b)
  BY <1>1, <1>7 DEF Abstract!Extend, Abstract!Becomes, Views
<1>8. ASSUME old.open, NEW b \in Batches, NEW open \in BOOLEAN,
             new = [old EXCEPT !.rows = Append(@, b), !.open = open]
      PROVE  Abstract!Stray(t, b)
  BY <1>1, <1>8 DEF Abstract!Stray, Abstract!Becomes, Views
<1>9. ASSUME old.open, NEW b \in Batches, new = [old EXCEPT !.rows = Append(@, Torn)]
      PROVE  Abstract!Stray(t, b)
  BY <1>1, <1>9 DEF Abstract!Stray, Abstract!Becomes, Views
<1> QED
  BY <1>3, <1>4, <1>5, <1>6, <1>7, <1>8, <1>9 DEF Moves, old, new

\* A table is made, or abandoned.
LEMMA Makes ==
    ASSUME NEW old, NEW new, NEW covered,
           old = [made |-> FALSE, rows |-> <<>>, covered |-> covered, open |-> FALSE],
           new = Created \/ \E rows \in {<<>>, << <<>> >>, <<Torn>>} : new = Abandoned(rows)
    PROVE  Moves(old, new)
<1>1. ~old.made
  OBVIOUS
<1> QED
  BY <1>1 DEF Moves

\* A batch is covered, or strays, or is damaged.
LEMMA Grows ==
    ASSUME NEW old, NEW new, NEW rows, NEW covered, NEW b \in Batches, NEW open \in BOOLEAN,
           old = [made |-> TRUE, rows |-> rows, covered |-> covered, open |-> TRUE],
           \/ new = [made |-> TRUE, rows |-> Append(rows, b), covered |-> Append(covered, b),
                     open |-> TRUE]
           \/ new = [made |-> TRUE, rows |-> Append(rows, b), covered |-> covered, open |-> open]
           \/ new = [made |-> TRUE, rows |-> Append(rows, Torn), covered |-> covered,
                     open |-> TRUE]
    PROVE  Moves(old, new)
<1> DEFINE more == Append(rows, b)
           worse == Append(rows, Torn)
           all == Append(covered, b)
<1> HIDE DEF more, worse, all
<1>1. old.open /\ old.rows = rows /\ old.covered = covered
  OBVIOUS
<1>2. CASE new = [made |-> TRUE, rows |-> more, covered |-> all, open |-> TRUE]
  <2> DEFINE m == [old EXCEPT !.rows = more, !.covered = all]
  <2>1. m \in [made: {TRUE}, rows: {more}, covered: {all}, open: {TRUE}]
    OBVIOUS
  <2> HIDE DEF m
  <2>2. new = m
    BY <1>2, <2>1
  <2> QED
    BY <1>1, <2>2 DEF Moves, m, more, all
<1>3. CASE new = [made |-> TRUE, rows |-> more, covered |-> covered, open |-> open]
  <2> DEFINE m == [old EXCEPT !.rows = more, !.open = open]
  <2>1. m \in [made: {TRUE}, rows: {more}, covered: {covered}, open: {open}]
    OBVIOUS
  <2> HIDE DEF m
  <2>2. new = m
    BY <1>3, <2>1
  <2> QED
    BY <1>1, <2>2 DEF Moves, m, more
<1>4. CASE new = [made |-> TRUE, rows |-> worse, covered |-> covered, open |-> TRUE]
  <2> DEFINE m == [old EXCEPT !.rows = worse]
  <2>1. m \in [made: {TRUE}, rows: {worse}, covered: {covered}, open: {TRUE}]
    OBVIOUS
  <2> HIDE DEF m
  <2>2. new = m
    BY <1>4, <2>1
  <2> QED
    BY <1>1, <2>2 DEF Moves, m, worse
<1> QED
  BY <1>2, <1>3, <1>4 DEF more, worse, all

\* A step of call c moves no other table's view.
LEMMA OthersStay ==
    ASSUME TypeOK, Inv, TypeOK', Inv', NEW c \in Callers, Running(c),
           \A e \in Callers \ {c} : call'[e] = call[e],
           \A u \in Tables \ {call[c].t} : disk'[u] = disk[u] /\ acked'[u] = acked[u],
           Running(c)' => call'[c].t = call[c].t,
           NEW u \in Tables \ {call[c].t}
    PROVE  View(u)' = View(u)
<1>1. Settled(u)
  BY Alone DEF Inv, Settled
<1>2. Settled(u)'
  BY Alone DEF Inv, Settled, Running
<1> QED
  BY <1>1, <1>2 DEF View, FilesKept, BeingMade

(***************************************************************************)
(* A call that changed its table gives up: the table is abandoned if the   *)
(* call was making it, and else the batch strays.                          *)
(***************************************************************************)
LEMMA GivesUp ==
    ASSUME TypeOK, Inv, Kinds, TypeOK', Inv', NEW c \in Callers, Running(c), Dirty(call[c]),
           NEW t \in Tables, t = call[c].t,
           UNCHANGED <<disk, acked>>, \A e \in Callers : ~Running(e)'
    PROVE  Moves(View(t), View(t)')
<1> DEFINE k == call[c]
           n == call[c].n
           F == disk[t].files
           S == WholeFile \cup {Torn}
           kept == Shown(SubSeq(F, 1, n))
<1>1. /\ n \in Nat /\ F \in Seq(S) /\ acked[t] \in Seq(Batches)
      /\ k.file \in WholeFile /\ k.file.batch \in Batches
      /\ StillTrue(c) /\ Kind(c) /\ disk[t].dir
  <2>1. StillTrue(c) /\ k.file \in WholeFile /\ k.file.batch \in Batches
    BY BeforeStep, CallFields
  <2> QED
    BY <2>1, BeforeStep DEF StillTrue, Dirty, Kinds
<1>2. View(t) = [made |-> n # 0, rows |-> kept, covered |-> acked[t], open |-> n # 0]
  BY ViewsAre DEF ViewIs, UnderWay
<1>0. PICK open \in BOOLEAN : open <=> Readable(disk[t])
  BY DEF Readable
<1>3. View(t)' = [made |-> TRUE, rows |-> Shown(F), covered |-> acked[t], open |-> open]
  <2>1. Settled(t)'
    BY DEF Settled, Running
  <2>2. View(t)' = [made |-> disk[t].dir, rows |-> Shown(F), covered |-> acked[t],
                    open |-> disk[t].dir /\ Readable(disk[t])]
    BY <1>1, <2>1, ViewsNext DEF ViewIs, Calm
  <2>3. disk[t].dir = TRUE /\ (disk[t].dir /\ Readable(disk[t])) = open
    BY <1>0, <1>1, DirFields
  <2> QED
    BY <2>2, <2>3
<1>4. ASSUME n = 0 PROVE acked[t] = <<>> /\ open = FALSE /\ k.file.batch = <<>>
  BY <1>0, <1>1, <1>4, FoundNowhere DEF StillTrue, Kind
<1>6. ASSUME k.pc \in {"write", "extend", "store"}
      PROVE  Shown(F) = Append(kept, IF F[n + 1] = Torn THEN Torn ELSE F[n + 1].batch)
  <2>1. Len(F) = n + 1
    BY <1>1, <1>6 DEF StillTrue
  <2> HIDE DEF F, S, n
  <2> QED
    BY <1>1, <2>1, ShownNext
<1>7. n = 0 => kept = <<>>
  BY <1>1, ShownFew
<1> HIDE DEF kept
<1>5. CASE k.pc = "open"
  <2>1. n = 0 /\ Len(F) = 0
    BY <1>1, <1>5 DEF Dirty, StillTrue
  <2>2. Shown(F) = <<>>
    BY <1>1, <2>1, ShownFew, EmptySeq
  <2>3. View(t) = [made |-> FALSE, rows |-> <<>>, covered |-> <<>>, open |-> FALSE]
    BY <1>2, <1>4, <1>7, <2>1
  <2>4. View(t)' = [made |-> TRUE, rows |-> <<>>, covered |-> <<>>, open |-> FALSE]
    BY <1>3, <1>4, <2>1, <2>2
  <2> QED
    BY <2>2, <2>3, <2>4, Makes DEF Abandoned
<1>8. CASE k.pc = "write"
  <2>1. F[n + 1] = Torn
    BY <1>1, <1>8 DEF StillTrue
  <2>2. Shown(F) = Append(kept, Torn)
    BY <1>6, <1>8, <2>1
  <2>3. CASE n = 0
    <3>1. Shown(F) = <<Torn>>
      BY <1>7, <2>2, <2>3
    <3>2. View(t) = [made |-> FALSE, rows |-> <<>>, covered |-> <<>>, open |-> FALSE]
      BY <1>2, <1>4, <1>7, <2>3
    <3>3. View(t)' = [made |-> TRUE, rows |-> <<Torn>>, covered |-> <<>>, open |-> FALSE]
      BY <1>3, <1>4, <2>3, <3>1
    <3> QED
      BY <3>2, <3>3, Makes DEF Abandoned
  <2>4. CASE n # 0
    <3>1. open = TRUE
      BY <1>0, <1>1, <1>8, <2>4 DEF Kind
    <3>2. View(t) = [made |-> TRUE, rows |-> kept, covered |-> acked[t], open |-> TRUE]
      BY <1>2, <2>4
    <3>3. View(t)' = [made |-> TRUE, rows |-> Append(kept, Torn), covered |-> acked[t],
                      open |-> TRUE]
      BY <1>3, <2>2, <3>1
    <3> QED
      BY <1>1, <3>2, <3>3, Grows
  <2> QED
    BY <2>3, <2>4
<1>9. CASE k.pc \in {"extend", "store"}
  <2>1. F[n + 1] = k.file /\ k.file # Torn
    BY <1>1, <1>9, DbAssumption DEF StillTrue, WholeFile
  <2>2. Shown(F) = Append(kept, k.file.batch)
    BY <1>6, <1>9, <2>1
  <2>3. CASE n = 0
    <3>1. Shown(F) = << <<>> >>
      BY <1>4, <1>7, <2>2, <2>3
    <3>2. View(t) = [made |-> FALSE, rows |-> <<>>, covered |-> <<>>, open |-> FALSE]
      BY <1>2, <1>4, <1>7, <2>3
    <3>3. View(t)' = [made |-> TRUE, rows |-> << <<>> >>, covered |-> <<>>, open |-> FALSE]
      BY <1>3, <1>4, <2>3, <3>1
    <3> QED
      BY <3>2, <3>3, Makes DEF Abandoned
  <2>4. CASE n # 0
    <3>2. View(t) = [made |-> TRUE, rows |-> kept, covered |-> acked[t], open |-> TRUE]
      BY <1>2, <2>4
    <3>3. View(t)' = [made |-> TRUE, rows |-> Append(kept, k.file.batch), covered |-> acked[t],
                      open |-> open]
      BY <1>3, <2>2
    <3> QED
      BY <1>1, <3>2, <3>3, Grows
  <2> QED
    BY <2>3, <2>4
<1> QED
  BY <1>5, <1>8, <1>9 DEF Dirty

---------------------------------------------------------------------------
\* A call that only reads, or has yet to change its table, moves no view.
LEMMA BeginsCalm ==
    ASSUME TypeOK, Inv, Quiet, NEW c \in Callers, NEW t \in Tables, NEW s \in Schemas,
           CreateTable(c, t, s) \/ \E b \in Batches : Insert(c, t, s, b),
           NEW u \in Tables
    PROVE  View(u)' = View(u)
<1>1. UNCHANGED <<disk, acked>> /\ \A e \in Callers \ {c} : call'[e] = call[e]
  BY CreateBegins, InsertBegins
<1>2. Running(c)' => ~Dirty(call'[c])
  <2>1. CASE CreateTable(c, t, s)
    <3>1. call'[c].pc \in {"idle", "mkdir"}
      BY <2>1 DEF CreateTable, Return, Begin, Returned, TypeOK
    <3> QED
      BY <3>1 DEF Dirty, Running
  <2>2. ASSUME NEW b \in Batches, Insert(c, t, s, b) PROVE Running(c)' => ~Dirty(call'[c])
    <3>1. Running(c)' => /\ InsertError(disk[t], s) = "Ok"
                         /\ call'[c].pc = "open" /\ call'[c].n = Len(disk[t].files)
      BY <2>2 DEF Insert, Return, Returned, Begin, TypeOK, Running
    <3>2. InsertError(disk[t], s) = "Ok" => disk[t].files # <<>>
      BY DEF InsertError, SchemaError
    <3>3. disk[t].files # <<>> => Len(disk[t].files) # 0
      BY DirFields, EmptySeq, LenProperties
    <3> QED
      BY <3>1, <3>2, <3>3 DEF Dirty
  <2> QED
    BY <2>1, <2>2
<1>3. Settled(u)
  BY DEF Settled, Quiet
<1>4. Settled(u)'
  BY <1>1, <1>2 DEF Settled, Quiet, Running
<1> QED
  BY <1>1, <1>3, <1>4 DEF View, FilesKept, BeingMade

\* A table no call has changed, and the next step of the call that will.
LEMMA CalmBefore ==
    ASSUME TypeOK, Inv, NEW c \in Callers, Running(c), ~Dirty(call[c]),
           NEW t \in Tables, t = call[c].t
    PROVE  View(t) = Calm(t)
<1>1. Settled(t)
  BY Alone DEF Inv, Settled
<1> QED
  BY <1>1, ViewsAre DEF ViewIs

\* The view while the call stays under way.
LEMMA UnderWayAfter ==
    ASSUME TypeOK', Inv', NEW c \in Callers, NEW t \in Tables,
           Running(c)', Dirty(call'[c]), call'[c].t = t
    PROVE  View(t)' = [made    |-> call'[c].n # 0,
                       rows    |-> Shown(SubSeq(disk'[t].files, 1, call'[c].n)),
                       covered |-> acked'[t],
                       open    |-> call'[c].n # 0]
<1>1. View(call[c].t)' = UnderWay(c)'
  BY ViewsNext DEF ViewIs
<1> QED
  BY <1>1 DEF UnderWay

\* And once no call is.
LEMMA CalmAfter ==
    ASSUME TypeOK', Inv', NEW t \in Tables, \A e \in Callers : ~Running(e)'
    PROVE  View(t)' = [made    |-> disk'[t].dir,
                       rows    |-> Shown(disk'[t].files),
                       covered |-> acked'[t],
                       open    |-> disk'[t].dir /\ Readable(disk'[t])]
<1>1. Settled(t)'
  BY DEF Settled
<1> QED
  BY <1>1, ViewsNext DEF ViewIs, Calm

(***************************************************************************)
(* From the moment its directory is there, a running call sees its table   *)
(* as it found it, whichever step it is at.                                *)
(***************************************************************************)
LEMMA Inside ==
    ASSUME TypeOK, Inv, Kinds, NEW c \in Callers, Running(c), call[c].pc # "mkdir",
           NEW t \in Tables, t = call[c].t
    PROVE  View(t) = [made    |-> call[c].n # 0,
                      rows    |-> Shown(SubSeq(disk[t].files, 1, call[c].n)),
                      covered |-> acked[t],
                      open    |-> call[c].n # 0]
<1> DEFINE n == call[c].n
           F == disk[t].files
<1>1. CASE Dirty(call[c])
  BY <1>1, ViewsAre DEF ViewIs, UnderWay
<1>2. CASE ~Dirty(call[c])
  <2>1. /\ F \in Seq(WholeFile \cup {Torn}) /\ call[c].pc \in Steps /\ StillTrue(c) /\ Kind(c)
    BY CallFields, BeforeStep DEF Kinds
  <2>2. call[c].pc = "open" /\ n # 0
    BY <1>2, <2>1 DEF Dirty, Steps
  <2>3. disk[t].dir = TRUE /\ Len(F) = n /\ Readable(disk[t])
    BY <2>1, <2>2, DirFields DEF StillTrue, Kind
  <2>4. SubSeq(F, 1, n) = F
    BY <2>1, <2>3, ShownAll
  <2>5. (n # 0) = TRUE /\ (disk[t].dir /\ Readable(disk[t])) = TRUE
    BY <2>2, <2>3
  <2>6. View(t) = [made |-> disk[t].dir, rows |-> Shown(F), covered |-> acked[t],
                   open |-> disk[t].dir /\ Readable(disk[t])]
    BY <1>2, CalmBefore DEF Calm
  <2> QED
    BY <2>3, <2>4, <2>5, <2>6
<1> QED
  BY <1>1, <1>2

\* Making the directory is not yet making the table.
LEMMA MakeDirMoves ==
    ASSUME TypeOK, Inv, TypeOK', Inv', NEW c \in Callers, MakeDir(c),
           NEW t \in Tables, t = call[c].t
    PROVE  View(t)' = View(t)
<1>1. Running(c) /\ ~Dirty(call[c]) /\ call[c].pc = "mkdir"
  BY DEF MakeDir, Running, Dirty
<1>2. ~disk[t].dir /\ call[c].n = 0
  BY <1>1, BeforeStep DEF StillTrue
<1>3. disk[t] = NoDir /\ acked[t] = <<>>
  BY <1>2 DEF Inv, NothingWithoutDir
<1>4. View(t) = [made |-> FALSE, rows |-> <<>>, covered |-> <<>>, open |-> FALSE]
  <2>1. Shown(disk[t].files) = <<>>
    BY <1>3, DirFields, ShownFew DEF NoDir
  <2>2. disk[t].dir = FALSE /\ (disk[t].dir /\ Readable(disk[t])) = FALSE
    BY <1>3 DEF NoDir
  <2> QED
    BY <1>1, <1>3, <2>1, <2>2, CalmBefore DEF Calm
<1>5. /\ call'[c].pc = "open" /\ call'[c].n = 0 /\ call'[c].t = t
      /\ acked' = acked
  <2>1. call'[c] = [call[c] EXCEPT !.pc = "open"] /\ acked' = acked
    BY DEF MakeDir, Advance, TypeOK
  <2> QED
    BY <1>1, <1>2, <2>1, CallFields
<1>6. Running(c)' /\ Dirty(call'[c])
  BY <1>5 DEF Running, Dirty
<1>7. Shown(SubSeq(disk'[t].files, 1, 0)) = <<>>
  <2>1. disk'[t].files \in Seq(WholeFile \cup {Torn})
    BY DEF TypeOK, TableDir
  <2> QED
    BY <2>1, ShownFew
<1>8. View(t)' = [made |-> call'[c].n # 0, rows |-> Shown(SubSeq(disk'[t].files, 1, call'[c].n)),
                  covered |-> acked'[t], open |-> call'[c].n # 0]
  BY <1>5, <1>6, UnderWayAfter
<1> QED
  BY <1>3, <1>4, <1>5, <1>7, <1>8

\* Neither is writing the file, or extending the commitment, taking the batch.
LEMMA InsideMoves ==
    ASSUME TypeOK, Inv, Kinds, TypeOK', Inv', NEW c \in Callers,
           OpenBatch(c) \/ WriteBatch(c) \/ ExtendCommitment(c),
           NEW t \in Tables, t = call[c].t
    PROVE  View(t)' = View(t)
<1> DEFINE n == call[c].n
           F == disk[t].files
           G == disk'[t].files
           S == WholeFile \cup {Torn}
<1>1. Running(c) /\ call[c].pc \in {"open", "write", "extend"}
  BY DEF OpenBatch, WriteBatch, ExtendCommitment, Running
<1>2. /\ n \in Nat /\ F \in Seq(S) /\ call[c].file \in WholeFile
      /\ Len(F) \in {n, n + 1} /\ (call[c].pc = "extend" => Len(F) = n + 1)
  BY <1>1, BeforeStep DEF StillTrue
<1>3. /\ call'[c].pc \in {"write", "extend", "store"}
      /\ call'[c].n = n /\ call'[c].t = t /\ acked' = acked
  <2>1. CASE OpenBatch(c)
    <3>1. call'[c] = [call[c] EXCEPT !.pc = "write"] /\ acked' = acked
      BY <2>1 DEF OpenBatch, Advance, TypeOK
    <3> QED
      BY <1>1, <3>1, CallFields
  <2>2. CASE WriteBatch(c)
    <3>1. call'[c] = [call[c] EXCEPT !.pc = "extend"] /\ acked' = acked
      BY <2>2 DEF WriteBatch, Advance, TypeOK
    <3> QED
      BY <1>1, <3>1, CallFields
  <2>3. CASE ExtendCommitment(c)
    <3>1. /\ call'[c] = [call[c] EXCEPT !.pc = "store",
                                        !.commitment = Append(@, call[c].file.batch)]
          /\ acked' = acked
      BY <2>3 DEF ExtendCommitment, TypeOK
    <3> QED
      BY <1>1, <3>1, CallFields
  <2> QED
    BY <2>1, <2>2, <2>3
<1>4. G \in Seq(S) /\ Len(G) = n + 1 /\ \A k \in 1 .. n : G[k] = F[k]
  <2>1. CASE OpenBatch(c) \/ WriteBatch(c)
    <3>1. PICK content \in S : G = PutFile(F, n, content)
      <4>1. CASE OpenBatch(c)
        BY <4>1 DEF OpenBatch, TypeOK, TableDir
      <4>2. CASE WriteBatch(c)
        BY <1>2, <4>2 DEF WriteBatch, TypeOK, TableDir
      <4> QED
        BY <2>1, <4>1, <4>2
    <3> HIDE DEF n, F, G, S
    <3>2. G \in Seq(S)
      BY <1>2, <3>1, PutFileType
    <3>3. Len(PutFile(F, n, content)) = n + 1 /\ \A k \in 1 .. n : PutFile(F, n, content)[k] = F[k]
      BY <1>2, PutFileEffect
    <3> QED
      BY <3>1, <3>2, <3>3
  <2>2. CASE ExtendCommitment(c)
    <3>1. G = F /\ Len(F) = n + 1
      BY <1>2, <2>2 DEF ExtendCommitment, TypeOK, TableDir
    <3> QED
      BY <1>2, <3>1
  <2> QED
    BY <2>1, <2>2
<1>5. Shown(SubSeq(G, 1, n)) = Shown(SubSeq(F, 1, n))
  <2> HIDE DEF n, F, G, S
  <2>1. n <= Len(F) /\ n <= Len(G)
    BY <1>2, <1>4
  <2> QED
    BY <1>2, <1>4, <2>1, ShownSame
<1>6. View(t) = [made |-> n # 0, rows |-> Shown(SubSeq(F, 1, n)), covered |-> acked[t],
                 open |-> n # 0]
  BY <1>1, Inside
<1>7. Running(c)' /\ Dirty(call'[c])
  BY <1>3 DEF Running, Dirty
<1>8. View(t)' = [made |-> call'[c].n # 0, rows |-> Shown(SubSeq(G, 1, call'[c].n)),
                  covered |-> acked'[t], open |-> call'[c].n # 0]
  BY <1>3, <1>7, UnderWayAfter
<1> QED
  BY <1>3, <1>5, <1>6, <1>8

\* Writing the commitment out is: the table is made, or the batch is covered.
LEMMA StoreMoves ==
    ASSUME TypeOK, Inv, Kinds, TypeOK', Inv', NEW c \in Callers, StoreCommitment(c),
           NEW t \in Tables, t = call[c].t
    PROVE  Moves(View(t), View(t)')
<1> DEFINE n == call[c].n
           F == disk[t].files
           S == WholeFile \cup {Torn}
           b == call[c].file.batch
           kept == Shown(SubSeq(F, 1, n))
<1>1. Running(c) /\ call[c].pc = "store"
  BY DEF StoreCommitment, Running
<1>2. /\ n \in Nat /\ F \in Seq(S) /\ call[c].file \in WholeFile /\ b \in Batches
      /\ acked[t] \in Seq(Batches) /\ StillTrue(c) /\ Kind(c)
  BY <1>1, BeforeStep, CallFields DEF Kinds
<1>3. /\ disk[t].dir = TRUE /\ Len(F) = n + 1 /\ F[n + 1] = call[c].file
      /\ FoundIn(acked[t], F, n) /\ call[c].commitment \in Seq(Batches)
  BY <1>1, <1>2, CallFields, DirFields DEF StillTrue
<1>4. Shown(F) = Append(kept, b)
  <2>1. call[c].file # Torn
    BY <1>2, DbAssumption DEF WholeFile
  <2>2. Shown(F) = Append(kept, IF F[n + 1] = Torn THEN Torn ELSE F[n + 1].batch)
    <3> HIDE DEF n, F, S
    <3> QED
      BY <1>2, <1>3, ShownNext DEF kept
  <2> HIDE DEF kept
  <2> QED
    BY <1>3, <2>1, <2>2
<1>5. /\ disk'[t].dir = TRUE /\ disk'[t].files = F /\ disk'[t].commit = call[c].commitment
      /\ acked'[t] = Append(acked[t], b)
  BY <1>3 DEF StoreCommitment, TypeOK, TableDir
<1>6. \A e \in Callers : ~Running(e)'
  <2>1. call'[c].pc = "idle" /\ \A e \in Callers \ {c} : call'[e] = call[e]
    BY DEF StoreCommitment, Return, Returned, TypeOK
  <2> QED
    BY <1>1, <2>1, Alone DEF Inv, Running
<1>7. (disk'[t].dir /\ Readable(disk'[t])) = TRUE
  BY <1>3, <1>5, DbAssumption DEF Readable
<1>8. View(t)' = [made |-> TRUE, rows |-> Append(kept, b), covered |-> Append(acked[t], b),
                  open |-> TRUE]
  BY <1>4, <1>5, <1>6, <1>7, CalmAfter
<1>9. View(t) = [made |-> n # 0, rows |-> kept, covered |-> acked[t], open |-> n # 0]
  BY <1>1, Inside
<1>10. n = 0 => kept = <<>>
  BY <1>2, ShownFew
<1> HIDE DEF kept
<1>11. CASE n = 0
  <2>1. acked[t] = <<>> /\ b = <<>> /\ kept = <<>>
    BY <1>2, <1>3, <1>10, <1>11, FoundNowhere DEF Kind
  <2>2. View(t) = [made |-> FALSE, rows |-> <<>>, covered |-> <<>>, open |-> FALSE]
    BY <1>9, <1>11, <2>1
  <2>3. View(t)' = Created
    BY <1>8, <2>1 DEF Created
  <2> QED
    BY <2>2, <2>3, Makes
<1>12. CASE n # 0
  <2>1. View(t) = [made |-> TRUE, rows |-> kept, covered |-> acked[t], open |-> TRUE]
    BY <1>9, <1>12
  <2> QED
    BY <1>2, <1>8, <2>1, Grows
<1> QED
  BY <1>11, <1>12

\* A failure before the first change, like one between calls, moves nothing.
LEMMA CalmStays ==
    ASSUME NEW t \in Tables, Settled(t), UNCHANGED <<disk, acked>>,
           \A e \in Callers : ~Running(e)'
    PROVE  View(t)' = View(t)
<1>1. Settled(t)'
  BY DEF Settled
<1> QED
  BY <1>1 DEF View, FilesKept, BeingMade

\* Every call gives up with a step of the ledger, or with none.
LEMMA GiveUpMoves ==
    ASSUME TypeOK, Inv, Kinds, TypeOK', Inv', UNCHANGED <<disk, acked>>,
           \A e \in Callers : ~Running(e)'
    PROVE  [Abstract!Next]_Views
<1>1. CASE \A t \in Tables : Settled(t)
  <2>1. \A t \in Tables : View(t)' = View(t)
    BY <1>1, CalmStays
  <2> QED
    BY <2>1 DEF Views
<1>2. ASSUME NEW c \in Callers, Running(c), Dirty(call[c]) PROVE [Abstract!Next]_Views
  <2>1. PICK t \in Tables : t = call[c].t
    BY <1>2, CallFields
  <2>2. Moves(View(t), View(t)')
    BY <1>2, <2>1, GivesUp
  <2>3. ASSUME NEW u \in Tables \ {t} PROVE View(u)' = View(u)
    <3>1. Settled(u)
      BY <1>2, <2>1, Alone DEF Inv, Settled
    <3> QED
      BY <3>1, CalmStays
  <2> QED
    BY <2>2, <2>3, LedgerStep
<1>3. \/ \A t \in Tables : Settled(t)
      \/ \E c \in Callers : Running(c) /\ Dirty(call[c])
  BY DEF Settled
<1> QED
  BY <1>1, <1>2, <1>3

---------------------------------------------------------------------------
\* The store begins as the ledger does.
LEMMA LedgerInit == Init => Abstract!Init
<1> SUFFICES ASSUME Init PROVE \A t \in Tables : View(t) = Abstract!Nothing
  BY DEF Abstract!Init
<1> TAKE t \in Tables
<1>1. disk[t] = NoDir /\ acked[t] = <<>> /\ Settled(t)
  BY DEF Init, Settled, Running, Returned
<1>2. View(t) = [made    |-> disk[t].dir /\ ~BeingMade(t),
                 rows    |-> Shown(disk[t].files),
                 covered |-> IF Readable(disk[t]) THEN disk[t].commit ELSE acked[t],
                 open    |-> /\ disk[t].dir /\ ~BeingMade(t)
                             /\ ~Settled(t) \/ Readable(disk[t])]
  BY <1>1 DEF View, FilesKept
<1>3. ~Readable(disk[t]) /\ disk[t].dir = FALSE /\ disk[t].files = <<>>
  BY <1>1 DEF NoDir, Readable
<1>4. /\ (disk[t].dir /\ ~BeingMade(t)) = FALSE
      /\ (/\ disk[t].dir /\ ~BeingMade(t)
          /\ ~Settled(t) \/ Readable(disk[t])) = FALSE
  BY <1>3
<1>5. Shown(disk[t].files) = <<>>
  <2>1. <<>> \in Seq(Batches)
    OBVIOUS
  <2> QED
    BY <1>3, <2>1, ShownFew
<1> QED
  BY <1>1, <1>2, <1>3, <1>4, <1>5 DEF Abstract!Nothing

\* Every step of the store is one of the ledger, or none.
LEMMA LedgerNext ==
    ASSUME TypeOK, Inv, Kinds, TypeOK', Inv', [Next]_vars
    PROVE  [Abstract!Next]_Views
<1>1. ASSUME Quiet, NEW c \in Callers, NEW t \in Tables, NEW s \in Schemas,
             CreateTable(c, t, s) \/ \E b \in Batches : Insert(c, t, s, b)
      PROVE  [Abstract!Next]_Views
  <2>1. \A u \in Tables : View(u)' = View(u)
    BY <1>1, BeginsCalm
  <2> QED
    BY <2>1 DEF Views
<1>2. ASSUME NEW c \in Callers,
             MakeDir(c) \/ OpenBatch(c) \/ WriteBatch(c) \/ ExtendCommitment(c)
               \/ StoreCommitment(c)
      PROVE  [Abstract!Next]_Views
  <2>1. /\ Running(c) /\ \A e \in Callers \ {c} : call'[e] = call[e]
        /\ Running(c)' => call'[c].t = call[c].t
    <3>1. /\ Running(c) /\ \A e \in Callers \ {c} : call'[e] = call[e]
          /\ call'[c].t = call[c].t \/ \E r : call'[c] = Returned(r)
      BY <1>2, CallGoesOn DEF Write
    <3>2. \A r : Returned(r).pc = "idle"
      BY DEF Returned
    <3> QED
      BY <3>1, <3>2 DEF Running
  <2>2. PICK t \in Tables : t = call[c].t
    BY <2>1, CallFields
  <2>3. \A u \in Tables \ {t} : disk'[u] = disk[u] /\ acked'[u] = acked[u]
    BY <1>2, <2>2 DEF MakeDir, OpenBatch, WriteBatch, ExtendCommitment, StoreCommitment, TypeOK
  <2>4. \A u \in Tables \ {t} : View(u)' = View(u)
    BY <2>1, <2>2, <2>3, OthersStay
  <2>5. Moves(View(t), View(t)')
    <3>1. CASE MakeDir(c)
      BY <2>2, <3>1, MakeDirMoves DEF Moves
    <3>2. CASE OpenBatch(c) \/ WriteBatch(c) \/ ExtendCommitment(c)
      BY <2>2, <3>2, InsideMoves DEF Moves
    <3>3. CASE StoreCommitment(c)
      BY <2>2, <3>3, StoreMoves
    <3> QED
      BY <1>2, <3>1, <3>2, <3>3
  <2> QED
    BY <2>2, <2>4, <2>5, LedgerStep
<1>3. ASSUME NEW c \in Callers, RejectBatch(c) \/ FileError(c)
      PROVE  [Abstract!Next]_Views
  <2>1. /\ UNCHANGED <<disk, acked>> /\ Running(c) /\ ~Running(c)'
        /\ \A e \in Callers \ {c} : call'[e] = call[e]
    BY <1>3, CallGoesOn DEF Write, RejectBatch, FileError, Fail, Return, Returned, Running, TypeOK
  <2>2. \A e \in Callers : ~Running(e)'
    BY <2>1, Alone DEF Inv, Running
  <2> QED
    BY <2>1, <2>2, GiveUpMoves
<1>4. CASE Restart
  <2>1. UNCHANGED <<disk, acked>> /\ \A e \in Callers : ~Running(e)'
    BY <1>4 DEF Restart, Returned, Running
  <2> QED
    BY <2>1, GiveUpMoves
<1>5. CASE UNCHANGED vars
  <2>1. Views' = Views
    BY <1>5 DEF vars, Views, View, FilesKept, BeingMade, Settled, Running
  <2> QED
    BY <2>1
<1> QED
  BY <1>1, <1>2, <1>3, <1>4, <1>5 DEF Next, Write

(***************************************************************************)
(* The store implements the ledger: whatever is refused and whenever the   *)
(* process is killed, a call has made or extended its table, left it as it *)
(* was, or left one of the two half-way states the ledger names, and it    *)
(* touches no other table.                                                 *)
(***************************************************************************)
THEOREM StoreImplementsLedger == Spec => ImplementsLedger
<1>1. Init => Kinds /\ Abstract!Init
  BY KindsInit, LedgerInit
<1>2. TypeOK /\ Inv /\ Kinds /\ [Next]_vars => Kinds'
  BY KindsStep
<1>3. /\ TypeOK /\ Inv /\ Kinds /\ TypeOK' /\ Inv' /\ [Next]_vars
      => [Abstract!Next]_Views
  BY LedgerNext
<1>4. [Abstract!Next]_Views => [Abstract!Next]_([t \in Tables |-> View(t)])
  BY DEF Views
<1> QED
  BY <1>1, <1>2, <1>3, <1>4, TypeCorrect, Invariance, PTL
  DEF Spec, ImplementsLedger, Abstract!Spec
============================================================================
