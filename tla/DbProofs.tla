------------------------------ MODULE DbProofs ------------------------------
(***************************************************************************)
(* Proofs about Db, for any tables, callers, batches, capacities, faults   *)
(* and numbers of files: its type invariant, and that commitments cover    *)
(* what was acknowledged and match the data on disk.                       *)
(***************************************************************************)
EXTENDS Db, NamesProofs, TLAPS, FiniteSetTheorems, SequenceTheorems, SequenceLemmas

(***************************************************************************)
(* The inductive invariant.  What a call carries from step to step is      *)
(* still true of the disk when it uses it, because no other call runs:     *)
(* its file number is the next one, and the commitment it holds is of the  *)
(* batches acknowledged so far.                                            *)
(***************************************************************************)
Exclusive == \A c, e \in Callers : Running(c) /\ Running(e) => c = e

\* A table without a directory has nothing, and nothing of it was acknowledged.
NothingWithoutDir ==
    \A t \in Tables : ~disk[t].dir => disk[t] = NoDir /\ acked[t] = <<>>

\* What call c carries is true of its table, from step to step.
StillTrue(c) ==
    LET k == call[c]
        d == disk[k.t]
    IN  /\ k.pc = "mkdir" => ~d.dir /\ k.n = 0
        /\ k.pc # "mkdir" => d.dir
        /\ k.pc = "open" => Len(d.files) = k.n
        /\ k.pc \in {"write", "extend", "store"} => Len(d.files) = k.n + 1
        /\ k.pc = "write" => d.files[k.n + 1] = Torn
        /\ k.pc \in {"extend", "store"} => d.files[k.n + 1] = k.file
        /\ FoundIn(acked[k.t], d.files, k.n)
        /\ k.pc # "store" => k.commitment = acked[k.t]
        /\ k.pc = "store" => k.commitment = Append(acked[k.t], k.file.batch)
        /\ k.t \notin interrupted => k.n = Len(acked[k.t])

\* It is of every call that runs.
InProgress == \A c \in Callers : Running(c) => StillTrue(c)

(***************************************************************************)
(* A table no call failed on half way: its first files hold the            *)
(* acknowledged batches, and unless a call is changing it there are no     *)
(* others and the commitment is of these.                                  *)
(***************************************************************************)
Intact(t) ==
    LET d == disk[t] IN
    /\ Len(acked[t]) <= Len(d.files)
    /\ \A k \in 1 .. Len(acked[t]) : /\ d.files[k] # Torn
                                     /\ d.files[k].batch = acked[t][k]
    /\ d.dir /\ Settled(t) => /\ Len(d.files) = Len(acked[t])
                              /\ acked[t] # <<>>
                              /\ d.commit = acked[t]

\* It is of every table no call failed on.
Undisturbed == \A t \in Tables \ interrupted : Intact(t)

\* The inductive invariant, with TypeOK.
Inv == /\ Exclusive /\ NothingWithoutDir /\ InProgress
       /\ CommitIsAcked /\ AckedSurvives /\ Undisturbed

---------------------------------------------------------------------------
\* Writing a file leaves a sequence of files.
LEMMA PutFileType ==
    ASSUME NEW S, NEW files \in Seq(S), NEW n \in Nat, NEW x \in S
    PROVE  PutFile(files, n, x) \in Seq(S)
<1>1. CASE n < Len(files)
  BY <1>1, ExceptSeq DEF PutFile
<1>2. CASE ~(n < Len(files))
  BY <1>2 DEF PutFile
<1> QED
  BY <1>1, <1>2

---------------------------------------------------------------------------
(***************************************************************************)
(* The type invariant.                                                     *)
(***************************************************************************)
LEMMA CallFields ==
    ASSUME TypeOK, NEW c \in Callers, Running(c)
    PROVE  /\ call[c] \in [pc: Steps, t: Tables, file: WholeFile, n: Nat,
                           commitment: Seq(Batches)]
           /\ call[c].pc \in Steps /\ call[c].t \in Tables
           /\ call[c].file \in WholeFile /\ call[c].file.batch \in Batches
           /\ call[c].n \in Nat /\ call[c].commitment \in Seq(Batches)
BY DEF TypeOK, Running, Call, WholeFile

\* What a table is made of.
LEMMA DirFields ==
    ASSUME TypeOK, NEW t \in Tables
    PROVE  /\ disk[t].dir \in BOOLEAN
           /\ disk[t].files \in Seq(WholeFile \cup {Torn})
           /\ disk[t].commit \in Seq(Batches) \cup {Torn, Missing}
BY DEF TypeOK, TableDir

\* A call that is returned, or goes on to a step, is a call.
LEMMA ReturnType ==
    ASSUME TypeOK, NEW c \in Callers, NEW r \in Results, Return(c, r)
    PROVE  call' \in [Callers -> Call]
BY DEF TypeOK, Return, Returned, Call

\* And a call that goes on to its next step.
LEMMA AdvanceType ==
    ASSUME TypeOK, NEW c \in Callers, Running(c), NEW step \in Steps,
           Advance(c, step)
    PROVE  call' \in [Callers -> Call]
<1>1. [call[c] EXCEPT !.pc = step] \in Call
  BY CallFields DEF Call
<1> QED
  BY <1>1 DEF TypeOK, Advance

\* And one that begins.
LEMMA BeginType ==
    ASSUME TypeOK, NEW c \in Callers, NEW step \in Steps, NEW t \in Tables,
           NEW file \in WholeFile, NEW n \in Nat,
           NEW commitment \in Seq(Batches),
           Begin(c, step, t, file, n, commitment)
    PROVE  call' \in [Callers -> Call]
BY DEF TypeOK, Begin, Call

\* And one that fails, which leaves the disk alone.
LEMMA FailType ==
    ASSUME TypeOK, NEW c \in Callers, NEW r \in Results, Fail(c, r)
    PROVE  /\ call' \in [Callers -> Call] /\ interrupted' \subseteq Tables
           /\ UNCHANGED <<disk, powers, acked>>
BY ReturnType DEF TypeOK, Fail

\* In the initial states.
LEMMA TypeInit == Init => TypeOK
<1> SUFFICES ASSUME Init PROVE TypeOK
  OBVIOUS
<1>1. NoDir \in TableDir
  BY DEF NoDir, TableDir
<1> QED
  BY <1>1, DbAssumption DEF Init, TypeOK, Call, Returned, Results

\* After every step.
LEMMA TypeStep == TypeOK /\ [Next]_vars => TypeOK'
<1> SUFFICES ASSUME TypeOK, [Next]_vars PROVE TypeOK'
  OBVIOUS
<1>1. ASSUME NEW c \in Callers, NEW t \in Tables, NEW s \in Schemas,
             CreateTable(c, t, s)
      PROVE  TypeOK'
  <2>1. [schema |-> s, batch |-> <<>>] \in WholeFile /\ <<>> \in Seq(Batches)
    BY DbAssumption DEF WholeFile
  <2>2. call' \in [Callers -> Call]
    BY <1>1, <2>1, ReturnType, BeginType DEF CreateTable, Steps, Results
  <2> QED
    BY <1>1, <2>2 DEF CreateTable, TypeOK
<1>2. ASSUME NEW c \in Callers, NEW t \in Tables, NEW s \in Schemas,
             NEW b \in Batches, Insert(c, t, s, b)
      PROVE  TypeOK'
  <2>1. [schema |-> s, batch |-> b] \in WholeFile /\ Len(disk[t].files) \in Nat
    BY DirFields, LenProperties DEF WholeFile
  <2>2. InsertError(disk[t], s) \in Results
    BY DEF InsertError, SchemaError, CommitmentError, Results
  <2>3. InsertError(disk[t], s) = "Ok" => disk[t].commit \in Seq(Batches)
    BY DirFields DEF InsertError, SchemaError, CommitmentError
  <2>4. call' \in [Callers -> Call]
    BY <1>2, <2>1, <2>2, <2>3, ReturnType, BeginType DEF Insert, Steps
  <2> QED
    BY <1>2, <2>4 DEF Insert, TypeOK
<1>3. ASSUME NEW c \in Callers, MakeDir(c) PROVE TypeOK'
  <2>1. Running(c)
    BY <1>3 DEF MakeDir, Running
  <2>2. call' \in [Callers -> Call]
    BY <1>3, <2>1, AdvanceType DEF MakeDir, Steps
  <2>3. disk' \in [Tables -> TableDir]
    BY <1>3 DEF MakeDir, TypeOK, TableDir
  <2> QED
    BY <1>3, <2>2, <2>3 DEF MakeDir, TypeOK
<1>4. ASSUME NEW c \in Callers, OpenBatch(c) PROVE TypeOK'
  <2>1. Running(c)
    BY <1>4 DEF OpenBatch, Running
  <2>2. call' \in [Callers -> Call]
    BY <1>4, <2>1, AdvanceType DEF OpenBatch, Steps
  <2>3. PutFile(disk[call[c].t].files, call[c].n, Torn)
          \in Seq(WholeFile \cup {Torn})
    BY <2>1, CallFields, DirFields, PutFileType
  <2>4. disk' \in [Tables -> TableDir]
    BY <1>4, <2>3 DEF OpenBatch, TypeOK, TableDir
  <2> QED
    BY <1>4, <2>2, <2>4 DEF OpenBatch, TypeOK
<1>5. ASSUME NEW c \in Callers, WriteBatch(c) PROVE TypeOK'
  <2>1. Running(c)
    BY <1>5 DEF WriteBatch, Running
  <2>2. call' \in [Callers -> Call]
    BY <1>5, <2>1, AdvanceType DEF WriteBatch, Steps
  <2>3. PutFile(disk[call[c].t].files, call[c].n, call[c].file)
          \in Seq(WholeFile \cup {Torn})
    BY <2>1, CallFields, DirFields, PutFileType
  <2>4. disk' \in [Tables -> TableDir]
    BY <1>5, <2>3 DEF WriteBatch, TypeOK, TableDir
  <2> QED
    BY <1>5, <2>2, <2>4 DEF WriteBatch, TypeOK
<1>6. ASSUME NEW c \in Callers, ExtendCommitment(c) PROVE TypeOK'
  <2>1. Running(c)
    BY <1>6 DEF ExtendCommitment, Running
  <2>2. Append(call[c].commitment, call[c].file.batch) \in Seq(Batches)
    BY <2>1, CallFields
  <2>3. [call[c] EXCEPT !.pc = "store",
                        !.commitment = Append(@, call[c].file.batch)] \in Call
    BY <2>1, <2>2, CallFields DEF Call, Steps
  <2>4. call' \in [Callers -> Call]
    BY <1>6, <2>3 DEF ExtendCommitment, TypeOK
  <2>5. disk' \in [Tables -> TableDir]
    BY <1>6 DEF ExtendCommitment, TypeOK, TableDir
  <2> QED
    BY <1>6, <2>4, <2>5 DEF ExtendCommitment, TypeOK
<1>7. ASSUME NEW c \in Callers, StoreCommitment(c) PROVE TypeOK'
  <2>1. Running(c)
    BY <1>7 DEF StoreCommitment, Running
  <2>2. call' \in [Callers -> Call]
    BY <1>7, ReturnType DEF StoreCommitment, Results
  <2>3. disk' \in [Tables -> TableDir]
    BY <1>7, <2>1, CallFields DEF StoreCommitment, TypeOK, TableDir
  <2>4. acked' \in [Tables -> Seq(Batches)]
    BY <1>7, <2>1, CallFields DEF StoreCommitment, TypeOK
  <2> QED
    BY <1>7, <2>2, <2>3, <2>4 DEF StoreCommitment, TypeOK
<1>8. ASSUME NEW c \in Callers, RejectBatch(c) PROVE TypeOK'
  BY <1>8, FailType DEF RejectBatch, TypeOK, Results
<1>9. ASSUME NEW c \in Callers, FileError(c) PROVE TypeOK'
  <2>1. faults' \in 0 .. MaxFaults
    BY <1>9, DbAssumption DEF FileError, TypeOK
  <2> QED
    BY <1>9, <2>1, FailType DEF FileError, TypeOK, Results
<1>10. CASE Restart
  <2>1. faults' \in 0 .. MaxFaults
    BY <1>10, DbAssumption DEF Restart, TypeOK
  <2>2. call' \in [Callers -> Call]
    BY <1>10 DEF Restart, Returned, Call, Results
  <2> QED
    BY <1>10, <2>1, <2>2 DEF Restart, TypeOK
<1>11. CASE UNCHANGED vars
  BY <1>11 DEF vars, TypeOK
<1> QED
  BY <1>1, <1>2, <1>3, <1>4, <1>5, <1>6, <1>7, <1>8, <1>9, <1>10, <1>11
  DEF Next, Write

(***************************************************************************)
(* Every variable keeps its type, for all constants.                       *)
(***************************************************************************)
THEOREM TypeCorrect == Spec => []TypeOK
BY TypeInit, TypeStep, PTL DEF Spec

---------------------------------------------------------------------------
(***************************************************************************)
(* The inductive invariant, one lemma per kind of step.                    *)
(***************************************************************************)

\* Writing file n, which is the last one or the next one, leaves the files
\* before it alone.
LEMMA PutFileEffect ==
    ASSUME NEW S, NEW files \in Seq(S), NEW n \in Nat, NEW x \in S,
           Len(files) \in {n, n + 1}
    PROVE  /\ Len(PutFile(files, n, x)) = n + 1
           /\ PutFile(files, n, x)[n + 1] = x
           /\ \A k \in 1 .. n : PutFile(files, n, x)[k] = files[k]
<1>1. CASE Len(files) = n
  BY <1>1, AppendProperties DEF PutFile
<1>2. CASE Len(files) = n + 1
  BY <1>2, ExceptSeq DEF PutFile
<1> QED
  BY <1>1, <1>2

\* Batches that are found stay found while the files they are found among
\* stay, and one more is found once it has a whole file after them.
LEMMA FoundNone ==
    ASSUME NEW files, NEW n \in Nat
    PROVE  FoundIn(<<>>, files, n)
<1>1. Len(<<>>) = 0 /\ <<>> \in [1 .. 0 -> 1 .. n]
  OBVIOUS
<1>2. \A i \in 1 .. 0 : FALSE
  OBVIOUS
<1> QED
  BY <1>1, <1>2, Zenon DEF FoundIn

\* They are found among more files that begin the same.
LEMMA FoundStill ==
    ASSUME NEW u \in Seq(Batches), NEW files, NEW more, NEW n \in Nat, NEW m \in Nat,
           n <= m, \A k \in 1 .. n : more[k] = files[k],
           FoundIn(u, files, n)
    PROVE  FoundIn(u, more, m)
<1>1. PICK at \in [1 .. Len(u) -> 1 .. n] :
         /\ \A i, j \in 1 .. Len(u) : i < j => at[i] < at[j]
         /\ \A i \in 1 .. Len(u) : files[at[i]] # Torn /\ files[at[i]].batch = u[i]
  BY DEF FoundIn
<1>2. at \in [1 .. Len(u) -> 1 .. m]
  BY <1>1
<1>3. \A i \in 1 .. Len(u) : more[at[i]] # Torn /\ more[at[i]].batch = u[i]
  BY <1>1
<1> QED
  BY <1>1, <1>2, <1>3 DEF FoundIn

\* With one whole file after them, one more batch is found.
LEMMA FoundNext ==
    ASSUME NEW u \in Seq(Batches), NEW b \in Batches, NEW files, NEW n \in Nat,
           FoundIn(u, files, n),
           files[n + 1] # Torn, files[n + 1].batch = b
    PROVE  FoundIn(Append(u, b), files, n + 1)
<1> DEFINE v == Append(u, b)
           l == Len(u)
<1>1. PICK at \in [1 .. l -> 1 .. n] :
         /\ \A i, j \in 1 .. l : i < j => at[i] < at[j]
         /\ \A i \in 1 .. l : files[at[i]] # Torn /\ files[at[i]].batch = u[i]
  BY DEF FoundIn
<1>2. /\ l \in Nat /\ Len(v) = l + 1 /\ v[l + 1] = b
      /\ \A i \in 1 .. l : v[i] = u[i]
  BY AppendProperties, LenProperties
<1> HIDE DEF v, l
<1> DEFINE to == [i \in 1 .. l + 1 |-> IF i = l + 1 THEN n + 1 ELSE at[i]]
<1>3. to \in [1 .. Len(v) -> 1 .. n + 1]
  BY <1>1, <1>2
<1>4. \A i, j \in 1 .. Len(v) : i < j => to[i] < to[j]
  BY <1>1, <1>2
<1>5. \A i \in 1 .. Len(v) : files[to[i]] # Torn /\ files[to[i]].batch = v[i]
  <2> SUFFICES ASSUME NEW i \in 1 .. l + 1
               PROVE  files[to[i]] # Torn /\ files[to[i]].batch = v[i]
    BY <1>2
  <2>1. CASE i = l + 1
    BY <2>1, <1>2
  <2>2. CASE i \in 1 .. l
    BY <2>2, <1>1, <1>2
  <2> QED
    BY <2>1, <2>2, <1>2
<1> HIDE DEF to
<1> QED
  BY <1>3, <1>4, <1>5 DEF FoundIn, v

\* While a call runs, it is the only one.
LEMMA Alone ==
    ASSUME Exclusive, NEW c \in Callers, Running(c)
    PROVE  \A e \in Callers : Running(e) => e = c
BY DEF Exclusive

\* In the initial states there is nothing.
LEMMA InitInv == Init => Inv
<1> SUFFICES ASSUME Init PROVE Inv
  OBVIOUS
<1>1. \A c \in Callers : ~Running(c)
  BY DEF Init, Running, Returned
<1>2. \A t \in Tables : disk[t] = NoDir /\ acked[t] = <<>>
  BY DEF Init
<1>3. Exclusive /\ InProgress
  BY <1>1 DEF Exclusive, InProgress
<1>4. NothingWithoutDir
  BY <1>2 DEF NothingWithoutDir
<1>5. CommitIsAcked
  BY <1>2 DEF CommitIsAcked, Readable, NoDir
<1>6. Undisturbed
  BY <1>2 DEF Undisturbed, Intact, NoDir
<1>7. AckedSurvives
  BY <1>2, FoundNone DEF AckedSurvives, NoDir
<1> QED
  BY <1>3, <1>4, <1>5, <1>6, <1>7 DEF Inv

---------------------------------------------------------------------------
(***************************************************************************)
(* A call begins: nothing on disk changes, and nobody else runs.           *)
(***************************************************************************)
LEMMA BeginInv ==
    ASSUME Inv, Quiet, NEW c \in Callers,
           UNCHANGED <<disk, acked, interrupted>>,
           \A e \in Callers \ {c} : call'[e] = call[e],
           Running(c)' => StillTrue(c)'
    PROVE  Inv'
<1>1. \A u \in Tables : Settled(u)
  BY DEF Settled, Quiet
<1>2. \A e \in Callers : Running(e)' => e = c
  BY DEF Running, Quiet
<1>3. Exclusive'
  BY <1>2 DEF Exclusive
<1>4. InProgress'
  BY <1>2 DEF InProgress
<1>5. Undisturbed'
  BY <1>1 DEF Inv, Undisturbed, Intact
<1>6. NothingWithoutDir' /\ CommitIsAcked' /\ AckedSurvives'
  BY DEF Inv, NothingWithoutDir, CommitIsAcked, Readable, AckedSurvives, FoundIn
<1> QED
  BY <1>3, <1>4, <1>5, <1>6 DEF Inv

\* create_table finds no directory when it begins.
LEMMA CreateTableInv ==
    ASSUME TypeOK, Inv, Quiet, NEW c \in Callers, NEW t \in Tables,
           NEW s \in Schemas, CreateTable(c, t, s)
    PROVE  Inv'
<1>1. UNCHANGED <<disk, acked, interrupted>>
  BY DEF CreateTable
<1>2. \A e \in Callers \ {c} : call'[e] = call[e]
  BY DEF CreateTable, Return, Begin, TypeOK
<1>3. Running(c)' => /\ ~disk[t].dir
                     /\ call'[c].pc = "mkdir" /\ call'[c].t = t
                     /\ call'[c].n = 0 /\ call'[c].commitment = <<>>
  BY DEF CreateTable, Return, Returned, Begin, TypeOK, Running
<1>4. Running(c)' => acked[t] = <<>>
  BY <1>3 DEF Inv, NothingWithoutDir
<1>5. FoundIn(<<>>, disk[t].files, 0)
  BY FoundNone
<1>6. Running(c)' => StillTrue(c)'
  BY <1>1, <1>3, <1>4, <1>5 DEF StillTrue
<1> QED
  BY <1>1, <1>2, <1>6, BeginInv

\* insert reads the number of files and the commitment when it begins.
LEMMA InsertInv ==
    ASSUME TypeOK, Inv, Quiet, NEW c \in Callers, NEW t \in Tables,
           NEW s \in Schemas, NEW b \in Batches, Insert(c, t, s, b)
    PROVE  Inv'
<1>1. UNCHANGED <<disk, acked, interrupted>>
  BY DEF Insert
<1>2. \A e \in Callers \ {c} : call'[e] = call[e]
  BY DEF Insert, Return, Begin, TypeOK
<1>3. Running(c)' => /\ InsertError(disk[t], s) = "Ok"
                     /\ call'[c].pc = "open" /\ call'[c].t = t
                     /\ call'[c].n = Len(disk[t].files)
                     /\ call'[c].commitment = disk[t].commit
  BY DEF Insert, Return, Returned, Begin, TypeOK, Running
<1>4. InsertError(disk[t], s) = "Ok" => disk[t].dir /\ Readable(disk[t])
  BY DEF InsertError, SchemaError, CommitmentError, Readable
<1>5. Running(c)' => disk[t].commit = acked[t]
  BY <1>3, <1>4 DEF Inv, CommitIsAcked
<1>6. Settled(t)
  BY DEF Quiet, Settled
<1>7. Running(c)' /\ t \notin interrupted => Len(disk[t].files) = Len(acked[t])
  BY <1>3, <1>4, <1>6 DEF Inv, Undisturbed, Intact
<1>8. FoundIn(acked[t], disk[t].files, Len(disk[t].files))
  BY DEF Inv, AckedSurvives
<1>9. Running(c)' => StillTrue(c)'
  BY <1>1, <1>3, <1>4, <1>5, <1>7, <1>8 DEF StillTrue
<1> QED
  BY <1>1, <1>2, <1>9, BeginInv

---------------------------------------------------------------------------
(***************************************************************************)
(* A running call changes its own table, and no other call runs.           *)
(***************************************************************************)
LEMMA OwnTableInv ==
    ASSUME Inv, NEW c \in Callers, Running(c),
           NEW t \in Tables, t = call[c].t,
           \A e \in Callers \ {c} : call'[e] = call[e],
           \A u \in Tables \ {t} : disk'[u] = disk[u] /\ acked'[u] = acked[u],
           UNCHANGED interrupted,
           disk'[t].dir,
           Readable(disk'[t]) => disk'[t].commit = acked'[t],
           FoundIn(acked'[t], disk'[t].files, Len(disk'[t].files)),
           t \notin interrupted => Intact(t)',
           Running(c)' => StillTrue(c)'
    PROVE  Inv'
<1>1. \A e \in Callers : Running(e)' => e = c
  BY Alone DEF Inv, Running
<1>2. Exclusive'
  BY <1>1 DEF Exclusive
<1>3. InProgress'
  BY <1>1 DEF InProgress
<1>4. NothingWithoutDir'
  BY DEF Inv, NothingWithoutDir
<1>5. CommitIsAcked'
  BY DEF Inv, CommitIsAcked, Readable
<1>6. ASSUME NEW u \in Tables \ interrupted, u # t PROVE Intact(u)'
  <2>1. Settled(u)
    BY <1>6, Alone DEF Inv, Settled
  <2> QED
    BY <1>6, <2>1 DEF Inv, Undisturbed, Intact
<1>7. Undisturbed'
  BY <1>6 DEF Undisturbed
<1>8. ASSUME NEW u \in Tables
      PROVE  FoundIn(acked'[u], disk'[u].files, Len(disk'[u].files))
  <2>1. CASE u = t
    BY <2>1
  <2>2. CASE u # t
    BY <2>2 DEF Inv, AckedSurvives
  <2> QED
    BY <2>1, <2>2
<1>9. AckedSurvives'
  BY <1>8 DEF AckedSurvives
<1> QED
  BY <1>2, <1>3, <1>4, <1>5, <1>7, <1>9 DEF Inv

\* What a step of a running call may use of it and of its table.
LEMMA BeforeStep ==
    ASSUME TypeOK, Inv, NEW c \in Callers, Running(c)
    PROVE  /\ call[c].t \in Tables /\ call[c].n \in Nat
           /\ call[c].file \in WholeFile
           /\ disk[call[c].t].files \in Seq(WholeFile \cup {Torn})
           /\ acked[call[c].t] \in Seq(Batches)
           /\ StillTrue(c)
           /\ call[c].t \notin interrupted => Intact(call[c].t)
BY CallFields, DirFields DEF Inv, InProgress, Undisturbed, TypeOK

\* The directory is made: the table has no files yet.
LEMMA MakeDirInv ==
    ASSUME TypeOK, Inv, NEW c \in Callers, MakeDir(c)
    PROVE  Inv'
<1>1. Running(c) /\ call[c].pc = "mkdir"
  BY DEF MakeDir, Running
<1>2. PICK t \in Tables : t = call[c].t
  BY <1>1, BeforeStep
<1>3. ~disk[t].dir /\ call[c].n = 0 /\ call[c].commitment = acked[t]
  BY <1>1, <1>2, BeforeStep DEF StillTrue
<1>4. disk[t].files = <<>> /\ disk[t].commit = Missing /\ acked[t] = <<>>
  BY <1>3 DEF Inv, NothingWithoutDir, NoDir
<1>5. disk'[t] = [disk[t] EXCEPT !.dir = TRUE]
  BY <1>2 DEF MakeDir, TypeOK
<1>6. disk'[t].dir /\ disk'[t].files = <<>> /\ disk'[t].commit = Missing
  BY <1>4, <1>5 DEF TypeOK, TableDir
<1>7. /\ \A u \in Tables \ {t} : disk'[u] = disk[u]
      /\ \A e \in Callers \ {c} : call'[e] = call[e]
      /\ UNCHANGED <<acked, interrupted>>
  BY <1>2 DEF MakeDir, Advance, TypeOK
<1>8. /\ call'[c].pc = "open" /\ call'[c].t = t /\ call'[c].n = 0
      /\ call'[c].commitment = acked[t]
  <2>1. call'[c] = [call[c] EXCEPT !.pc = "open"]
    BY DEF MakeDir, Advance, TypeOK
  <2> QED
    BY <1>1, <1>2, <1>3, <2>1, CallFields
<1>9. StillTrue(c)' /\ FoundIn(acked'[t], disk'[t].files, Len(disk'[t].files))
  BY <1>4, <1>6, <1>7, <1>8, FoundNone DEF StillTrue
<1>10. ~Settled(t)'
  BY <1>8 DEF Settled, Dirty, Running
<1>11. Intact(t)'
  BY <1>4, <1>6, <1>7, <1>10 DEF Intact
<1> QED
  BY <1>1, <1>2, <1>6, <1>7, <1>9, <1>11, OwnTableInv DEF Readable

\* The step creates the new file, or fills it: nothing before it changes.
LEMMA PutStep ==
    ASSUME TypeOK, Inv, NEW c \in Callers, Running(c),
           NEW t \in Tables, t = call[c].t,
           NEW content \in WholeFile \cup {Torn},
           NEW pc \in {"write", "extend"},
           \/ call[c].pc = "open" /\ pc = "write" /\ content = Torn
           \/ call[c].pc = "write" /\ pc = "extend" /\ content = call[c].file,
           disk' = [disk EXCEPT ![t].files = PutFile(@, call[c].n, content)],
           Advance(c, pc),
           UNCHANGED <<acked, interrupted>>
    PROVE  Inv'
<1> DEFINE n == call[c].n
<1>1. n \in Nat /\ disk[t].dir /\ disk[t].files \in Seq(WholeFile \cup {Torn})
  BY BeforeStep DEF StillTrue
<1>2. Len(disk[t].files) \in {n, n + 1}
  BY BeforeStep DEF StillTrue
<1>3. disk'[t] = [disk[t] EXCEPT !.files = PutFile(@, n, content)]
  BY DEF TypeOK
<1>4. /\ disk'[t].dir
      /\ disk'[t].commit = disk[t].commit
      /\ disk'[t].files = PutFile(disk[t].files, n, content)
  BY <1>1, <1>3 DEF TypeOK, TableDir
<1>5. /\ Len(disk'[t].files) = n + 1
      /\ disk'[t].files[n + 1] = content
      /\ \A k \in 1 .. n : disk'[t].files[k] = disk[t].files[k]
  <2> DEFINE S == WholeFile \cup {Torn}
  <2> HIDE DEF S, n
  <2>1. /\ disk[t].files \in Seq(S) /\ n \in Nat /\ content \in S
        /\ Len(disk[t].files) \in {n, n + 1}
    BY <1>1, <1>2 DEF S
  <2> QED
    BY <1>4, <2>1, PutFileEffect
<1>6. /\ call'[c].pc = pc /\ call'[c].t = t /\ call'[c].n = n
      /\ call'[c].file = call[c].file
      /\ call'[c].commitment = call[c].commitment
      /\ call[c].commitment = acked[t]
      /\ t \notin interrupted => n = Len(acked[t])
  <2>1. call'[c] = [call[c] EXCEPT !.pc = pc]
    BY DEF Advance, TypeOK
  <2> QED
    BY <2>1, CallFields, BeforeStep DEF StillTrue
<1>7. /\ FoundIn(acked'[t], disk'[t].files, n)
      /\ FoundIn(acked'[t], disk'[t].files, Len(disk'[t].files))
  <2>1. acked[t] \in Seq(Batches) /\ FoundIn(acked[t], disk[t].files, n)
    BY BeforeStep DEF StillTrue
  <2> DEFINE old == disk[t].files
             new == disk'[t].files
             u   == acked[t]
  <2> HIDE DEF old, new, u
  <2>2. /\ u \in Seq(Batches) /\ n \in Nat /\ n + 1 \in Nat /\ n <= n + 1
        /\ \A k \in 1 .. n : new[k] = old[k]
        /\ FoundIn(u, old, n)
    BY <1>1, <1>5, <2>1 DEF old, new, u
  <2> HIDE DEF n
  <2>3. FoundIn(u, new, n) /\ FoundIn(u, new, n + 1)
    BY <2>2, FoundStill
  <2> QED
    BY <1>5, <2>3 DEF new, u
<1>8. StillTrue(c)'
  BY <1>1, <1>4, <1>5, <1>6, <1>7 DEF StillTrue
<1>9. ~Settled(t)'
  BY <1>6 DEF Settled, Dirty, Running
<1>10. ASSUME t \notin interrupted PROVE Intact(t)'
  <2>1. Intact(t) /\ n = Len(acked[t])
    BY <1>6, <1>10, BeforeStep
  <2> QED
    BY <1>1, <1>5, <1>9, <2>1 DEF Intact
<1>11. Readable(disk'[t]) => disk'[t].commit = acked'[t]
  BY <1>4 DEF Inv, CommitIsAcked, Readable
<1>12. /\ \A u \in Tables \ {t} : disk'[u] = disk[u]
       /\ \A e \in Callers \ {c} : call'[e] = call[e]
  BY DEF Advance, TypeOK
<1> QED
  BY <1>4, <1>7, <1>10, <1>11, <1>12, <1>8, OwnTableInv

\* The new file is created, and is torn until it is written.
LEMMA OpenBatchInv ==
    ASSUME TypeOK, Inv, NEW c \in Callers, OpenBatch(c)
    PROVE  Inv'
<1>1. Running(c) /\ call[c].pc = "open"
  BY DEF OpenBatch, Running
<1>2. PICK t \in Tables : t = call[c].t
  BY <1>1, BeforeStep
<1> QED
  BY <1>1, <1>2, PutStep DEF OpenBatch

\* The new file is whole.
LEMMA WriteBatchInv ==
    ASSUME TypeOK, Inv, NEW c \in Callers, WriteBatch(c)
    PROVE  Inv'
<1>1. Running(c) /\ call[c].pc = "write"
  BY DEF WriteBatch, Running
<1>2. PICK t \in Tables : t = call[c].t
  BY <1>1, BeforeStep
<1>3. call[c].file \in WholeFile \cup {Torn}
  BY <1>1, BeforeStep
<1> QED
  BY <1>1, <1>2, <1>3, PutStep DEF WriteBatch

\* The commitment is torn until the extended one is written.
LEMMA ExtendCommitmentInv ==
    ASSUME TypeOK, Inv, NEW c \in Callers, ExtendCommitment(c)
    PROVE  Inv'
<1>1. Running(c) /\ call[c].pc = "extend"
  BY DEF ExtendCommitment, Running
<1>2. PICK t \in Tables : t = call[c].t
  BY <1>1, BeforeStep
<1>3. StillTrue(c) /\ disk[t].dir
  BY <1>1, <1>2, BeforeStep DEF StillTrue
<1>4. disk'[t] = [disk[t] EXCEPT !.commit = Torn]
  BY <1>2 DEF ExtendCommitment, TypeOK
<1>5. disk'[t].dir /\ disk'[t].files = disk[t].files /\ disk'[t].commit = Torn
  BY <1>3, <1>4 DEF TypeOK, TableDir
<1>6. /\ call'[c].pc = "store" /\ call'[c].t = t /\ call'[c].n = call[c].n
      /\ call'[c].file = call[c].file
      /\ call'[c].commitment = Append(call[c].commitment, call[c].file.batch)
  <2>1. call'[c] = [call[c] EXCEPT !.pc = "store",
                                   !.commitment = Append(@, call[c].file.batch)]
    BY DEF ExtendCommitment, TypeOK
  <2> QED
    BY <1>1, <1>2, <2>1, CallFields
<1>7. /\ \A u \in Tables \ {t} : disk'[u] = disk[u]
      /\ \A e \in Callers \ {c} : call'[e] = call[e]
      /\ UNCHANGED <<acked, interrupted>>
  BY <1>2 DEF ExtendCommitment, TypeOK
<1>8. /\ FoundIn(acked'[t], disk'[t].files, Len(disk'[t].files))
      /\ FoundIn(acked'[t], disk'[t].files, call[c].n)
  BY <1>2, <1>3, <1>5, <1>7 DEF StillTrue, Inv, AckedSurvives
<1>9. StillTrue(c)'
  BY <1>1, <1>2, <1>3, <1>5, <1>6, <1>7, <1>8 DEF StillTrue
<1>10. ~Settled(t)'
  BY <1>6 DEF Settled, Dirty, Running
<1>11. t \notin interrupted => Intact(t)'
  BY <1>1, <1>2, <1>5, <1>7, <1>10, BeforeStep DEF Intact
<1> QED
  BY <1>1, <1>2, <1>5, <1>7, <1>8, <1>11, <1>9, OwnTableInv DEF Readable

\* The commitment is of the acknowledged batches again, with one more.
LEMMA StoreCommitmentInv ==
    ASSUME TypeOK, Inv, NEW c \in Callers, StoreCommitment(c)
    PROVE  Inv'
<1>1. Running(c) /\ call[c].pc = "store"
  BY DEF StoreCommitment, Running
<1>2. PICK t \in Tables : t = call[c].t
  BY <1>1, BeforeStep
<1> DEFINE batch == call[c].file.batch
           n == call[c].n
<1>3. /\ disk[t].dir /\ n \in Nat /\ Len(disk[t].files) = n + 1
      /\ disk[t].files[n + 1] = call[c].file
      /\ call[c].commitment = Append(acked[t], batch)
      /\ t \notin interrupted => n = Len(acked[t])
  BY <1>1, <1>2, BeforeStep DEF StillTrue
<1>4. disk'[t] = [disk[t] EXCEPT !.commit = call[c].commitment]
  BY <1>2 DEF StoreCommitment, TypeOK
<1>5. /\ disk'[t].dir /\ disk'[t].files = disk[t].files
      /\ disk'[t].commit = call[c].commitment
  BY <1>3, <1>4 DEF TypeOK, TableDir
<1>6. acked'[t] = Append(acked[t], batch)
  BY <1>2 DEF StoreCommitment, TypeOK
<1>7. /\ \A u \in Tables \ {t} : disk'[u] = disk[u] /\ acked'[u] = acked[u]
      /\ \A e \in Callers \ {c} : call'[e] = call[e]
      /\ UNCHANGED interrupted
      /\ ~Running(c)'
  BY <1>2 DEF StoreCommitment, TypeOK, Return, Returned, Running
<1>8. acked[t] \in Seq(Batches) /\ batch \in Batches /\ call[c].file \in WholeFile
  BY <1>1, <1>2, CallFields DEF TypeOK
<1>9. /\ Len(acked'[t]) = Len(acked[t]) + 1
      /\ acked'[t][Len(acked[t]) + 1] = batch
      /\ \A k \in 1 .. Len(acked[t]) : acked'[t][k] = acked[t][k]
      /\ acked'[t] # <<>>
  BY <1>6, <1>8, AppendProperties
<1>10. call[c].file # Torn
  BY <1>8, DbAssumption DEF WholeFile
<1>11. FoundIn(acked'[t], disk'[t].files, Len(disk'[t].files))
  <2>1. FoundIn(acked[t], disk[t].files, n)
    BY <1>1, <1>2, BeforeStep DEF StillTrue
  <2> QED
    BY <2>1, <1>3, <1>5, <1>6, <1>8, <1>10, FoundNext
<1>12. ASSUME t \notin interrupted PROVE Intact(t)'
  <2>1. Intact(t) /\ n = Len(acked[t])
    BY <1>1, <1>2, <1>3, <1>12, BeforeStep
  <2>3. ASSUME NEW k \in 1 .. Len(acked'[t])
        PROVE  disk'[t].files[k] # Torn /\ disk'[t].files[k].batch = acked'[t][k]
    <3>1. CASE k \in 1 .. Len(acked[t])
      BY <3>1, <2>1, <1>5, <1>9 DEF Intact
    <3>2. CASE k = Len(acked[t]) + 1
      BY <3>2, <2>1, <1>10, <1>3, <1>5, <1>9
    <3> QED
      BY <3>1, <3>2, <1>8, <1>9, LenProperties
  <2> QED
    BY <1>3, <1>5, <1>6, <1>9, <2>1, <2>3 DEF Intact
<1> QED
  BY <1>1, <1>2, <1>3, <1>5, <1>6, <1>7, <1>12, <1>11, OwnTableInv

---------------------------------------------------------------------------
(***************************************************************************)
(* Failures and restarts change no table, and mark the ones a call had     *)
(* changed; every other table was settled.                                 *)
(***************************************************************************)
LEMMA GiveUpInv ==
    ASSUME TypeOK, Inv,
           UNCHANGED <<disk, acked>>,
           interrupted \subseteq interrupted',
           \A e \in Callers : ~Running(e)',
           \A u \in Tables \ interrupted' : Settled(u)
    PROVE  Inv'
<1>1. Exclusive' /\ InProgress'
  BY DEF Exclusive, InProgress
<1>2. NothingWithoutDir' /\ CommitIsAcked' /\ AckedSurvives'
  BY DEF Inv, NothingWithoutDir, CommitIsAcked, Readable, AckedSurvives, FoundIn
<1>3. Undisturbed'
  BY DEF Inv, Undisturbed, Intact
<1> QED
  BY <1>1, <1>2, <1>3 DEF Inv

\* A call fails: its table is interrupted if it was changed.
LEMMA FailInv ==
    ASSUME TypeOK, Inv, NEW c \in Callers, Running(c), NEW r, Fail(c, r)
    PROVE  Inv'
<1>1. \A e \in Callers : ~Running(e)'
  BY Alone DEF Inv, Fail, Return, Returned, Running, TypeOK
<1>2. ASSUME NEW u \in Tables \ interrupted' PROVE Settled(u)
  BY <1>2, Alone DEF Inv, Fail, Settled
<1> QED
  BY <1>1, <1>2, GiveUpInv DEF Fail

\* The process is killed: so are the tables that were being changed.
LEMMA RestartInv ==
    ASSUME TypeOK, Inv, Restart
    PROVE  Inv'
<1>1. \A e \in Callers : ~Running(e)'
  BY DEF Restart, Returned, Running
<1>2. ASSUME NEW u \in Tables \ interrupted' PROVE Settled(u)
  BY <1>2 DEF Restart, Settled
<1> QED
  BY <1>1, <1>2, GiveUpInv DEF Restart

---------------------------------------------------------------------------
\* Every step keeps the invariant.
LEMMA NextInv == TypeOK /\ Inv /\ [Next]_vars => Inv'
<1> SUFFICES ASSUME TypeOK, Inv, [Next]_vars PROVE Inv'
  OBVIOUS
<1>1. CASE Quiet /\ \E c \in Callers, t \in Tables, s \in Schemas :
                       \/ CreateTable(c, t, s)
                       \/ \E b \in Batches : Insert(c, t, s, b)
  BY <1>1, CreateTableInv, InsertInv
<1>2. ASSUME NEW c \in Callers, Write(c) PROVE Inv'
  <2>1. CASE RejectBatch(c)
    BY <2>1, FailInv DEF RejectBatch, Running
  <2> QED
    BY <1>2, <2>1, MakeDirInv, OpenBatchInv, WriteBatchInv, ExtendCommitmentInv,
       StoreCommitmentInv DEF Write
<1>3. ASSUME NEW c \in Callers, FileError(c) PROVE Inv'
  BY <1>3, FailInv DEF FileError
<1>4. CASE Restart
  BY <1>4, RestartInv
<1>5. CASE UNCHANGED vars
  BY <1>5 DEF vars, Inv, Exclusive, NothingWithoutDir, InProgress, StillTrue,
              CommitIsAcked, Readable, AckedSurvives, FoundIn,
              Undisturbed, Intact, Settled, Running, Dirty
<1> QED
  BY <1>1, <1>2, <1>3, <1>4, <1>5 DEF Next

(***************************************************************************)
(* The invariant holds in every reachable state, for all constants.        *)
(***************************************************************************)
THEOREM Invariance == Spec => []Inv
<1>1. Init => Inv
  BY InitInv
<1>2. TypeOK /\ Inv /\ [Next]_vars => Inv'
  BY NextInv
<1> QED
  BY <1>1, <1>2, TypeCorrect, PTL DEF Spec

(***************************************************************************)
(* A readable commitment covers the acknowledged batches and nothing else, *)
(* whatever fails and however often the process is restarted.              *)
(***************************************************************************)
THEOREM CommitmentsAreAcknowledged == Spec => []CommitIsAcked
BY Invariance, PTL DEF Inv

(***************************************************************************)
(* Every acknowledged batch stays on disk, whole, once and in order.       *)
(***************************************************************************)
THEOREM AcknowledgedStay == Spec => []AckedSurvives
BY Invariance, PTL DEF Inv

\* The data of a table that can be read is its files' batches in some order.
LEMMA DataIsBatches ==
    ASSUME TypeOK, NEW t \in Tables, DataError(disk[t]) = "Ok"
    PROVE  /\ Len(disk[t].files) \in Nat /\ DataOf(disk[t]) \in Seq(Batches)
           /\ Len(DataOf(disk[t])) = Len(disk[t].files)
           /\ \A k \in 1 .. Len(disk[t].files) : disk[t].files[k] # Torn
<1> DEFINE n == Len(disk[t].files)
           order == ParquetOrder(n)
<1>1. n \in Nat /\ \A k \in 1 .. n : disk[t].files[k] \in WholeFile \cup {Torn}
  BY DirFields, LenProperties, ElementOfSeq
<1>2. \A k \in 1 .. n : disk[t].files[k] # Torn
  BY DEF DataError
<1>3. \A k \in 1 .. n : disk[t].files[k].batch \in Batches
  BY <1>1, <1>2 DEF WholeFile
<1>4. order \in [1 .. n -> 0 .. n-1]
  BY <1>1, OrderType
<1>5. DataOf(disk[t]) = [k \in 1 .. n |-> disk[t].files[order[k] + 1].batch]
  BY DEF DataOf
<1> HIDE DEF n, order
<1>6. \A k \in 1 .. n : order[k] + 1 \in 1 .. n
  BY <1>1, <1>4
<1>7. DataOf(disk[t]) \in [1 .. n -> Batches]
  BY <1>3, <1>5, <1>6
<1>8. DataOf(disk[t]) \in Seq(Batches) /\ Len(DataOf(disk[t])) = n
  BY <1>1, <1>7
<1> QED
  BY <1>1, <1>2, <1>8 DEF n

\* While the names' padding lasts, in the order of their numbers.
LEMMA DataInOrder ==
    ASSUME TypeOK, NEW t \in Tables, Len(disk[t].files) <= Padded
    PROVE  \A k \in 1 .. Len(disk[t].files) : DataOf(disk[t])[k] = disk[t].files[k].batch
<1> DEFINE n == Len(disk[t].files)
<1> SUFFICES ASSUME NEW k \in 1 .. n
             PROVE  DataOf(disk[t])[k] = disk[t].files[k].batch
  OBVIOUS
<1>1. n \in Nat
  BY DirFields, LenProperties
<1>2. ParquetOrder(n)[k] = k - 1
  BY <1>1, OrderInPadding
<1> QED
  BY <1>1, <1>2 DEF DataOf

\* In an undisturbed table the data, as the store reads it back, is the
\* acknowledged batches in their order, while the names' padding lasts.
LEMMA IntactData ==
    ASSUME TypeOK, NEW t \in Tables, Intact(t), disk[t].dir, Settled(t),
           Len(disk[t].files) <= Padded
    PROVE  /\ DataError(disk[t]) = "Ok"
           /\ Readable(disk[t])
           /\ disk[t].commit = DataOf(disk[t])
<1> DEFINE n == Len(disk[t].files)
<1>1. /\ n \in Nat /\ acked[t] \in Seq(Batches) /\ Len(acked[t]) = n
      /\ acked[t] # <<>> /\ disk[t].commit = acked[t]
      /\ \A k \in 1 .. n : /\ disk[t].files[k] # Torn
                           /\ disk[t].files[k].batch = acked[t][k]
  <2>1. n \in Nat /\ acked[t] \in Seq(Batches)
    BY DirFields, LenProperties DEF TypeOK
  <2>2. Len(acked[t]) = n /\ acked[t] # <<>> /\ disk[t].commit = acked[t]
    BY DEF Intact
  <2>3. \A k \in 1 .. Len(acked[t]) : /\ disk[t].files[k] # Torn
                                      /\ disk[t].files[k].batch = acked[t][k]
    BY DEF Intact
  <2> QED
    BY <2>1, <2>2, <2>3
<1>2. n > 0
  BY <1>1, EmptySeq
<1>3. DataError(disk[t]) = "Ok"
  <2>1. SchemaError(disk[t]) = "Ok"
    BY <1>1, <1>2 DEF SchemaError
  <2> QED
    BY <1>1, <2>1 DEF DataError
<1>4. \A k \in 1 .. n : DataOf(disk[t])[k] = disk[t].files[k].batch
  BY DataInOrder
<1>5. DataOf(disk[t]) = acked[t]
  <2>1. acked[t] = [k \in 1 .. n |-> acked[t][k]]
    BY <1>1, LenProperties
  <2>2. DataOf(disk[t]) = [k \in 1 .. n |-> DataOf(disk[t])[k]]
    BY DEF DataOf
  <2>3. \A k \in 1 .. n : DataOf(disk[t])[k] = acked[t][k]
    BY <1>1, <1>4
  <2> QED
    BY <2>1, <2>2, <2>3
<1>6. Readable(disk[t])
  BY <1>1, DbAssumption DEF Readable
<1> QED
  BY <1>1, <1>3, <1>5, <1>6

\* The invariant implies it.
LEMMA CommitsMatch == TypeOK /\ Inv => CommitMatchesData
<1> SUFFICES ASSUME TypeOK, Inv, NEW t \in Tables,
                    disk[t].dir, t \notin interrupted, Settled(t),
                    Len(disk[t].files) <= Padded
             PROVE  /\ DataError(disk[t]) = "Ok"
                    /\ Readable(disk[t])
                    /\ disk[t].commit = DataOf(disk[t])
  BY DEF CommitMatchesData
<1>1. Intact(t)
  BY DEF Inv, Undisturbed
<1> QED
  BY <1>1, IntactData

(***************************************************************************)
(* The commitment of a table no call failed on half way is of the data the *)
(* store reads back, batch for batch, for any number of files the names'   *)
(* padding can order.                                                      *)
(***************************************************************************)
THEOREM CommitmentsMatch == Spec => []CommitMatchesData
BY CommitsMatch, TypeCorrect, Invariance, PTL

(***************************************************************************)
(* What a failure leaves of a table tells by its length: the files the     *)
(* store reads back hold the batches the commitment covers with others     *)
(* among them.                                                             *)
(***************************************************************************)
\* The batches found among a table's files are found in its data.
LEMMA FoundInData ==
    ASSUME TypeOK, NEW t \in Tables, DataError(disk[t]) = "Ok",
           Len(disk[t].files) <= Padded, NEW u \in Seq(Batches),
           FoundIn(u, disk[t].files, Len(disk[t].files))
    PROVE  Embeds(u, DataOf(disk[t]))
<1> DEFINE n == Len(disk[t].files)
           data == DataOf(disk[t])
<1>1. PICK at \in [1 .. Len(u) -> 1 .. n] :
         /\ \A i, j \in 1 .. Len(u) : i < j => at[i] < at[j]
         /\ \A i \in 1 .. Len(u) : /\ disk[t].files[at[i]] # Torn
                                   /\ disk[t].files[at[i]].batch = u[i]
  BY DEF FoundIn
<1>2. Len(data) = n /\ \A k \in 1 .. n : data[k] = disk[t].files[k].batch
  BY DataIsBatches, DataInOrder
<1> HIDE DEF data
<1>3. \A i \in 1 .. Len(u) : data[at[i]] = u[i]
  BY <1>1, <1>2
<1>4. at \in [1 .. Len(u) -> 1 .. Len(data)]
  BY <1>1, <1>2
<1>5. Embeds(u, data)
  BY <1>1, <1>3, <1>4 DEF Embeds
<1> QED
  BY <1>5 DEF data

(***************************************************************************)
(* If the data of a table can be read and so can its commitment, the data  *)
(* has the rows the commitment says, or more rows, whatever failed before. *)
(***************************************************************************)
THEOREM LengthTellsAlways == Spec => []LengthTells
<1>1. TypeOK /\ Inv => LengthTells
  <2> SUFFICES ASSUME TypeOK, Inv, NEW t \in Tables,
                      DataError(disk[t]) = "Ok", Readable(disk[t]),
                      Len(disk[t].files) <= Padded
               PROVE  \/ Rows(disk[t].commit) = Rows(DataOf(disk[t]))
                      \/ Len(Rows(disk[t].commit)) < Len(Rows(DataOf(disk[t])))
    BY DEF LengthTells
  <2>1. disk[t].commit = acked[t] /\ acked[t] \in Seq(Batches)
    BY DEF Inv, CommitIsAcked, TypeOK
  <2>2. Embeds(acked[t], DataOf(disk[t]))
    BY <2>1, FoundInData DEF Inv, AckedSurvives
  <2>3. DataOf(disk[t]) \in Seq(Batches)
    BY DataIsBatches
  <2>4. acked[t] \in Seq(Seq(Row)) /\ DataOf(disk[t]) \in Seq(Seq(Row))
    BY <2>1, <2>3, DbAssumption
  <2> QED
    BY <2>1, <2>2, <2>4, FlattenEmbedded DEF Rows
<1> QED
  BY <1>1, TypeCorrect, Invariance, PTL

(***************************************************************************)
(* A whole parquet file is never changed or removed: a step that writes a  *)
(* file writes the next one, or the one its call left torn.                *)
(***************************************************************************)
LEMMA KeepsWholeFiles ==
    ASSUME TypeOK, Inv, [Next]_vars, NEW t \in Tables
    PROVE  /\ disk[t].dir => disk'[t].dir
           /\ \A k \in 1 .. Len(disk[t].files) :
                 disk[t].files[k] # Torn
                     => /\ k <= Len(disk'[t].files)
                        /\ disk'[t].files[k] = disk[t].files[k]
<1> DEFINE Kept == /\ disk[t].dir => disk'[t].dir
                   /\ \A k \in 1 .. Len(disk[t].files) :
                         disk[t].files[k] # Torn
                             => /\ k <= Len(disk'[t].files)
                                /\ disk'[t].files[k] = disk[t].files[k]
<1>1. ASSUME disk'[t].files = disk[t].files, disk[t].dir => disk'[t].dir PROVE Kept
  BY <1>1, DirFields, LenProperties
<1>2. ASSUME NEW c \in Callers, MakeDir(c) PROVE Kept
  BY <1>1, <1>2 DEF MakeDir, TypeOK, TableDir
<1>3. ASSUME NEW c \in Callers, OpenBatch(c) \/ WriteBatch(c) PROVE Kept
  <2>1. Running(c)
    BY <1>3 DEF OpenBatch, WriteBatch, Running
  <2>2. CASE t # call[c].t
    BY <1>1, <1>3, <2>2 DEF OpenBatch, WriteBatch, TypeOK
  <2>3. CASE t = call[c].t
    <3> DEFINE n == call[c].n
               S == WholeFile \cup {Torn}
    <3>1. n \in Nat /\ disk[t].files \in Seq(S) /\ Len(disk[t].files) \in {n, n + 1}
          /\ (Len(disk[t].files) = n + 1 => disk[t].files[n + 1] = Torn)
      BY <1>3, <2>1, <2>3, BeforeStep DEF StillTrue, OpenBatch, WriteBatch
    <3>2. PICK x \in S : disk'[t].files = PutFile(disk[t].files, n, x)
      BY <1>3, <2>1, <2>3, BeforeStep DEF OpenBatch, WriteBatch, TypeOK, TableDir
    <3>3. disk'[t].dir = disk[t].dir
      BY <1>3, <2>3 DEF OpenBatch, WriteBatch, TypeOK, TableDir
    <3> HIDE DEF S, n
    <3>4. /\ Len(disk'[t].files) = n + 1
          /\ \A k \in 1 .. n : disk'[t].files[k] = disk[t].files[k]
      BY <3>1, <3>2, PutFileEffect
    <3> QED
      BY <3>1, <3>3, <3>4
  <2> QED
    BY <2>2, <2>3
<1>4. ASSUME NEW c \in Callers, ExtendCommitment(c) \/ StoreCommitment(c) PROVE Kept
  <2>1. PICK commit : disk' = [disk EXCEPT ![call[c].t].commit = commit]
    BY <1>4 DEF ExtendCommitment, StoreCommitment
  <2>2. disk'[t].files = disk[t].files /\ disk'[t].dir = disk[t].dir
    BY <2>1 DEF TypeOK, TableDir
  <2> QED
    BY <1>1, <2>2
<1>5. ASSUME UNCHANGED disk PROVE Kept
  BY <1>1, <1>5
<1> HIDE DEF Kept
<1>6. ASSUME NEW c \in Callers, Write(c) PROVE Kept
  <2>1. CASE RejectBatch(c)
    BY <2>1, <1>5 DEF RejectBatch, Fail
  <2> QED
    BY <1>2, <1>3, <1>4, <1>6, <2>1 DEF Write
<1>7. ASSUME ~(\E c \in Callers : Write(c)) PROVE UNCHANGED disk
  BY <1>7 DEF Next, CreateTable, Insert, FileError, Fail, Restart, vars
<1>8. Kept
  BY <1>5, <1>6, <1>7
<1> QED
  BY <1>8 DEF Kept

\* No step changes or removes a whole file or a directory.
THEOREM WholeFilesStay == Spec => AppendOnly
<1>1. TypeOK /\ Inv /\ [Next]_vars
        => [\A t \in Tables :
              /\ disk[t].dir => disk'[t].dir
              /\ \A k \in 1 .. Len(disk[t].files) :
                    disk[t].files[k] # Torn
                        => /\ k <= Len(disk'[t].files)
                           /\ disk'[t].files[k] = disk[t].files[k]]_vars
  BY KeepsWholeFiles
<1> QED
  BY <1>1, TypeCorrect, Invariance, PTL DEF Spec, AppendOnly

---------------------------------------------------------------------------
(***************************************************************************)
(* What the callers of the store see of a step.                            *)
(***************************************************************************)

\* Batches are only ever acknowledged, directories only created, tables only
\* interrupted and faults only counted.
LEMMA StoreGrows ==
    ASSUME TypeOK, Inv, [Next]_vars
    PROVE  /\ \A t \in Tables :
                 /\ acked'[t] = acked[t] \/ \E b \in Batches : acked'[t] = Append(acked[t], b)
                 /\ disk[t].dir => disk'[t].dir
           /\ interrupted \subseteq interrupted'
           /\ faults \in Nat /\ faults' \in Nat /\ faults <= faults'
<1> DEFINE Added(t) == acked'[t] = acked[t] \/ \E b \in Batches : acked'[t] = Append(acked[t], b)
           More == \A t \in Tables : Added(t)
           Grown == More /\ interrupted \subseteq interrupted' /\ faults <= faults'
<1>0. \A t \in Tables : disk[t].dir => disk'[t].dir
  BY KeepsWholeFiles
<1>1. faults \in Nat /\ faults' \in Nat
  BY TypeStep, DbAssumption DEF TypeOK
<1>2. ASSUME UNCHANGED <<faults, acked, interrupted>> PROVE Grown
  BY <1>1, <1>2
<1>3. ASSUME NEW c \in Callers, StoreCommitment(c) PROVE Grown
  <2>1. call[c].file.batch \in Batches
    BY <1>3, CallFields DEF StoreCommitment, Running
  <2>2. \A t \in Tables :
           acked'[t] = acked[t] \/ acked'[t] = Append(acked[t], call[c].file.batch)
    BY <1>3 DEF StoreCommitment, TypeOK
  <2>3. UNCHANGED <<faults, interrupted>>
    BY <1>3 DEF StoreCommitment
  <2> QED
    BY <1>1, <2>1, <2>2, <2>3
<1>4. ASSUME NEW c \in Callers, RejectBatch(c) \/ FileError(c) PROVE Grown
  <2>1. UNCHANGED acked /\ interrupted \subseteq interrupted'
    BY <1>4 DEF RejectBatch, FileError, Fail
  <2>2. faults <= faults'
    BY <1>1, <1>4 DEF RejectBatch, FileError
  <2> QED
    BY <2>1, <2>2
<1>5. ASSUME Restart PROVE Grown
  BY <1>1, <1>5 DEF Restart
<1> HIDE DEF Grown
<1>6. ASSUME NEW c \in Callers,
             MakeDir(c) \/ OpenBatch(c) \/ WriteBatch(c) \/ ExtendCommitment(c)
      PROVE  Grown
  BY <1>2, <1>6 DEF MakeDir, OpenBatch, WriteBatch, ExtendCommitment
<1>7. ASSUME NEW c \in Callers, NEW u \in Tables, NEW s \in Schemas,
             CreateTable(c, u, s) \/ \E b \in Batches : Insert(c, u, s, b)
      PROVE  Grown
  BY <1>2, <1>7 DEF CreateTable, Insert
<1>8. ASSUME UNCHANGED vars PROVE Grown
  BY <1>2, <1>8 DEF vars
<1>9. Grown
  BY <1>3, <1>4, <1>5, <1>6, <1>7, <1>8 DEF Next, Write
<1> QED
  BY <1>0, <1>1, <1>9 DEF Grown

\* A call that begins is the caller's own, and has changed nothing yet.
LEMMA CreateBegins ==
    ASSUME TypeOK, NEW c \in Callers, NEW t, NEW s, CreateTable(c, t, s)
    PROVE  /\ UNCHANGED <<disk, powers, faults, acked, interrupted>>
           /\ \A e \in Callers \ {c} : call'[e] = call[e]
           /\ \/ disk[t].dir /\ call'[c] = Returned("AlreadyExists")
              \/ call'[c] = [pc |-> "mkdir", t |-> t, file |-> [schema |-> s, batch |-> <<>>],
                             n |-> 0, commitment |-> <<>>]
BY DEF CreateTable, Return, Begin, TypeOK

\* So is an insert.
LEMMA InsertBegins ==
    ASSUME TypeOK, NEW c \in Callers, NEW t, NEW s, NEW b, Insert(c, t, s, b)
    PROVE  /\ UNCHANGED <<disk, powers, faults, acked, interrupted>>
           /\ \A e \in Callers \ {c} : call'[e] = call[e]
           /\ \/ /\ InsertError(disk[t], s) # "Ok"
                 /\ call'[c] = Returned(InsertError(disk[t], s))
              \/ call'[c] = [pc |-> "open", t |-> t, file |-> [schema |-> s, batch |-> b],
                             n |-> Len(disk[t].files), commitment |-> disk[t].commit]
BY DEF Insert, Return, Begin, TypeOK

\* A step of a call leaves the other calls alone, and goes on with the same
\* batch, ends with its commitment written, or gives the call up.
LEMMA CallGoesOn ==
    ASSUME TypeOK, NEW c \in Callers, Write(c) \/ FileError(c)
    PROVE  /\ Running(c)
           /\ \A e \in Callers \ {c} : call'[e] = call[e]
           /\ \/ /\ MakeDir(c) \/ OpenBatch(c) \/ WriteBatch(c) \/ ExtendCommitment(c)
                 /\ call'[c].pc \in {"open", "write", "extend", "store"}
                 /\ call'[c].t = call[c].t /\ call'[c].file = call[c].file
                 /\ call[c].pc \in {"extend", "store"} => call'[c].pc = "store"
              \/ /\ StoreCommitment(c)
                 /\ call'[c] = Returned("Ok")
              \/ /\ RejectBatch(c) \/ FileError(c)
                 /\ UNCHANGED <<disk, acked>>
                 /\ \E r \in {"Io", "Parquet", "Commit"} : call'[c] = Returned(r)
                 /\ faults' = 0 => call[c].t \in interrupted'
<1>0. Running(c)
  BY DEF Write, MakeDir, OpenBatch, WriteBatch, ExtendCommitment, StoreCommitment,
         RejectBatch, FileError, Running
<1>1. /\ call[c] \in [pc: Steps, t: Tables, file: WholeFile, n: Nat, commitment: Seq(Batches)]
      /\ call[c].t \in Tables
  BY <1>0, CallFields
<1>2. ASSUME NEW step, Advance(c, step)
      PROVE  /\ \A e \in Callers \ {c} : call'[e] = call[e]
             /\ call'[c].pc = step /\ call'[c].t = call[c].t /\ call'[c].file = call[c].file
  BY <1>1, <1>2 DEF Advance, TypeOK
<1>3. ASSUME MakeDir(c) \/ OpenBatch(c) \/ WriteBatch(c) PROVE \E step \in {"open", "write", "extend"} : Advance(c, step)
  BY <1>3 DEF MakeDir, OpenBatch, WriteBatch
<1>4. ASSUME ExtendCommitment(c)
      PROVE  /\ \A e \in Callers \ {c} : call'[e] = call[e]
             /\ call'[c].pc = "store" /\ call'[c].t = call[c].t /\ call'[c].file = call[c].file
  <2>1. call'[c] = [call[c] EXCEPT !.pc = "store", !.commitment = Append(@, call[c].file.batch)]
    BY <1>4 DEF ExtendCommitment, TypeOK
  <2> QED
    BY <1>1, <1>4, <2>1 DEF ExtendCommitment, TypeOK
<1>5. ASSUME NEW r, Return(c, r)
      PROVE  call'[c] = Returned(r) /\ \A e \in Callers \ {c} : call'[e] = call[e]
  BY <1>5 DEF Return, TypeOK
<1>6. ASSUME RejectBatch(c) \/ FileError(c)
      PROVE  /\ \A e \in Callers \ {c} : call'[e] = call[e]
             /\ UNCHANGED <<disk, acked>>
             /\ \E r \in {"Io", "Parquet", "Commit"} : call'[c] = Returned(r)
             /\ faults' = 0 => call[c].t \in interrupted'
  <2>1. \E r \in {"Io", "Parquet", "Commit"} : Return(c, r)
    BY <1>6 DEF RejectBatch, FileError, Fail
  <2>2. UNCHANGED <<disk, acked>>
    BY <1>6 DEF RejectBatch, FileError, Fail
  <2>3. FileError(c) => faults' # 0
    BY DEF FileError, TypeOK
  <2>4. RejectBatch(c) => call[c].t \in interrupted'
    BY <1>1 DEF RejectBatch, Fail, Dirty
  <2> QED
    BY <1>5, <1>6, <2>1, <2>2, <2>3, <2>4
<1>7. ASSUME MakeDir(c) \/ OpenBatch(c) \/ WriteBatch(c)
      PROVE  call[c].pc \notin {"extend", "store"}
  BY <1>7 DEF MakeDir, OpenBatch, WriteBatch
<1> QED
  BY <1>0, <1>2, <1>3, <1>4, <1>5, <1>6, <1>7 DEF Write, StoreCommitment

\* Without a fault the powers are those it started with, and a table is interrupted
\* only by a call whose rows cannot be committed to.
LEMMA FaultlessStep ==
    ASSUME TypeOK, Inv, [Next]_vars, faults' = 0
    PROVE  /\ UNCHANGED powers
           /\ \A t \in interrupted' \ interrupted :
                 \E c \in Callers : RejectBatch(c) /\ call[c].t = t
<1>1. faults \in Nat
  BY StoreGrows
<1>2. ~Restart
  BY <1>1 DEF Restart
<1>3. ASSUME NEW c \in Callers PROVE ~FileError(c)
  BY <1>1 DEF FileError
<1>4. ASSUME NEW c \in Callers, RejectBatch(c)
      PROVE  /\ UNCHANGED powers
             /\ \A t \in interrupted' \ interrupted : call[c].t = t
  BY <1>4 DEF RejectBatch, Fail
<1>5. ASSUME NEW c \in Callers,
             \/ MakeDir(c) \/ OpenBatch(c) \/ WriteBatch(c) \/ ExtendCommitment(c)
             \/ StoreCommitment(c)
      PROVE  UNCHANGED <<powers, interrupted>>
  BY <1>5 DEF MakeDir, OpenBatch, WriteBatch, ExtendCommitment, StoreCommitment
<1>6. ASSUME NEW c \in Callers, NEW t \in Tables, NEW s \in Schemas,
             CreateTable(c, t, s) \/ \E b \in Batches : Insert(c, t, s, b)
      PROVE  UNCHANGED <<powers, interrupted>>
  BY <1>6 DEF CreateTable, Insert
<1>7. ASSUME UNCHANGED vars PROVE UNCHANGED <<powers, interrupted>>
  BY <1>7 DEF vars
<1> QED
  BY <1>2, <1>3, <1>4, <1>5, <1>6, <1>7 DEF Next, Write

\* The call that wrote its file goes on to its commitment.
LEMMA WritesOn ==
    ASSUME TypeOK, NEW c \in Callers, WriteBatch(c)
    PROVE  call'[c].pc = "extend" /\ call'[c].t = call[c].t /\ call'[c].file = call[c].file
<1>1. call[c] \in [pc: Steps, t: Tables, file: WholeFile, n: Nat, commitment: Seq(Batches)]
  BY CallFields DEF WriteBatch, Running
<1> QED
  BY <1>1 DEF WriteBatch, Advance, TypeOK

\* A whole file is there because it was, or because a call just wrote it.
LEMMA FileWritten ==
    ASSUME TypeOK, Inv, [Next]_vars, NEW t \in Tables,
           NEW k \in 1 .. Len(disk'[t].files), disk'[t].files[k] # Torn
    PROVE  \/ k \in 1 .. Len(disk[t].files) /\ disk[t].files[k] = disk'[t].files[k]
           \/ \E c \in Callers : /\ WriteBatch(c) /\ call[c].t = t /\ k = call[c].n + 1
                                 /\ disk'[t].files[k] = call[c].file
<1> DEFINE Stays == k \in 1 .. Len(disk[t].files) /\ disk[t].files[k] = disk'[t].files[k]
           Written == \E c \in Callers : /\ WriteBatch(c) /\ call[c].t = t
                                        /\ k = call[c].n + 1
                                        /\ disk'[t].files[k] = call[c].file
<1>1. ASSUME disk'[t].files = disk[t].files PROVE Stays
  BY <1>1
<1>2. ASSUME NEW c \in Callers, OpenBatch(c) \/ WriteBatch(c) PROVE Stays \/ Written
  <2>1. Running(c)
    BY <1>2 DEF OpenBatch, WriteBatch, Running
  <2>2. CASE t # call[c].t
    BY <1>1, <1>2, <2>2 DEF OpenBatch, WriteBatch, TypeOK
  <2>3. CASE t = call[c].t
    <3> DEFINE n == call[c].n
               S == WholeFile \cup {Torn}
    <3>1. /\ n \in Nat /\ disk[t].files \in Seq(S) /\ Len(disk[t].files) \in {n, n + 1}
          /\ call[c].file \in WholeFile
      BY <1>2, <2>1, <2>3, BeforeStep DEF StillTrue, OpenBatch, WriteBatch
    <3>2. PICK x \in S : /\ disk'[t].files = PutFile(disk[t].files, n, x)
                         /\ \/ OpenBatch(c) /\ x = Torn
                            \/ WriteBatch(c) /\ x = call[c].file
      BY <1>2, <2>1, <2>3, <3>1 DEF OpenBatch, WriteBatch, TypeOK, TableDir
    <3>3. /\ Len(disk'[t].files) = n + 1 /\ disk'[t].files[n + 1] = x
          /\ \A i \in 1 .. n : disk'[t].files[i] = disk[t].files[i]
      <4> HIDE DEF S, n
      <4> QED
        BY <3>1, <3>2, PutFileEffect
    <3>4. CASE k = n + 1
      BY <2>3, <3>2, <3>3, <3>4
    <3>5. CASE k # n + 1
      <4>1. k \in 1 .. n
        BY <3>1, <3>3, <3>5
      <4>2. Len(disk[t].files) \in Nat /\ k \in 1 .. Len(disk[t].files)
        BY <3>1, <4>1
      <4> QED
        BY <3>3, <4>1, <4>2
    <3> QED
      BY <3>4, <3>5
  <2> QED
    BY <2>2, <2>3
<1>3. ASSUME NEW c \in Callers, MakeDir(c) \/ ExtendCommitment(c) \/ StoreCommitment(c)
      PROVE  Stays
  <2>1. CASE MakeDir(c)
    <3>1. disk'[t].files = disk[t].files
      BY <2>1 DEF MakeDir, TypeOK, TableDir
    <3> QED
      BY <1>1, <3>1
  <2>2. CASE ExtendCommitment(c) \/ StoreCommitment(c)
    <3>1. PICK commit : disk' = [disk EXCEPT ![call[c].t].commit = commit]
      BY <2>2 DEF ExtendCommitment, StoreCommitment
    <3>2. disk'[t].files = disk[t].files
      BY <3>1 DEF TypeOK, TableDir
    <3> QED
      BY <1>1, <3>2
  <2> QED
    BY <1>3, <2>1, <2>2
<1>4. ASSUME UNCHANGED disk PROVE Stays
  BY <1>1, <1>4
<1> HIDE DEF Stays, Written
<1>5. ASSUME NEW c \in Callers, Write(c) PROVE Stays \/ Written
  <2>1. CASE RejectBatch(c)
    BY <2>1, <1>4 DEF RejectBatch, Fail
  <2> QED
    BY <1>2, <1>3, <1>5, <2>1 DEF Write
<1>6. ASSUME ~(\E c \in Callers : Write(c)) PROVE UNCHANGED disk
  BY <1>6 DEF Next, CreateTable, Insert, FileError, Fail, Restart, vars
<1>7. Stays \/ Written
  BY <1>4, <1>5, <1>6
<1> QED
  BY <1>7 DEF Stays, Written

\* What StoreCommitment acknowledges is its call's batch, for its table.
LEMMA Acknowledges ==
    ASSUME TypeOK, NEW c \in Callers, StoreCommitment(c)
    PROVE  /\ call[c].t \in Tables /\ call[c].file.batch \in Batches
           /\ acked'[call[c].t] = Append(acked[call[c].t], call[c].file.batch)
<1>1. call[c].t \in Tables /\ call[c].file.batch \in Batches
  BY CallFields DEF StoreCommitment, Running
<1> QED
  BY <1>1 DEF StoreCommitment, TypeOK

\* Between calls, a table no call failed on can be read.
LEMMA QuietReads ==
    ASSUME TypeOK, Inv, Quiet, NEW t \in Tables \ interrupted, disk[t].dir
    PROVE  /\ SchemaError(disk[t]) = "Ok" /\ DataError(disk[t]) = "Ok"
           /\ CommitmentError(disk[t]) = "Ok"
<1> DEFINE n == Len(disk[t].files)
<1>1. Settled(t) /\ Intact(t)
  BY DEF Quiet, Settled, Inv, Undisturbed
<1>2. /\ n \in Nat /\ acked[t] \in Seq(Batches) /\ Len(acked[t]) = n
      /\ acked[t] # <<>> /\ disk[t].commit = acked[t]
      /\ \A k \in 1 .. n : disk[t].files[k] # Torn
  BY <1>1, DirFields, LenProperties DEF TypeOK, Intact
<1>3. n > 0 /\ disk[t].files # <<>>
  BY <1>2, EmptySeq
<1>4. SchemaError(disk[t]) = "Ok"
  BY <1>2, <1>3 DEF SchemaError
<1>5. DataError(disk[t]) = "Ok"
  BY <1>2, <1>4 DEF DataError
<1> QED
  BY <1>2, <1>4, <1>5, DbAssumption DEF CommitmentError

---------------------------------------------------------------------------
(***************************************************************************)
(* Until the first fault, no commitment covers more rows than the process  *)
(* has powers for.  (A restart may be for fewer of them.)                  *)
(***************************************************************************)
Fits == faults = 0 =>
    /\ \A t \in Tables : Len(Rows(acked[t])) <= powers
    /\ \A c \in Callers : call[c].pc = "store" => Len(Rows(call[c].commitment)) <= powers

\* The rows of batches, and of batches with another one after them.
LEMMA RowsLength ==
    ASSUME NEW u \in Seq(Batches)
    PROVE  /\ Len(Rows(u)) \in Nat
           /\ \A b \in Batches : Len(Rows(Append(u, b))) = Len(Rows(u)) + Len(b)
<1>1. u \in Seq(Seq(Row))
  BY DbAssumption
<1>2. FlattenSeq(u) \in Seq(Row)
  BY <1>1, FlattenType
<1>3. ASSUME NEW b \in Batches PROVE Len(Rows(Append(u, b))) = Len(Rows(u)) + Len(b)
  <2>1. b \in Seq(Row)
    BY DbAssumption
  <2>2. FlattenSeq(Append(u, b)) = FlattenSeq(u) \o b
    BY <1>1, <2>1, FlattenAppend
  <2> QED
    BY <1>2, <2>1, <2>2, ConcatProperties DEF Rows
<1> QED
  BY <1>2, <1>3, LenProperties DEF Rows

\* Nothing fits any capacity.
LEMMA FitsInit == Init => Fits
<1> SUFFICES ASSUME Init PROVE Fits
  OBVIOUS
<1>1. powers \in Nat
  BY DbAssumption DEF Init
<1>2. Rows(<<>>) = <<>> /\ Len(<<>>) = 0
  BY FlattenEmpty DEF Rows
<1>3. \A t \in Tables : Len(Rows(acked[t])) <= powers
  BY <1>1, <1>2 DEF Init
<1>4. \A c \in Callers : call[c].pc # "store"
  BY DEF Init, Returned
<1> QED
  BY <1>3, <1>4 DEF Fits

\* A commitment is only extended by rows the powers are enough for.
LEMMA FitsStep == TypeOK /\ Inv /\ Fits /\ [Next]_vars => Fits'
<1> SUFFICES ASSUME TypeOK, Inv, Fits, [Next]_vars, faults' = 0
             PROVE  /\ \A t \in Tables : Len(Rows(acked'[t])) <= powers'
                    /\ \A c \in Callers : call'[c].pc = "store"
                          => Len(Rows(call'[c].commitment)) <= powers'
  BY DEF Fits
<1> DEFINE Goal == /\ \A t \in Tables : Len(Rows(acked'[t])) <= powers'
                   /\ \A c \in Callers : call'[c].pc = "store"
                         => Len(Rows(call'[c].commitment)) <= powers'
<1>1. /\ faults = 0
      /\ \A t \in Tables : Len(Rows(acked[t])) <= powers
      /\ \A c \in Callers : call[c].pc = "store" => Len(Rows(call[c].commitment)) <= powers
  <2>1. faults \in Nat /\ faults' \in Nat
    BY TypeStep, DbAssumption DEF TypeOK
  <2>2. ASSUME NEW c \in Callers, FileError(c) PROVE faults' # 0
    BY <2>1, <2>2 DEF FileError
  <2>3. Restart => faults' # 0
    BY <2>1 DEF Restart
  <2>4. ASSUME NEW c \in Callers, Write(c) PROVE UNCHANGED faults
    BY <2>4 DEF Write, MakeDir, OpenBatch, WriteBatch, ExtendCommitment, StoreCommitment,
                RejectBatch
  <2>5. ASSUME NEW c \in Callers, NEW t \in Tables, NEW s \in Schemas,
               CreateTable(c, t, s) \/ \E b \in Batches : Insert(c, t, s, b)
        PROVE  UNCHANGED faults
    BY <2>5 DEF CreateTable, Insert
  <2>6. ASSUME UNCHANGED vars PROVE UNCHANGED faults
    BY <2>6 DEF vars
  <2> QED
    BY <2>2, <2>3, <2>4, <2>5, <2>6 DEF Fits, Next
<1>2. ASSUME UNCHANGED <<acked, powers>>,
             \A e \in Callers : call'[e].pc = "store" => call'[e] = call[e]
      PROVE  Goal
  BY <1>1, <1>2
<1>3. ASSUME NEW c \in Callers, MakeDir(c) \/ OpenBatch(c) \/ WriteBatch(c) PROVE Goal
  <2>1. \A e \in Callers \ {c} : call'[e] = call[e]
    BY <1>3, CallGoesOn DEF Write
  <2>2. call'[c].pc # "store"
    <3>1. Running(c)
      BY <1>3, CallGoesOn DEF Write
    <3>2. \E step \in {"open", "write", "extend"} : Advance(c, step)
      BY <1>3 DEF MakeDir, OpenBatch, WriteBatch
    <3> QED
      BY <3>1, <3>2, CallFields DEF Advance, TypeOK
  <2>3. UNCHANGED <<acked, powers>>
    BY <1>3 DEF MakeDir, OpenBatch, WriteBatch
  <2> QED
    BY <1>2, <2>1, <2>2, <2>3
<1>4. ASSUME NEW c \in Callers, ExtendCommitment(c) PROVE Goal
  <2>1. Running(c) /\ \A e \in Callers \ {c} : call'[e] = call[e]
    BY <1>4, CallGoesOn DEF Write
  <2>2. /\ call[c] \in [pc: Steps, t: Tables, file: WholeFile, n: Nat, commitment: Seq(Batches)]
        /\ call[c].commitment \in Seq(Batches) /\ call[c].file.batch \in Batches
    BY <2>1, CallFields
  <2>3. call'[c] = [call[c] EXCEPT !.pc = "store", !.commitment = Append(@, call[c].file.batch)]
    BY <1>4 DEF ExtendCommitment, TypeOK
  <2>4. call'[c].commitment = Append(call[c].commitment, call[c].file.batch)
    BY <2>2, <2>3
  <2>5. Len(Rows(call[c].commitment)) + Len(call[c].file.batch) <= powers
    BY <1>4 DEF ExtendCommitment, CanExtend
  <2>6. UNCHANGED <<acked, powers>>
    BY <1>4 DEF ExtendCommitment
  <2>7. Len(Rows(call'[c].commitment)) <= powers'
    BY <2>2, <2>4, <2>5, <2>6, RowsLength
  <2> QED
    BY <1>1, <2>1, <2>6, <2>7
<1>5. ASSUME NEW c \in Callers, StoreCommitment(c) PROVE Goal
  <2>1. Running(c) /\ call[c].pc = "store" /\ call[c].t \in Tables
    BY <1>5, CallFields DEF StoreCommitment, Running
  <2>2. call[c].commitment = Append(acked[call[c].t], call[c].file.batch)
    BY <2>1, BeforeStep DEF StillTrue
  <2>3. /\ acked'[call[c].t] = call[c].commitment
        /\ \A t \in Tables : t # call[c].t => acked'[t] = acked[t]
        /\ UNCHANGED powers
        /\ \A e \in Callers \ {c} : call'[e] = call[e]
        /\ call'[c].pc = "idle"
    BY <1>5, <2>1, <2>2 DEF StoreCommitment, Return, Returned, TypeOK
  <2> QED
    BY <1>1, <2>1, <2>3
<1>6. ASSUME NEW c \in Callers, RejectBatch(c) \/ FileError(c) PROVE Goal
  <2>1. \A e \in Callers \ {c} : call'[e] = call[e]
    BY <1>6, CallGoesOn DEF Write
  <2>2. UNCHANGED <<acked, powers>> /\ call'[c].pc = "idle"
    BY <1>6 DEF RejectBatch, FileError, Fail, Return, Returned, TypeOK
  <2> QED
    BY <1>2, <2>1, <2>2
<1>7. ASSUME NEW c \in Callers, NEW t \in Tables, NEW s \in Schemas,
             CreateTable(c, t, s) \/ \E b \in Batches : Insert(c, t, s, b)
      PROVE  Goal
  <2>1. UNCHANGED <<acked, powers>> /\ \A e \in Callers \ {c} : call'[e] = call[e]
    BY <1>7, CreateBegins, InsertBegins
  <2>2. call'[c].pc # "store"
    <3>1. ASSUME CreateTable(c, t, s) PROVE call'[c].pc # "store"
      <4>1. call'[c].pc \in {"idle", "mkdir"}
        BY <3>1 DEF CreateTable, Return, Begin, Returned, TypeOK
      <4> QED
        BY <4>1
    <3>2. ASSUME NEW b \in Batches, Insert(c, t, s, b) PROVE call'[c].pc # "store"
      <4>1. call'[c].pc \in {"idle", "open"}
        BY <3>2 DEF Insert, Return, Begin, Returned, TypeOK
      <4> QED
        BY <4>1
    <3> QED
      BY <1>7, <3>1, <3>2
  <2> QED
    BY <1>2, <2>1, <2>2
<1>8. ~Restart
  BY <1>1 DEF Restart
<1>9. ASSUME UNCHANGED vars PROVE Goal
  BY <1>2, <1>9 DEF vars
<1> HIDE DEF Goal
<1>10. Goal
  BY <1>3, <1>4, <1>5, <1>6, <1>7, <1>8, <1>9 DEF Next, Write
<1> QED
  BY <1>10 DEF Goal

(***************************************************************************)
(* The capacity bounds what was acknowledged, until the first fault.       *)
(***************************************************************************)
THEOREM CapacityBounds == Spec => []Fits
BY FitsInit, FitsStep, TypeCorrect, Invariance, PTL DEF Spec

\* The data of an undisturbed table has as many rows as were acknowledged,
\* in whatever order its files are listed.
LEMMA IntactLength ==
    ASSUME TypeOK, NEW t \in Tables, Intact(t), Settled(t), disk[t].dir,
           DataError(disk[t]) = "Ok"
    PROVE  Len(Rows(DataOf(disk[t]))) <= Len(Rows(acked[t]))
<1> DEFINE n == Len(disk[t].files)
           data == DataOf(disk[t])
           order == ParquetOrder(n)
<1>1. /\ n \in Nat /\ acked[t] \in Seq(Batches) /\ Len(acked[t]) = n
      /\ \A k \in 1 .. n : disk[t].files[k].batch = acked[t][k]
  BY DirFields, LenProperties DEF TypeOK, Intact
<1>2. data \in Seq(Batches) /\ Len(data) = n
  BY DataIsBatches
<1>3. order \in [1 .. n -> 0 .. n-1]
  BY <1>1, OrderType
<1>4. \A k \in 1 .. n : data[k] = disk[t].files[order[k] + 1].batch
  BY DEF DataOf
<1>5. \A k \in 1 .. n : Position(order[k], n) = k - 1
  BY <1>1, EveryPosition DEF ParquetOrder
<1> HIDE DEF order, data, n
<1> DEFINE at == [k \in 1 .. n |-> order[k] + 1]
<1>6. at \in [1 .. n -> 1 .. n]
  BY <1>1, <1>3
<1>7. \A i, j \in 1 .. n : i # j => at[i] # at[j]
  BY <1>1, <1>3, <1>5
<1>8. \A k \in 1 .. n : acked[t][at[k]] = data[k]
  BY <1>1, <1>4, <1>6
<1> HIDE DEF at
<1>9. Among(data, acked[t])
  <2>1. at \in [1 .. Len(data) -> 1 .. Len(acked[t])]
    BY <1>1, <1>2, <1>6
  <2> QED
    BY <2>1, <1>2, <1>7, <1>8 DEF Among
<1>10. data \in Seq(Seq(Row)) /\ acked[t] \in Seq(Seq(Row))
  BY <1>1, <1>2, DbAssumption
<1> QED
  BY <1>9, <1>10, FlattenAmong DEF Rows, data

\* And no table's data has fewer.
LEMMA DataLength ==
    ASSUME TypeOK, Inv, NEW t \in Tables, DataError(disk[t]) = "Ok"
    PROVE  Len(Rows(acked[t])) <= Len(Rows(DataOf(disk[t])))
<1> DEFINE n == Len(disk[t].files)
           data == DataOf(disk[t])
           order == ParquetOrder(n)
           u == acked[t]
<1>1. /\ n \in Nat /\ u \in Seq(Batches) /\ data \in Seq(Batches) /\ Len(data) = n
  BY DataIsBatches DEF TypeOK
<1>2. PICK at \in [1 .. Len(u) -> 1 .. n] :
         /\ \A i, j \in 1 .. Len(u) : i < j => at[i] < at[j]
         /\ \A i \in 1 .. Len(u) : /\ disk[t].files[at[i]] # Torn
                                   /\ disk[t].files[at[i]].batch = u[i]
  BY DEF Inv, AckedSurvives, FoundIn
<1>3. \A k \in 1 .. n : data[k] = disk[t].files[order[k] + 1].batch
  BY DEF DataOf
<1>4. \A k \in 1 .. n : order[k] \in 0 .. n-1 /\ Position(order[k], n) = k - 1
  BY <1>1, EveryPosition, OrderType DEF ParquetOrder
<1> HIDE DEF order, data, n, u
<1> DEFINE place == [k \in 1 .. n |-> Position(k - 1, n) + 1]
<1>5. place \in [1 .. n -> 1 .. n]
  <2> SUFFICES ASSUME NEW k \in 1 .. n PROVE Position(k - 1, n) + 1 \in 1 .. n
    OBVIOUS
  <2>1. k - 1 \in 0 .. n-1
    BY <1>1
  <2>2. Position(k - 1, n) \in 0 .. n-1
    BY <1>1, <2>1, PositionType
  <2> QED
    BY <1>1, <2>2
<1>6. \A i, j \in 1 .. n : i # j => place[i] # place[j]
  <2> SUFFICES ASSUME NEW i \in 1 .. n, NEW j \in 1 .. n, i # j PROVE place[i] # place[j]
    OBVIOUS
  <2>1. i - 1 \in 0 .. n-1 /\ j - 1 \in 0 .. n-1 /\ i - 1 # j - 1
    BY <1>1
  <2>2. NameBefore(i - 1, j - 1) \/ NameBefore(j - 1, i - 1)
    BY <1>1, <2>1, NamesOrder
  <2>3. Position(i - 1, n) # Position(j - 1, n)
    BY <1>1, <2>1, <2>2, PositionsDiffer
  <2>4. Position(i - 1, n) \in Int /\ Position(j - 1, n) \in Int
    <3>1. \A k \in 0 .. n-1 : Position(k, n) \in 0 .. n-1
      BY <1>1, PositionType
    <3> QED
      BY <1>1, <2>1, <3>1
  <2> QED
    BY <2>3, <2>4
<1>7. \A k \in 1 .. n : order[place[k]] = k - 1
  <2> SUFFICES ASSUME NEW k \in 1 .. n PROVE order[place[k]] = k - 1
    OBVIOUS
  <2> DEFINE o == order[place[k]]
  <2>1. o \in 0 .. n-1 /\ Position(o, n) = place[k] - 1 /\ o + 1 \in 1 .. n
    BY <1>1, <1>4, <1>5
  <2>2. place[o + 1] = Position(o, n) + 1
    BY <1>1, <2>1
  <2>3. place[o + 1] = place[k]
    BY <1>1, <1>5, <2>1, <2>2
  <2> HIDE DEF o, place
  <2>4. o + 1 = k
    BY <1>6, <2>1, <2>3
  <2>5. o = k - 1
    BY <1>1, <2>1, <2>4
  <2> QED
    BY <2>5 DEF o
<1> HIDE DEF place
<1>8. \A k \in 1 .. n : data[place[k]] = disk[t].files[k].batch
  <2> SUFFICES ASSUME NEW k \in 1 .. n PROVE data[place[k]] = disk[t].files[k].batch
    OBVIOUS
  <2>1. data[place[k]] = disk[t].files[order[place[k]] + 1].batch
    BY <1>3, <1>5
  <2>2. order[place[k]] + 1 = k
    BY <1>1, <1>7
  <2> QED
    BY <2>1, <2>2
<1> DEFINE in == [i \in 1 .. Len(u) |-> place[at[i]]]
<1>9. in \in [1 .. Len(u) -> 1 .. Len(data)] /\ \A i \in 1 .. Len(u) : data[in[i]] = u[i]
  BY <1>1, <1>2, <1>5, <1>8
<1>10. \A i, j \in 1 .. Len(u) : i # j => in[i] # in[j]
  <2> SUFFICES ASSUME NEW i \in 1 .. Len(u), NEW j \in 1 .. Len(u), i # j
               PROVE  place[at[i]] # place[at[j]]
    OBVIOUS
  <2>1. i < j \/ j < i
    BY <1>1
  <2>2. at[i] \in 1 .. n /\ at[j] \in 1 .. n /\ at[i] # at[j]
    BY <1>1, <1>2, <2>1
  <2> QED
    BY <1>6, <2>2
<1> HIDE DEF in
<1>11. Among(u, data)
  BY <1>9, <1>10 DEF Among
<1>12. data \in Seq(Seq(Row)) /\ u \in Seq(Seq(Row))
  BY <1>1, DbAssumption
<1> QED
  BY <1>11, <1>12, FlattenAmong DEF Rows, data, u

\* A commitment to the leading batches of a table is to its rows or to fewer.
LEMMA PrefixLength ==
    ASSUME NEW u \in Seq(Batches), NEW v \in Seq(Batches), IsPrefix(u, v)
    PROVE  /\ Len(Rows(u)) \in Nat /\ Len(Rows(v)) \in Nat
           /\ \/ Rows(u) = Rows(v)
              \/ Len(Rows(u)) < Len(Rows(v))
<1>1. u \in Seq(Seq(Row)) /\ v \in Seq(Seq(Row))
  BY DbAssumption
<1>2. Embeds(u, v)
  BY PrefixEmbeds
<1> QED
  BY <1>1, <1>2, FlattenEmbedded, RowsLength DEF Rows

\* The data of an undisturbed table is within the capacity, until the first fault.
LEMMA QuietFits ==
    ASSUME TypeOK, Inv, Fits, Quiet, faults = 0,
           NEW t \in Tables \ interrupted, disk[t].dir
    PROVE  Len(Rows(DataOf(disk[t]))) <= powers
<1>1. Settled(t) /\ Intact(t) /\ DataError(disk[t]) = "Ok"
  BY QuietReads DEF Quiet, Settled, Inv, Undisturbed
<1>2. acked[t] \in Seq(Batches) /\ DataOf(disk[t]) \in Seq(Batches) /\ powers \in Nat
  BY <1>1, DataIsBatches, DbAssumption DEF TypeOK
<1>3. /\ Len(Rows(DataOf(disk[t]))) <= Len(Rows(acked[t]))
      /\ Len(Rows(acked[t])) <= powers
  BY <1>1, IntactLength DEF Fits
<1>4. Len(Rows(DataOf(disk[t]))) \in Nat /\ Len(Rows(acked[t])) \in Nat
  BY <1>2, RowsLength
<1> QED
  BY <1>2, <1>3, <1>4
===========================================================================
