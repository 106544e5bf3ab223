-------------------------------- MODULE Db --------------------------------
(***************************************************************************)
(* The store of src/db.rs: one directory per table, holding numbered       *)
(* parquet files and one commitment file, and no copy of either in memory. *)
(* A call on the store is a sequence of file operations.  Each may be      *)
(* refused by the operating system, and the process may be killed between  *)
(* any two, so every step below is one operation on the disk.              *)
(*                                                                         *)
(* The store takes no lock of its own.  Spec lets one call run at a time,  *)
(* which is what its callers guarantee: Api.tla shows that the handlers'   *)
(* mutex implements it.                                                    *)
(***************************************************************************)
EXTENDS SequencesExt, BatchNames

CONSTANTS
    Tables,       \* table references
    Callers,      \* threads that hold a reference to the store
    Schemas,      \* table schemas, as create_table is given them
    Committable,  \* the schemas a table commitment can be built for
    Batches,      \* record batches, each a sequence of rows
    Capacities,   \* numbers of rows a process may be started for
    Torn,         \* contents of a file whose write did not complete
    Missing,      \* no file there
    MaxFiles,     \* bound: parquet files per table
    MaxFaults     \* bound: refused file operations and restarts, together

\* The rows there are.
Row == UNION {{b[k] : k \in DOMAIN b} : b \in Batches}

ASSUME DbAssumption ==
    /\ Committable \subseteq Schemas
    /\ <<>> \in Batches /\ Batches \subseteq Seq(Row)
    /\ Capacities \subseteq Nat
    /\ MaxFiles \in Nat /\ MaxFaults \in Nat
    /\ Torn # Missing
    /\ Torn \notin [schema: Schemas, batch: Batches]
    /\ Torn \notin Batches /\ Torn \notin Seq(Batches) /\ Missing \notin Seq(Batches)

VARIABLES
    disk,         \* per table: its directory, its parquet files, its commitment
    call,         \* per caller: the call it is in, or what its last one returned
    powers,       \* powers of tau this process loaded: its capacity in rows
    faults,       \* refused operations and restarts so far
    acked,        \* history, per table: the batches of the calls that ended Ok
    interrupted   \* history: tables on which a call failed after changing them

vars == <<disk, call, powers, faults, acked, interrupted>>

(***************************************************************************)
(* A whole parquet file: the schema it was written with and its rows.      *)
(* File number i of a table is files[i + 1]; a table without a directory   *)
(* has no files.  A readable commitment is, up to the collision resistance *)
(* of the commitment scheme, the sequence of batches it was extended with. *)
(***************************************************************************)
WholeFile == [schema: Schemas, batch: Batches]
TableDir  == [dir: BOOLEAN, files: Seq(WholeFile \cup {Torn}),
              commit: Seq(Batches) \cup {Torn, Missing}]

NoDir == [dir |-> FALSE, files |-> <<>>, commit |-> Missing]

(***************************************************************************)
(* The steps of a call that writes, in order, each named for what it is    *)
(* about to do: create the directory (create_table only), create the       *)
(* parquet file, write and close it, extend the commitment and truncate    *)
(* its file, write the commitment out.                                     *)
(***************************************************************************)
Steps   == {"mkdir", "open", "write", "extend", "store"}
Results == {"Ok", "AlreadyExists", "NotFound", "Empty", "SchemaMismatch",
            "Io", "Parquet", "Decode", "Commit", "None"}

Returned(r) == [pc |-> "idle", ret |-> r]

Call == [pc: {"idle"}, ret: Results]
        \cup [pc: Steps, t: Tables, file: WholeFile, n: Nat,
              commitment: Seq(Batches)]

TypeOK ==
    /\ disk \in [Tables -> TableDir]
    /\ call \in [Callers -> Call]
    /\ powers \in Capacities
    /\ faults \in 0 .. MaxFaults
    /\ acked \in [Tables -> Seq(Batches)]
    /\ interrupted \subseteq Tables

Init ==
    /\ disk = [t \in Tables |-> NoDir]
    /\ call = [c \in Callers |-> Returned("None")]
    /\ powers \in Capacities
    /\ faults = 0
    /\ acked = [t \in Tables |-> <<>>]
    /\ interrupted = {}

---------------------------------------------------------------------------
(***************************************************************************)
(* Reading a table: what the store's readers return for the directory d.   *)
(* Each has an operator for its error, "Ok" if there is none, and one for  *)
(* the value it returns when there is none.                                *)
(***************************************************************************)

\* read_schema of the first file in file order, which is always file 0.
SchemaError(d) ==
    IF ~d.dir                 THEN "NotFound"
    ELSE IF d.files = <<>>    THEN "Empty"
    ELSE IF d.files[1] = Torn THEN "Parquet"
    ELSE "Ok"

SchemaOf(d) == d.files[1].schema

CommitmentError(d) ==
    IF ~d.dir                  THEN "NotFound"
    ELSE IF d.commit = Missing THEN "Io"
    ELSE IF d.commit = Torn    THEN "Decode"
    ELSE "Ok"

\* table_data stops at the first file, in file order, that is not whole.
DataError(d) ==
    IF SchemaError(d) # "Ok" THEN SchemaError(d)
    ELSE IF \E k \in 1 .. Len(d.files) : d.files[k] = Torn THEN "Parquet"
    ELSE "Ok"

DataOf(d) ==
    LET order == ParquetOrder(Len(d.files))
    IN  [k \in 1 .. Len(d.files) |-> d.files[order[k] + 1].batch]

Rows(batches) == FlattenSeq(batches)

---------------------------------------------------------------------------
Running(c) == call[c].pc # "idle"
Quiet      == \A c \in Callers : ~Running(c)

Return(c, r) == call' = [call EXCEPT ![c] = Returned(r)]

Begin(c, step, t, file, n, commitment) ==
    call' = [call EXCEPT ![c] = [pc |-> step, t |-> t, file |-> file, n |-> n,
                                 commitment |-> commitment]]

Advance(c, step) == call' = [call EXCEPT ![c].pc = step]

\* File::create and the writes that follow it, on file number n.
PutFile(files, n, content) ==
    IF n < Len(files) THEN [files EXCEPT ![n + 1] = content]
                      ELSE Append(files, content)

---------------------------------------------------------------------------
\* Mistake: create_table does not look for the directory first.
CreateTable_Again(c, t, s) ==
    /\ ~Running(c)
    /\ Begin(c, "mkdir", t, [schema |-> s, batch |-> <<>>], 0, <<>>)
    /\ UNCHANGED <<disk, powers, faults, acked, interrupted>>

(***************************************************************************)
(* create_table up to its first change, creating the directory.            *)
(***************************************************************************)
CreateTable(c, t, s) ==
    /\ ~Running(c)
    /\ \/ disk[t].dir /\ Return(c, "AlreadyExists")
       \/ /\ ~disk[t].dir
          /\ Begin(c, "mkdir", t, [schema |-> s, batch |-> <<>>], 0, <<>>)
    /\ UNCHANGED <<disk, powers, faults, acked, interrupted>>

(***************************************************************************)
(* insert up to its first change, creating the next parquet file.  The new *)
(* file's number is the number of parquet files found in the directory.    *)
(***************************************************************************)
InsertError(d, s) ==
    IF SchemaError(d) # "Ok"   THEN SchemaError(d)
    ELSE IF SchemaOf(d) # s    THEN "SchemaMismatch"
    ELSE CommitmentError(d)

\* Mistake: the new file is numbered after the last one, not after all.
Insert_Overwrites(c, t, s, b) ==
    /\ ~Running(c)
    /\ InsertError(disk[t], s) = "Ok"
    /\ Begin(c, "open", t, [schema |-> s, batch |-> b],
             Len(disk[t].files) - 1, disk[t].commit)
    /\ UNCHANGED <<disk, powers, faults, acked, interrupted>>

Insert(c, t, s, b) ==
    /\ ~Running(c)
    /\ LET d == disk[t]
           e == InsertError(d, s)
       IN  \/ e # "Ok" /\ Return(c, e)
           \/ /\ e = "Ok"
              /\ Len(d.files) < MaxFiles
              /\ Begin(c, "open", t, [schema |-> s, batch |-> b],
                       Len(d.files), d.commit)
    /\ UNCHANGED <<disk, powers, faults, acked, interrupted>>

---------------------------------------------------------------------------
(***************************************************************************)
(* The writing steps shared by create_table and insert.                    *)
(***************************************************************************)
MakeDir(c) ==
    /\ call[c].pc = "mkdir"
    /\ disk' = [disk EXCEPT ![call[c].t].dir = TRUE]
    /\ Advance(c, "open")
    /\ UNCHANGED <<powers, faults, acked, interrupted>>

OpenBatch(c) ==
    LET k == call[c] IN
    /\ k.pc = "open"
    /\ disk' = [disk EXCEPT ![k.t].files = PutFile(@, k.n, Torn)]
    /\ Advance(c, "write")
    /\ UNCHANGED <<powers, faults, acked, interrupted>>

WriteBatch(c) ==
    LET k == call[c] IN
    /\ k.pc = "write"
    /\ disk' = [disk EXCEPT ![k.t].files = PutFile(@, k.n, k.file)]
    /\ Advance(c, "extend")
    /\ UNCHANGED <<powers, faults, acked, interrupted>>

(***************************************************************************)
(* The commitment scheme takes the batch: its schema can be committed to,  *)
(* and the rows covered so far and the new ones fit the powers loaded.     *)
(***************************************************************************)
CanExtend(k, p) ==
    /\ k.file.schema \in Committable
    /\ Len(Rows(k.commitment)) + Len(k.file.batch) <= p

\* Mistakes: the commitment is started over from the batch, it is not
\* extended at all, or it is extended with all rows so far.
ExtendCommitment_With(c, commitment) ==
    /\ call[c].pc = "extend"
    /\ CanExtend(call[c], powers)
    /\ disk' = [disk EXCEPT ![call[c].t].commit = Torn]
    /\ call' = [call EXCEPT ![c].pc = "store", ![c].commitment = commitment]
    /\ UNCHANGED <<powers, faults, acked, interrupted>>

ExtendCommitment_Fresh(c)   == ExtendCommitment_With(c, <<call[c].file.batch>>)
ExtendCommitment_Forgets(c) == ExtendCommitment_With(c, call[c].commitment)
ExtendCommitment_AllRows(c) ==
    LET k == call[c] IN
    ExtendCommitment_With(c, Append(k.commitment, Rows(k.commitment) \o k.file.batch))

ExtendCommitment(c) ==
    LET k == call[c] IN
    /\ k.pc = "extend"
    /\ CanExtend(k, powers)
    /\ disk' = [disk EXCEPT ![k.t].commit = Torn]
    /\ call' = [call EXCEPT ![c].pc = "store",
                            ![c].commitment = Append(@, k.file.batch)]
    /\ UNCHANGED <<powers, faults, acked, interrupted>>

StoreCommitment(c) ==
    LET k == call[c] IN
    /\ k.pc = "store"
    /\ disk' = [disk EXCEPT ![k.t].commit = k.commitment]
    /\ acked' = [acked EXCEPT ![k.t] = Append(@, k.file.batch)]
    /\ Return(c, "Ok")
    /\ UNCHANGED <<powers, faults, interrupted>>

---------------------------------------------------------------------------
(***************************************************************************)
(* Failures.  A call has changed its table from the moment it created the  *)
(* directory or the new file; nothing it changed is ever undone.           *)
(***************************************************************************)
Dirty(k) == \/ k.pc \in {"write", "extend", "store"}
            \/ k.pc = "open" /\ k.n = 0

Fail(c, r) ==
    /\ interrupted' = interrupted \cup {t \in Tables : Dirty(call[c]) /\ call[c].t = t}
    /\ Return(c, r)
    /\ UNCHANGED <<disk, powers, acked>>

\* The commitment cannot be computed or extended; the batch stays on disk.
RejectBatch(c) ==
    /\ call[c].pc = "extend"
    /\ ~CanExtend(call[c], powers)
    /\ Fail(c, "Commit")
    /\ UNCHANGED faults

\* Mistake: the failed call removes the table's last file, created or not.
FileError_Undoes(c) ==
    LET k == call[c] IN
    /\ k.pc \in {"open", "write"} /\ disk[k.t].files # <<>>
    /\ faults < MaxFaults
    /\ faults' = faults + 1
    /\ disk' = [disk EXCEPT ![k.t].files = SubSeq(@, 1, Len(@) - 1)]
    /\ Return(c, "Io")
    /\ UNCHANGED <<powers, acked, interrupted>>

\* The operating system refuses the call's next file operation.
FileError(c) ==
    /\ Running(c)
    /\ call[c].pc = "extend" => CanExtend(call[c], powers)
    /\ faults < MaxFaults
    /\ faults' = faults + 1
    /\ Fail(c, IF call[c].pc = "write" THEN "Parquet" ELSE "Io")

(***************************************************************************)
(* The process is killed and started again on the same directory, possibly *)
(* for another capacity: open creates nothing that is already there.       *)
(***************************************************************************)
Restart ==
    /\ faults < MaxFaults
    /\ faults' = faults + 1
    /\ interrupted' = interrupted \cup
           {t \in Tables : \E c \in Callers : Dirty(call[c]) /\ call[c].t = t}
    /\ call' = [c \in Callers |-> Returned("None")]
    /\ powers' \in Capacities
    /\ UNCHANGED <<disk, acked>>

---------------------------------------------------------------------------
Write(c) == \/ MakeDir(c)
            \/ OpenBatch(c)
            \/ WriteBatch(c)
            \/ ExtendCommitment(c)
            \/ StoreCommitment(c)
            \/ RejectBatch(c)

Next ==
    \/ /\ Quiet
       /\ \E c \in Callers, t \in Tables, s \in Schemas :
             \/ CreateTable(c, t, s)
             \/ \E b \in Batches : Insert(c, t, s, b)
    \/ \E c \in Callers : Write(c) \/ FileError(c)
    \/ Restart

Spec == Init /\ [][Next]_vars

---------------------------------------------------------------------------
Readable(d) == d.commit \notin {Torn, Missing}

\* No call has changed table t and not yet returned.
Settled(t) == \A c \in Callers : Running(c) => call[c].t # t \/ ~Dirty(call[c])

\* The batches u are whole among the first n files, in the files' order.
FoundIn(u, files, n) ==
    \E at \in [1 .. Len(u) -> 1 .. n] :
        /\ \A i, j \in 1 .. Len(u) : i < j => at[i] < at[j]
        /\ \A i \in 1 .. Len(u) : /\ files[at[i]] # Torn
                                  /\ files[at[i]].batch = u[i]

(***************************************************************************)
(* A table no call failed on half way has data, a commitment, and the      *)
(* commitment is of exactly that data in exactly that order.  This is what *)
(* lets a proof over the data verify against the commitment.  It stops     *)
(* holding once a table has more files than the names' padding can order.  *)
(***************************************************************************)
CommitMatchesData ==
    \A t \in Tables :
        LET d == disk[t] IN
        d.dir /\ t \notin interrupted /\ Settled(t) /\ Len(d.files) <= Padded
            => /\ DataError(d) = "Ok"
               /\ Readable(d)
               /\ d.commit = DataOf(d)

(***************************************************************************)
(* A commitment that can be read covers the batches that were acknowledged *)
(* and nothing else: no failure, restart or later call takes a batch out   *)
(* of it, and none gets an unacknowledged batch into it.                   *)
(***************************************************************************)
CommitIsAcked ==
    \A t \in Tables : Readable(disk[t]) => disk[t].commit = acked[t]

(***************************************************************************)
(* Every acknowledged batch stays on disk, whole, once and in order: the   *)
(* number insert gives a new file is never that of an acknowledged one,    *)
(* whatever failed before.                                                 *)
(***************************************************************************)
AckedSurvives ==
    \A t \in Tables : FoundIn(acked[t], disk[t].files, Len(disk[t].files))

(***************************************************************************)
(* A failure never leaves a table whose data disagrees with its commitment *)
(* but is as long as it says: either the rows are the same, or the data    *)
(* has more of them.  So the row count a verifier takes from a commitment  *)
(* is enough to reject every table a failure left half written.            *)
(***************************************************************************)
LengthTells ==
    \A t \in Tables :
        LET d == disk[t] IN
        DataError(d) = "Ok" /\ Readable(d) /\ Len(d.files) <= Padded
            => \/ Rows(d.commit) = Rows(DataOf(d))
               \/ Len(Rows(d.commit)) < Len(Rows(DataOf(d)))

(***************************************************************************)
(* A whole parquet file is never changed or removed, and a directory never *)
(* goes away, by any call, failure or restart.                             *)
(***************************************************************************)
AppendOnly ==
    [][\A t \in Tables :
          /\ disk[t].dir => disk'[t].dir
          /\ \A k \in 1 .. Len(disk[t].files) :
                disk[t].files[k] # Torn
                    => /\ k <= Len(disk'[t].files)
                       /\ disk'[t].files[k] = disk[t].files[k]]_vars

(***************************************************************************)
(* What insert's comment promises, "Appends `batch` to the table": the     *)
(* data of an undisturbed table is the batches in the order they were      *)
(* acknowledged, however many there are.                                   *)
(***************************************************************************)
InsertAppends ==
    \A t \in Tables :
        disk[t].dir /\ t \notin interrupted /\ Settled(t)
            => DataOf(disk[t]) = acked[t]
===========================================================================
