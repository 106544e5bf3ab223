# A TLA+ model of sxt-enterprise

`sxt-enterprise` is a small SQL service whose answers carry proofs. Tables live
on disk, one directory per table, as numbered parquet files and one commitment
to all rows; clients create tables, append rows and ask queries over HTTP; a
proof is checked by anyone who has the commitments. This directory holds a
model of the service's state and of everything that changes it, checked with
TLC, and machine-checked proofs, for every value of the parameters, of all its
safety properties. Paths below are in the repository.

The hard part of this program is not its code, of which there is little, but
what its few file operations and one mutex leave possible: a call that stops
half way, a process that is killed and started again for another capacity,
requests that wait for each other. The central question is when the rows on
disk and the commitment to them agree, since a proof is of the one and is
verified against the other.

## The system

| Part | State | Operations | What makes it correct |
| --- | --- | --- | --- |
| store, `src/db.rs` | a directory per table: `NNNNNN.parquet`, `table.commit`; nothing in memory | `open`, `create_table`, `insert`, `data`, `schema`, `commitments`, `tables` | the commitment is of the data; acknowledged rows stay; the commitment covers acknowledged rows and no others; nothing is overwritten |
| shared state and router, `src/api/mod.rs`; health | one mutex on the store, the powers of tau | one handler per route | the store sees one call at a time; every request is answered |
| table handlers, `src/api/tables.rs` | none | create, list, show | a table is created once; errors say what happened |
| row handler, `src/api/rows.rs` | none | insert | rows are decoded and inserted against one schema |
| query handler, `src/api/query.rs` | none | query | the proof and the commitments in an answer are of the same rows |
| prover, `src/prove.rs` | none | `table_refs`, `prove`, `coerce_scalars` | reads all tables once; refuses what exceeds its capacity |
| verifier, `src/verify.rs`, `src/setup/verifier.rs` | none | `verify` | accepts only a proof over the committed rows |
| command line, `src/cli.rs` | `setup.bin`; `verify` reads a response file and commitment files | serve, setup, verify | a process that serves has enough powers, whatever happened to the cache |
| prover setup, `src/setup/prover.rs` | none | `from_file`, `from_ptau_url`, `to_compressed` | gives as many powers as asked for, or fails |
| column types, `src/column.rs` | none | parse, name | the two directions agree |

A handler takes the mutex, calls the store, which reads and writes files, and
answers; `serve` resolves the powers of tau first and passes them to every
handler. The `verify` command shares nothing with a running service but the
files. Hard behaviour: concurrency (requests, several processes on one
directory's `setup.bin`), failure (a refused file operation, a full disk, a
batch the commitment does not take), crash and restart, numeric limits (six
digits of a file name, the width of `usize`, the proving capacity). There are
no messages between servers, no timeouts and no retries in the code.

## Modules

    BatchNames  <-  FileNames, NamesProofs
         ^
         |
         Db  <-  DbProofs, DbLedger  <-  LedgerProofs  <-  MCDb    (db, db_names)
                     |        |
                     |        +-- INSTANCE --> Ledger
          INSTANCE   |
       +-------------+
       |             |
      Api            Audit
       ^             ^
    ApiProofs        AuditProofs
       ^             ^
     MCApi           MCAudit
     (api, api_live, api_crash, api_conflict; audit, audit_grown)

    FileNames, NamesProofs, ColumnTypes, ScalarCoercion
                        <-  PureProofs  <-  MCPure                 (pure)

    SetupCache  <-  SetupProofs  <-  MCSetupCache                  (setup, setup_fetch, setup_wrap)

    SequenceLemmas: used by every module of proofs

    (M <- N: N EXTENDS M, unless INSTANCE is written at the arrow)

**Db** models `src/db.rs`. `disk` holds, per table, whether its directory
exists, its parquet files and its commitment. A file or commitment whose write
did not complete is `Torn`. A commitment is represented by the sequence of
batches it was extended with: up to collision resistance of the scheme, two
commitments are equal when the rows and their order are. `call` is, per caller,
the call it is in, with the locals that survive from step to step (the number
of the new file, the commitment read at the start). `create_table` and `insert`
share their writing steps:

| Step | Code | Action |
| --- | --- | --- |
| checks, reads | `db.rs:91-94`; `114-124` | `CreateTable`, `Insert` |
| `create_dir_all` | `db.rs:95` | `MakeDir` |
| `File::create` | `db.rs:234` | `OpenBatch` |
| write and close | `db.rs:235-236` | `WriteBatch` |
| extend, truncate the commitment's file | `db.rs:98`, `126`, `260` | `ExtendCommitment`, or `RejectBatch` |
| write it out, return | `db.rs:260` | `StoreCommitment` |
| any of them is refused | every `?` | `FileError` |
| the process dies and is started again | `cli.rs:159-167` | `Restart` |

The reading operations are operators over the directory (`SchemaError`,
`DataOf`, ...), which the handlers in Api use. `acked` and `interrupted` are
history variables: the batches of the calls that returned Ok, and the tables
some call failed on after it had changed them. No guard reads them.

**BatchNames** is the order `parquet_paths` returns files in, as arithmetic on
the file numbers: below 10^6 it is the order of the numbers, from there on it
is not. **FileNames** spells the names out and shows that the arithmetic
agrees with comparing them as strings. Powers of the radix, like the powers of
two in SetupCache, are recursive functions, which can be reasoned about where
the operator `^` cannot.

**Ledger** is the store as its callers would like it: one step per call. A
table is made, or abandoned; a batch joins the rows and the commitment
together, or strays: it joins the rows only, or damages the data, and may close
the table. **DbLedger** maps Db to it. A call takes effect when it ends, so the
directory and the file of a call under way are left out of the view; a table is
open while its commitment can be read.

**Audit** models the `verify` command beside the service. `Serve` is Db's own
next step, one call at a time as Api shows; `Answer` saves one response, which
Api's query handler makes under the mutex and which is therefore one step here.
The auditor may copy each table's commitment file at any time (`Copy`, outside
the repository: README.md advises it). The command reads a file per step
(`ReadPinned`, `pinned_commitment`), in any order, from the service's directory
or the copy, whatever a call has done to it just then; or takes the response's
own commitments if there is no directory (`Begin`); and then decides (`Check`,
`verify::verify`). `agreed` and `grown` are history.

**ScalarCoercion** models how an aggregate reaches its answer: rows are summed
in the prover's field, and `coerce_scalars` turns each sum into an integer of
the column's declared type or fails the query. `totals` is history: the sums in
the integers.

**ColumnTypes** models `src/column.rs`, and around it the way of a table's
columns: a body of `POST /tables`, arrow fields, the commitment's metadata, the
answer of `GET /tables/{table}`.

**Api** models `src/api`, with one process per request. `db` is the mutex,
`pc` where a request's handler is; a handler that waits for the mutex keeps one
of `NumWorkers` worker threads, since the mutex blocks. Calls that change the
store are Db's own actions, taken through `INSTANCE`; reads under one hold of
the mutex that only look at the disk are one step each, and the query handler's
two reads are two. `before` is a history variable.

A query with a table name that cannot be parsed (`Misnamed`) is turned away
before the store is needed, as a bad request is, but with a 500 (`prove.rs:59`,
`query.rs:38`).

**SetupCache** models how `serve` and `setup` (`src/cli.rs`,
`src/setup/prover.rs`) find, fetch, read and write the powers of tau in
`setup.bin`: any number of processes, killed at any point. The file is read and
written in steps of some points (`ReadPoints`, `WriteCache`), as `fs::read` and
`fs::write` are loops of system calls; a writer goes on at its own offset after
another process has truncated the file, which leaves zeros. `made` is history:
how the file came to be what it is.

**...Proofs** modules hold the theorems about the modules they are named after;
PureProofs those about FileNames, ColumnTypes and ScalarCoercion, NamesProofs
the lemmas about file numbers that DbProofs shares with it, and SequenceLemmas
what the library does not say of sequences, prefixes, sums and powers.

**MC...** modules give the constants finite values. The operators marked
*Mistake* in a module are wrong versions of the definition that follows them.
Each property is known to fail when one of them stands in for it; nothing else
uses them.

## What the runs check

| Run | Question | Size |
| --- | --- | --- |
| `db` | Is the store right through every failure? `CommitMatchesData`: an undisturbed table's commitment is of its data. `CommitIsAcked`: a readable commitment covers the acknowledged batches and no others. `AckedSurvives`: these are on disk, whole and in order. `LengthTells`: a commitment that disagrees with the data says fewer rows than there are, so a verifier can tell. `AppendOnly`: whole files never change. `ImplementsLedger`: a call, stopped anywhere, is one of the few things a ledger allows. `Inv`: the proofs' invariant | 115k states |
| `api` | Three requests of all kinds. `FreshReads`: an answer has everything acknowledged before its request. `CreatedOnce`. `ErrorsExplained`: without a fault, a 500 is for the SQL or goes back to a create or insert of the table, its own or one answered before, that could not be done; never to what another request is in the middle of. `ImplementsStore`: the handlers' mutex makes Api a refinement of Db. `ProofVerifies`: proof and commitments of an answer agree unless a call failed on the table. `EachInsertCounts`: what an insert's answer, or the lack of one, says about its rows, which is what a client's retry relies on | 587k |
| `api_live` | `Answered`: a request that arrives is answered or lost with the process | 350k |
| `audit` | What does `verify` accept and refuse while the service writes? `AcceptedRowsWereCommitted`: only rows that were, for each table at some moment since the proof, all those acknowledged. `StaleRefused`: not by a directory that has grown, unless a call failed on the table. `RefusedOnlyIfChanged`: an honest response is refused only when a table of it changes. `PinnedStaysTrue`: a copied commitment stays one to the leading batches | 2.2M |
| `pure` | Do the parts without state do what they should on every input? `NamesCompare`, `SortedByName`: `BatchNames` says what comparing the names as strings says. `Recreatable`: a table can be made again from what `GET /tables/{table}` shows of it. `AnsweredExactly`, `RefusedWhenTooLarge`: an aggregate is the sum of its rows or, if that does not fit, refused; `Inv`: the invariant of its proofs | 399k |
| `setup` | `CoversRows`: nobody serves with too few powers, however the file is cut off, truncated and written by several. `OwnCacheIsGood`: a file truncated while nobody else writes it is powers of tau wherever its writer stops; one truncated beside writers of no more points has only gaps that one of them will fill | 1.3M |

Six runs show a text of the repository and its code disagreeing:

* `api_crash`: a query's answer has "The commitments the proof was proved
  against" (`query.rs:67`). After an insert that stopped between writing its
  rows (`db.rs:125`) and storing the commitment (`db.rs:127`), an answer's
  proof is over more rows than its commitments. A later insert does not repair
  it: the stray rows stay in the data, in the middle, and out of the commitment.
* `api_conflict`: "A table already exists under this reference" (`db.rs:47`)
  is also answered for a table whose creation failed after `db.rs:95`, and
  which no later call can create.
* `db_names`: `insert` "Appends `batch` to the table" (`db.rs:103`), but the
  file after number 999999 is not read back last (`db.rs:218`, `224`). The run
  uses names padded to one digit of base 3, so that it happens at the fourth
  file.
* `setup_fetch`: `ptau_url_for` gives "The ceremony file whose powers cover
  `capacity`" (`cli.rs:131`); for capacities 1 and 2 it names files below the
  "smallest published file" (`setup/verifier.rs:56`). As in the ceremony, the
  smallest file of the instance is that for 4 powers.
* `setup_wrap`: `from_file` "Fails if the file ... holds fewer than `points`
  powers" (`setup/prover.rs:47-49`); from 2^59 points on the byte count wraps
  (`setup/prover.rs:94`) and it returns a setup of none.
* `audit_grown`: "A response proved before an insert will not verify against a
  commitments directory that has since grown" (`README.md:131`). If an insert
  failed after `db.rs:125`, a query proved over its rows, and the client then
  repeated the insert, it does: the commitment now covers as many of these rows
  as the proof is over, while the data has them twice.

Three smaller ones have no run: `prove.rs:65` refers to `Db::snapshot`, which
does not exist; `verify` warns "no --commitments given" (`cli.rs:187`) also when
the given directory does not exist; and `parse_column_type` "Fails if `name` is
not valid SQL" (`column.rs:16`), but reads only as much of it as makes a type,
so that "BIGINT nonsense" is a BIGINT.

## Bounds, and why they are enough

* `MaxFiles` bounds the files of a table: the batch of the creation and two
  inserts in `db`, and more than there are requests in Api, where the bound can
  never stop a call (`ApiAssumption`). The invariants relate neighbouring files
  and the end of the sequence; two inserts after a creation show an insert
  after a failed insert and one after that.
* `MaxFaults` bounds refused file operations and restarts together: two in
  `db`, so that a failure strikes a table that has suffered one; one in Api.
* Batches of no, one and two rows and capacities of one and three rows make an
  insert that fits, one that no longer does, and one that does again after a
  restart. Schemas: two a commitment can be built for, so that an insert can
  mismatch, and one that none can be built for (one with a column twice).
* Two tables suffice: the store's steps touch one, only queries read several,
  and a query's tables are independent but for being read together.
* Requests: `CreatedOnce` and the store's refinement need two that race and one
  to see the result; an insert racing a query after a create, or an insert and
  its repetition, needs three. Workers are fewer than requests, so that some
  wait.
* `audit`: two tables, so that one file is read before a call and the other
  after it; a creation and two inserts, so that an insert fails and is repeated;
  one failure. One response and one `verify` suffice, as a `verify` leaves
  nothing behind. The service is followed while a file is still to be read, and
  a copy is finished before the `verify`; calls that the store turns away at
  once are left out, as they change nothing.
* `pure`: names padded to two digits of base 3, up to one digit more. Two
  columns, for their order and for two of one name. A field of 19 elements and
  types of 4, 8 and 16 values stand for the curve's field and types of 8 to 128
  bits; three rows of at most 3 leave them at either end and stay below half
  the field, as `FieldAssumption` asks; in the code that is 128-bit values in a
  field of 254 bits.
* In SetupCache words are 5 bits wide and points 2 bytes, so the byte count of
  16 points wraps as that of 2^59 points does; `FirstCaches` are no file, one
  from an earlier smaller run, and one that is no setup. Files are published for
  4 and 8 powers, so that two processes can write files of different sizes. Two
  processes and four starts: one truncates what the other writes, either of them
  stops, and two more read what is left or write it again.
* Radix and Padded are the code's 10 and 10^6 wherever names do not matter.

Symmetry is used over requests, tables, schemas and processes, which the
specifications treat alike, and never in the run with a liveness property. Deadlock is checked
everywhere but in `pure` and the setup runs, whose systems really end.

## Fairness

`FairSpec` makes each request's `Poll` and `Handle` weakly fair. The tokio
runtime polls every ready task in turn once a worker is free, a handler runs
without a break, and parking_lot's mutex is eventually fair. Weak fairness is
enough since a request is one call: only finitely many handlers can pass a
waiting one. Nothing obliges a client to send (`Send`) and no failure is
obliged to happen (`Restart`, `FileError` besides the steps it replaces).

## What is proved

The theorems hold for all values of the constants that satisfy the modules'
assumptions: any sets of tables, callers or requests, schemas, bodies, batches
and processes, any number of rows, files, faults, workers and powers, any width
of words and radix and padding of names. The bounds that keep the runs finite
(`MaxFiles`, `MaxFaults`, `MaxStarts`, ...) are constants like the others.

| Module | Theorems (and the property of a run each states) |
| --- | --- |
| DbProofs | `TypeCorrect` (`TypeOK`), `Invariance` (`Inv`), `CommitmentsAreAcknowledged` (`CommitIsAcked`), `AcknowledgedStay` (`AckedSurvives`), `CommitmentsMatch` (`CommitMatchesData`), `LengthTellsAlways` (`LengthTells`), `WholeFilesStay` (`AppendOnly`), `CapacityBounds` |
| LedgerProofs | `StoreImplementsLedger` (`ImplementsLedger`) |
| ApiProofs | `HandlersTakeTurns`, `TypeCorrect`, `StoreImplemented` (`ImplementsStore`), `ErrorsAlwaysExplained` (`ErrorsExplained`), `ReadsAreFresh` (`FreshReads`), `ProofsVerify` (`ProofVerifies`), `CreatedByOne` (`CreatedOnce`), `InsertsCount` (`EachInsertCounts`) |
| AuditProofs | `TypeCorrect`, `PinnedStays` (`PinnedStaysTrue`), `AcceptedWereCommitted` (`AcceptedRowsWereCommitted`), `RefusedWhenChanged` (`RefusedOnlyIfChanged`), `StaleAreRefused` (`StaleRefused`) |
| SetupProofs | `Invariance`, `TypeCorrect`, `OwnCacheStaysGood` (`OwnCacheIsGood`), `RowsAreCovered` (`CoversRows`) |
| PureProofs | `NumbersCompareAsNames` (`NamesCompare`), `ListedByName` (`SortedByName`), `AlwaysRecreatable` (`Recreatable`), `TypeCorrect`, `Invariance` (`Inv`), `AnswersAreExact` (`AnsweredExactly`), `RefusalsAreJustified` (`RefusedWhenTooLarge`) |

**The store.** None of its properties is inductive. What is missing is what a
call in progress knows, and `Inv` adds it in six parts. `Exclusive`: at most
one call runs. `NothingWithoutDir`: a table without a directory has no files,
no commitment and no acknowledged batch. `StillTrue`: what a running call read
of its table at its start (the directory, the number of files, the commitment)
still holds at each of its steps; its file is the last one, torn or whole as
its step says. `CommitIsAcked` and `AckedSurvives` themselves. `Intact`: a
table no call failed on has exactly the files of its acknowledged batches. The
proof goes action by action; the steps of a running call are reduced to a lemma
about the one table they change. That `DataOf` lists the files of an
undisturbed table by number follows from `OrderInPadding`, that below the
padding the order of the names is that of the numbers. `LengthTells` needs
more: the acknowledged batches are found, in order, among the batches of the
files, so their rows are no more than the files' rows
(`SequenceLemmas!FlattenEmbedded`), and as many only if they are the same ones.
`CapacityBounds` states that until the first fault no commitment covers more
rows than the process has powers for, from which ApiProofs concludes that no
query fails for the length of a table.

**The ledger.** `Kinds` adds to `Inv` that `create_table`'s table has no
commitment before its last step and `insert`'s has one until it truncates it.
`ViewIs` gives the view of each table by what is on disk when no call is
changing it, and by what the call found when one is. From there every step
leaves every view as it is, except the one that ends a call, which moves one
account in one of the ledger's ways (`Moves`). A restart ends the one call that
may be under way.

**The service.** `HandlerInv` says that a handler past the mutex is the one the
mutex names, and that a store call runs only for the handler that made it, for
its table and rows. So the store is quiet whenever a call begins
(`QuietUnless`), every step of the service is a step of Db or leaves its
variables alone (`StoreStepOf`), and Db's lemmas can be used: `ServiceInv` is
the two together. Each property is then stated per request and strengthened by
what its handler knows between two of its steps: what a finished call tells
(`Outcome`), that a read is of the disk as it is while the mutex is held
(`UpToDate`, `Proved`), that the request which made the directory is the only
one to be told of it (`OneWinner`), that the inserts credited with their rows
are no more than the places of these rows among the acknowledged batches, and
the whole files of them no more than the inserts that may have written one
(`CountInv`). A request's own action keeps its invariant for a reason, those of
others because the mutex excludes them or because they only add.

**verify.** Two facts about the store carry everything: what was acknowledged
only grows (`Grows`), and a commitment that can be read, at whatever moment, is
of all of it (`ReadsAcked`). So every copy and every file read stays a prefix
(`PinnedInv`), and a response keeps saying what was true when it was made
(`Lasting`). A prefix is either of as many rows or of fewer
(`PrefixRows`), which decides what is refused; `AgreedInv` follows which
commitments could have been of the response's rows, and since when.

Whose fault a 500 is takes a second invariant (`BlameInv`). Until the first
fault a table is interrupted only by a call whose rows cannot be committed to
(`DbProofs!FaultlessStep`), so each such table has a request that could not be done
and has been answered 500, or is about to be (`Blamed`). It still could not be
done later, since rows are only added and the powers stay the same
(`ImpossibleStays`). Its answer comes before the mutex is given back, so any
other request that fails on the table is answered after it (`AnswersLast`).

**setup.bin.** `Inv` says what a process holds, and how the file looks behind
its writers. What was read by a process that goes on is enough for its rows,
and others may rewrite the file but not that. A file truncated `alone` is
`Whole`: powers up to its end, and its writer not past it. Of the writers of a
`shared` one, until it is whole, one `Leads`: it is to write as far as the file
and every other writer go, and the file is powers as far as it has come. A write
keeps that until the leader is done, when the file is whole (`WriteKeeps`), and
a truncation starts over with a new leader (`OpenKeeps`).

**File names.** The first `Width` characters of a name are the digits of
`Leading`, the number itself or the number without its last digit (`NameIs`).
Two of them are decided at the first digit in which they differ
(`DigitsDecide`); if there is none the next character decides, which is "." in
the shorter name and the last digit in the longer ones. The induction
over the digits is one over sets of numbers (`SequenceLemmas!Induction`,
`LeastNumber`), and so are those over sequences: the induction theorems of the
library take operators as parameters and cannot be used here.

**Columns and aggregates.** What a table shows of a column is the name of the
type its text was parsed as, and that name is parsed as that type
(`CommittedBack`, `NamedBack`, `ShownFields`). The invariant of the aggregates
bounds each total by the rows so far; since no total passes half the field, its
element stands for it alone (`Distinguished`) and field addition is that of the
integers (`AddsUp`).

Proving corrected the model and its properties in these places:

* `RefusedOnlyIfChanged` and `ProofVerifies` hold only of tables with no more
  files than their names' padding can order. The runs, with a padding of 10^6,
  could not tell; `db_names` shows why.
* `CoversRows` holds only of row counts whose bytes can be counted in a word
  (`Countable`); `setup_wrap` shows what happens to the others.
* An earlier Ledger, in which a call took effect at one of its writes, did not
  follow from what the store guarantees. Now a call takes effect when it ends,
  and an abandoned table has one of three sets of rows.
* An instance in which a batch has the value that stands for a torn file was not
  excluded. It is now (`DbAssumption`).
* `CASE` expressions of errors whose arms overlap said more than the code, whose
  first error returns: they are `IF`s now.

Model-checked only: `Answered` (liveness is out of the proof system's reach),
and the six properties that are expected to fail.

## Assumptions and what is not modelled

* One `serve` per data directory. Nothing in the code enforces it; with two the
  mutex no longer protects the store.
* A crash ends the process, not the machine: what was written before it is
  found after it, in the order it was written. Power loss is not modelled.
* A file that can be read is read whole. A read the operating system refuses
  changes nothing and ends in the 500 that other errors of the call end in.
* `fs::write` of a commitment is a truncation and one write, as it is far
  smaller than what one system call takes; a commitment's file is whole after
  the one and unreadable before it. Only one process writes it. For
  `setup.bin`, which may be larger than one call takes and which other processes
  may truncate, no such thing is assumed: reads and writes are of any number of
  points at a time. They stop between two points, since pages and buffers are
  multiples of the 32 bytes of a point.
* Zeros are not a point of the curve, since 3 is not a square in its field: a
  setup that needs a point of a hole ends in `Deserialize`.
* What the model shows of two writers is not only good. If a process truncates
  `setup.bin` between two writes of another, and then is the smaller one or one
  of the two stops before its end, zeros stay in the file (`made = "spoilt"`),
  and every later serve that needs the points fails with `Deserialize` until
  `setup.bin` is removed or written again: `resolve_setup` fetches anew only when
  the file is too small (`cli.rs:147`). Nobody serves with them (`CoversRows`).
  No text of the repository contradicts it, so it is no finding.
* An insert is acknowledged when its commitment is completely written, and the
  return is the same step: whether the client hears of it is not modelled.
* What `proof_of_sql` refuses to commit to (a repeated column, rows beyond the
  powers loaded) is an error of the call. Should it end in a panic, the disk is
  left the same, and the mutex is not poisoned.
* Proofs are abstract: one over given rows verifies against the commitment to
  those rows, in their order, and no other. SQL and planning are not
  modelled; JSON decoding is reduced to whether the rows fit the schema.
* A response and a commitment file decode as what was encoded, or, when the
  file is not whole, not at all. `verify` is given an honest response: what a
  forged one could do is a question about the proof system.
* `verify` converts its table without `coerce_scalars` (`verify.rs:77`). What a
  field element becomes then is decided outside the repository; not modelled.
* sqlparser reads the type a text starts with and leaves the rest; the types of
  the commitment and of arrow correspond one to one.
* `src/main.rs`, `src/lib.rs`, `src/setup/mod.rs` and `src/setup/verifier.rs`
  hold no state and make no choice.

## Plan

Everything in the inventory that is not left out above is modelled, every
safety property a passing run checks has a theorem, and the two refinements are
proved. Left:

1. **Properties of the compositions.** ApiProofs and AuditProofs use DbProofs'
   lemmas step by step. With `StoreImplemented`, Db's theorems could be lifted
   as temporal facts instead, which would shorten both.
2. **Audit of the service itself.** Audit's `Serve` is Db's next step. A
   theorem that Api, with the auditor beside it, implements Audit would carry
   the five results of AuditProofs over to Api.
3. **Failures.** `ProofVerifies` and `StaleRefused` speak of tables no call
   failed on. How far the data of the others can differ is bounded by
   `AcknowledgedStay` and `EachInsertCounts`; one statement of both is open.
