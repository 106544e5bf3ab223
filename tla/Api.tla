-------------------------------- MODULE Api --------------------------------
(***************************************************************************)
(* The HTTP handlers of src/api over the store of Db.  Every handler that  *)
(* touches the store takes one mutex (AppState.db), runs on one of the     *)
(* runtime's worker threads, and does not give the thread back before it   *)
(* answers, even while it waits for the mutex.                             *)
(*                                                                         *)
(* A request is a process: it arrives with a body, is given a worker, and  *)
(* runs its handler to an answer, or is lost when the process is killed.   *)
(***************************************************************************)
EXTENDS SequencesExt, FiniteSetsExt

CONSTANTS
    Tables, Schemas, Committable, Batches, Capacities, Torn, Missing,
    MaxFiles, MaxFaults, Radix, Padded,      \* as in Db and BatchNames
    Requests,     \* the requests clients send
    Bodies,       \* what they may ask for, see Body
    NumWorkers,   \* threads of the runtime
    NoRequest     \* nobody holds the mutex

VARIABLES
    disk, call, powers, faults, acked, interrupted,     \* as in Db
    db,       \* the request whose handler holds the mutex on the store
    pc,       \* per request: where its handler is
    body,     \* per request: what it asks for
    answer,   \* per request: what its handler has computed of its answer
    before    \* history, per request: acked when it arrived

\* The store, with what is proved of it.
Store == INSTANCE DbProofs WITH Callers <- Requests

ASSUME StoreAssumption == Store!DbAssumption /\ Store!NamesAssumption

storeVars == <<disk, call, powers, faults, acked, interrupted>>
apiVars   == <<db, pc, body, answer, before>>
vars      == <<disk, call, powers, faults, acked, interrupted,
               db, pc, body, answer, before>>

(***************************************************************************)
(* Request bodies.  Rows are shaped for a schema and can be decoded for a  *)
(* table that has it.  "Refused" is any request turned down as bad before  *)
(* the store is needed: an unparsable table name in a path or in a body,   *)
(* an unsupported column type, SQL that is not one statement.  A query     *)
(* whose SQL is one statement may still have a table name that cannot be   *)
(* parsed (which is not a bad request to it), no plan over its tables, or  *)
(* an aggregate that exceeds the type of its column.                       *)
(***************************************************************************)
Body ==
         [kind: {"Create"}, t: Tables, schema: Schemas]
    \cup [kind: {"Insert"}, t: Tables, schema: Schemas, rows: Batches]
    \cup [kind: {"Query"}, refs: SUBSET Tables,
           sql: {"Fine", "Misnamed", "Unplannable", "Overflowing"}]
    \cup [kind: {"Show"}, refs: {{t} : t \in Tables}]
    \cup [kind: {"List", "Health", "Refused"}]

ASSUME ApiAssumption ==
    /\ Bodies \subseteq Body
    /\ NumWorkers \in Nat \ {0}
    /\ NoRequest \notin Requests
    /\ IsFiniteSet(Requests) /\ Cardinality(Requests) < MaxFiles

(***************************************************************************)
(* sent     the request is ready to run, and waits for a worker            *)
(* lock     its handler waits for the mutex (and keeps the worker)         *)
(* locked   it has the mutex and is about to call the store                *)
(* calling  it is inside create_table or insert                            *)
(* proved   a query whose proof is made, before it reads the commitments   *)
(* encode   it has given the mutex back and encodes its answer             *)
(* done     answered;  lost: the process was killed first                  *)
(***************************************************************************)
Places == {"unsent", "sent", "lock", "locked", "calling", "proved", "encode",
           "done", "lost"}

\* What is read for an answer: data the proof is about, commitments, tables.
NoAnswer == [status |-> 0, data |-> <<>>, commits |-> <<>>, tables |-> {}]

Statuses == {200, 201, 400, 404, 409, 500}

PerTable(f) == DOMAIN f \subseteq Tables /\ \A t \in DOMAIN f : f[t] \in Seq(Batches)

IsAnswer(a) == /\ DOMAIN a = {"status", "data", "commits", "tables"}
               /\ a.status \in Statuses \cup {0}
               /\ PerTable(a.data) /\ PerTable(a.commits)
               /\ a.tables \subseteq Tables

TypeOK ==
    /\ Store!TypeOK
    /\ db \in Requests \cup {NoRequest}
    /\ pc \in [Requests -> Places]
    /\ body \in [Requests -> Bodies \cup {NoRequest}]
    /\ DOMAIN answer = Requests /\ \A r \in Requests : IsAnswer(answer[r])
    /\ before \in [Requests -> [Tables -> Seq(Batches)]]

Init ==
    /\ Store!Init
    /\ db = NoRequest
    /\ pc = [r \in Requests |-> "unsent"]
    /\ body = [r \in Requests |-> NoRequest]
    /\ answer = [r \in Requests |-> NoAnswer]
    /\ before = [r \in Requests |-> [t \in Tables |-> <<>>]]

---------------------------------------------------------------------------
Go(r, place) == pc' = [pc EXCEPT ![r] = place]

Busy == {r \in Requests : pc[r] \in {"lock", "locked", "calling", "proved", "encode"}}

Reply(r, status) ==
    /\ answer' = [answer EXCEPT ![r].status = status]
    /\ Go(r, "done")

\* The guard is dropped; only the handler that has it does.
Unlock == db' = NoRequest

\* Mistakes: an insert is accepted before its outcome is known, and a status
\* clients do not know.
Status_Accepts(kind, e) == IF kind = "Insert" THEN 201 ELSE 200
Status_Unprocessable(kind, e) == IF e = "Undecodable" THEN 422 ELSE 200

\* The status a handler's error, or its lack of one, is turned into.  (A query
\* turns NotFound into 404 for the tables' data only, but its commitments are
\* read under the same hold of the mutex and cannot be gone.)
Status(kind, e) ==
    CASE e = "NotFound"                              -> 404
      [] e = "AlreadyExists"                         -> 409
      [] e \in {"SchemaMismatch", "Undecodable"}     -> 400
      [] e = "Ok" /\ kind \in {"Create", "Insert"}   -> 201
      [] e = "Ok" /\ kind \notin {"Create", "Insert"} -> 200
      [] OTHER                                       -> 500

\* A read of several tables fails with the error of one that fails.
UnreadData(refs)    == {Store!DataError(disk[t]) : t \in refs} \ {"Ok"}
UnreadCommits(refs) == {Store!CommitmentError(disk[t]) : t \in refs} \ {"Ok"}

---------------------------------------------------------------------------
Send(r) ==
    /\ pc[r] = "unsent"
    /\ \E b \in Bodies : body' = [body EXCEPT ![r] = b]
    /\ before' = [before EXCEPT ![r] = acked]
    /\ Go(r, "sent")
    /\ UNCHANGED <<storeVars, db, answer>>

Misnamed(b) == b.kind = "Query" /\ b.sql = "Misnamed"

\* A worker polls the request.  A handler that needs the store goes on to
\* the mutex; health, and every refusal, answers at once.
Poll(r) ==
    /\ pc[r] = "sent"
    /\ Cardinality(Busy) < NumWorkers
    /\ CASE body[r].kind = "Health"  -> Reply(r, 200)
         [] body[r].kind = "Refused" -> Reply(r, 400)
         [] Misnamed(body[r])        -> Reply(r, 500)
         [] OTHER                    -> Go(r, "lock") /\ UNCHANGED answer
    /\ UNCHANGED <<storeVars, db, body, before>>

\* Mistake: every handler has a store of its own, or an RwLock is read.
Acquire_Shared(r) ==
    /\ pc[r] = "lock"
    /\ db' = r
    /\ Go(r, "locked")
    /\ UNCHANGED <<storeVars, body, answer, before>>

Acquire(r) ==
    /\ pc[r] = "lock"
    /\ db = NoRequest
    /\ db' = r
    /\ Go(r, "locked")
    /\ UNCHANGED <<storeVars, body, answer, before>>

---------------------------------------------------------------------------
(***************************************************************************)
(* POST /tables and POST /tables/{table}/rows.  The insert handler reads   *)
(* the schema and decodes the rows before it calls the store's insert, all *)
(* under one hold of the mutex.                                            *)
(***************************************************************************)
Create(r) ==
    /\ pc[r] = "locked" /\ body[r].kind = "Create"
    /\ Store!CreateTable(r, body[r].t, body[r].schema)
    /\ Go(r, "calling")
    /\ UNCHANGED <<db, body, answer, before>>

DecodeError(b) ==
    LET d == disk[b.t] IN
    IF Store!SchemaError(d) # "Ok"        THEN Store!SchemaError(d)
    ELSE IF Store!SchemaOf(d) # b.schema THEN "Undecodable"
    ELSE "Ok"

InsertRows(r) ==
    LET b == body[r] IN
    /\ pc[r] = "locked" /\ b.kind = "Insert"
    /\ \/ /\ DecodeError(b) # "Ok"
          /\ Reply(r, Status("Insert", DecodeError(b)))
          /\ Unlock
          /\ UNCHANGED storeVars
       \/ /\ DecodeError(b) = "Ok"
          /\ Store!Insert(r, b.t, Store!SchemaOf(disk[b.t]), b.rows)
          /\ Go(r, "calling")
          /\ UNCHANGED <<db, answer>>
    /\ UNCHANGED <<body, before>>

StoreStep(r) ==
    /\ pc[r] = "calling"
    /\ Store!Write(r) \/ Store!FileError(r)
    /\ UNCHANGED apiVars

\* Mistake: the mutex is not given back when the call failed.
Returned_Holding(r) ==
    /\ pc[r] = "calling"
    /\ ~Store!Running(r)
    /\ Reply(r, Status(body[r].kind, call[r].ret))
    /\ IF call[r].ret = "Ok" THEN Unlock ELSE UNCHANGED db
    /\ UNCHANGED <<storeVars, body, before>>

Returned(r) ==
    /\ pc[r] = "calling"
    /\ ~Store!Running(r)
    /\ Reply(r, Status(body[r].kind, call[r].ret))
    /\ Unlock
    /\ UNCHANGED <<storeVars, body, before>>

---------------------------------------------------------------------------
(***************************************************************************)
(* POST /query.  All the tables' data is read, the SQL planned over it and *)
(* the proof made, then the tables' commitments are read, under one hold   *)
(* of the mutex.  More rows than the powers loaded cannot be proved about. *)
(***************************************************************************)
TooLong(d) == Len(Store!Rows(Store!DataOf(d))) > powers

ProveErrors(b) ==
    LET unread == UnreadData(b.refs) IN
    IF unread # {} THEN unread
    ELSE IF b.sql = "Unplannable" THEN {"Planner"}
    ELSE IF \E t \in b.refs : TooLong(disk[t]) THEN {"Proof"}
    ELSE {}

FailRead(r, errors) ==
    \E e \in errors : Reply(r, Status("Query", e)) /\ Unlock

\* Mistake: the mutex is given back once the proof is made.
Prove_Unlocks(r) ==
    LET b == body[r] IN
    /\ pc[r] = "locked" /\ b.kind = "Query"
    /\ ProveErrors(b) = {}
    /\ answer' = [answer EXCEPT ![r].data = [t \in b.refs |-> Store!DataOf(disk[t])]]
    /\ Go(r, "proved")
    /\ Unlock
    /\ UNCHANGED <<storeVars, body, before>>

Prove(r) ==
    LET b == body[r] IN
    /\ pc[r] = "locked" /\ b.kind = "Query"
    /\ \/ FailRead(r, ProveErrors(b))
       \/ /\ ProveErrors(b) = {}
          /\ answer' = [answer EXCEPT ![r].data =
                                        [t \in b.refs |-> Store!DataOf(disk[t])]]
          /\ Go(r, "proved")
          /\ UNCHANGED db
    /\ UNCHANGED <<storeVars, body, before>>

\* Mistake: GET /tables/{table} reads without the mutex.
Commitments_Unlocked(r) ==
    LET refs == body[r].refs
        unread == UnreadCommits(refs)
    IN
    /\ pc[r] = "lock" /\ body[r].kind = "Show"
    /\ \/ \E e \in unread : Reply(r, Status("Show", e))
       \/ /\ unread = {}
          /\ answer' = [answer EXCEPT ![r].commits = [t \in refs |-> disk[t].commit]]
          /\ Go(r, "encode")
    /\ UNCHANGED <<storeVars, db, body, before>>

\* Db::commitments, the second read of a query and the only one of
\* GET /tables/{table}.
Commitments(r) ==
    LET refs == body[r].refs
        unread == UnreadCommits(refs)
    IN
    /\ \/ pc[r] = "proved"
       \/ pc[r] = "locked" /\ body[r].kind = "Show"
    /\ \/ FailRead(r, unread)
       \/ /\ unread = {}
          /\ answer' = [answer EXCEPT ![r].commits = [t \in refs |-> disk[t].commit]]
          /\ Unlock
          /\ Go(r, "encode")
    /\ UNCHANGED <<storeVars, body, before>>

\* GET /tables: every directory is a table.
List(r) ==
    /\ pc[r] = "locked" /\ body[r].kind = "List"
    /\ answer' = [answer EXCEPT ![r].tables = {t \in Tables : disk[t].dir}]
    /\ Unlock
    /\ Go(r, "encode")
    /\ UNCHANGED <<storeVars, body, before>>

\* coerce_scalars: an aggregate has to fit the type of its column.
Coercible(b) == b.kind = "Query" => b.sql # "Overflowing"

\* The answer is coerced and encoded after the mutex is given back.
Encode(r) ==
    /\ pc[r] = "encode"
    /\ Reply(r, IF Coercible(body[r]) THEN 200 ELSE 500)
    /\ UNCHANGED <<storeVars, db, body, before>>

---------------------------------------------------------------------------
(***************************************************************************)
(* The process is killed and started again: every request it had is lost,  *)
(* and the new process has a mutex of its own.                             *)
(***************************************************************************)
Restart ==
    /\ Store!Restart
    /\ db' = NoRequest
    /\ pc' = [r \in Requests |-> IF pc[r] \in {"unsent", "done"} THEN pc[r] ELSE "lost"]
    /\ UNCHANGED <<body, answer, before>>

Handle(r) == \/ Acquire(r) \/ Create(r) \/ InsertRows(r) \/ StoreStep(r)
             \/ Returned(r) \/ Prove(r) \/ Commitments(r) \/ List(r) \/ Encode(r)

Finished == \A r \in Requests : pc[r] \in {"done", "lost"}

Next == \/ \E r \in Requests : Send(r) \/ Poll(r) \/ Handle(r)
        \/ Restart
        \/ Finished /\ UNCHANGED vars

Spec == Init /\ [][Next]_vars

(***************************************************************************)
(* The runtime gives every ready request a worker in turn, and a handler   *)
(* that has one keeps running; the mutex is eventually given to everyone   *)
(* who waits for it.  Nothing makes a client send a request.               *)
(***************************************************************************)
FairSpec == Spec /\ \A r \in Requests : WF_vars(Poll(r)) /\ WF_vars(Handle(r))

---------------------------------------------------------------------------
Read(r)      == pc[r] \in {"encode", "done"} /\ DOMAIN answer[r].commits # {}
Refs(b)      == IF b.kind \in {"Query", "Show"} THEN b.refs
                ELSE IF b.kind \in {"Create", "Insert"} THEN {b.t} ELSE {}
Replied(r, status) == pc[r] = "done" /\ answer[r].status = status

\* A verifier given the answer's commitments accepts its proof.
Verifies(r) == \A t \in DOMAIN answer[r].data :
                  Store!Rows(answer[r].data[t]) = Store!Rows(answer[r].commits[t])

(***************************************************************************)
(* The handlers' mutex makes the store see one call at a time: everything  *)
(* Db shows about the store holds for the service.                         *)
(***************************************************************************)
ImplementsStore == Store!Spec

(***************************************************************************)
(* A query's proof and the commitments sent with it are of the same rows,  *)
(* whatever other requests insert meanwhile, unless a failure has left one *)
(* of its tables half written or has more files than their names can order.*)
(***************************************************************************)
ProofVerifies ==
    \A r \in Requests :
        /\ Read(r) /\ body[r].kind = "Query" /\ body[r].refs \cap interrupted = {}
        /\ \A t \in DOMAIN answer[r].data : Len(answer[r].data[t]) <= Padded
        => Verifies(r)

(***************************************************************************)
(* A commitment that is answered covers every batch acknowledged before    *)
(* the request was sent, in their order, and only acknowledged ones; a     *)
(* table whose creation was acknowledged by then is found and listed.      *)
(***************************************************************************)
FreshReads ==
    \A r \in Requests :
        /\ Read(r) => \A t \in DOMAIN answer[r].commits :
                         /\ IsPrefix(before[r][t], answer[r].commits[t])
                         /\ IsPrefix(answer[r].commits[t], acked[t])
        /\ Replied(r, 404) => \E t \in Refs(body[r]) : before[r][t] = <<>>
        /\ Replied(r, 200) /\ body[r].kind = "List"
              => {t \in Tables : before[r][t] # <<>>} \subseteq answer[r].tables

(***************************************************************************)
(* Of the requests that create one table, at most one is told it did.      *)
(***************************************************************************)
CreatedOnce ==
    \A t \in Tables :
        Cardinality({r \in Requests : /\ Replied(r, 201)
                                      /\ body[r].kind = "Create" /\ body[r].t = t}) <= 1

\* How often a batch of rows was acknowledged, and how often the data has it.
Times(t, rows)  == Cardinality({k \in DOMAIN acked[t] : acked[t][k] = rows})
InData(t, rows) ==
    Cardinality({k \in DOMAIN disk[t].files :
                    disk[t].files[k] # Torn /\ disk[t].files[k].batch = rows})

\* The requests to insert it that were told so, and those that may have.
Sent(t, rows)   == {r \in Requests : /\ pc[r] # "unsent"
                                     /\ body[r].kind = "Insert"
                                     /\ body[r].t = t /\ body[r].rows = rows}
Told(t, rows)   == {r \in Sent(t, rows) : Replied(r, 201)}
Unsure(t, rows) == {r \in Sent(t, rows) : pc[r] \in {"calling", "lost"} \/ Replied(r, 500)}

(***************************************************************************)
(* What a client knows of the rows it sent, which is what a retry has to go*)
(* by: an insert answered 201 is acknowledged once and in the data once,   *)
(* one answered 400 or 404 left nothing, and one answered 500 or never     *)
(* answered may have added its rows once, acknowledged or not, and no more.*)
(***************************************************************************)
EachInsertCounts ==
    \A t \in Tables, rows \in Batches \ {<<>>} :
        /\ Cardinality(Told(t, rows)) <= Times(t, rows)
        /\ Times(t, rows) <= InData(t, rows)
        /\ InData(t, rows) <= Cardinality(Told(t, rows) \cup Unsure(t, rows))

RowsOf(b) == IF b.kind = "Insert" THEN b.rows ELSE <<>>

\* No commitment can be made of a table of such a schema, or the rows come to more
\* than the powers loaded.
Impossible(b) == \/ b.schema \notin Committable
                 \/ Len(Store!Rows(acked[b.t])) + Len(RowsOf(b)) > powers

\* A create or an insert was answered 500, and could not have been done.
Refused(e) == /\ Replied(e, 500)
              /\ body[e].kind \in {"Create", "Insert"}
              /\ Impossible(body[e])

(***************************************************************************)
(* While nothing is refused by the operating system and no process dies, a *)
(* request is answered 500 only for its SQL, or because a create or insert *)
(* of one of its tables was answered 500 by then, its own or an earlier    *)
(* one, that asked for what cannot be done.  So the first 500 about a      *)
(* table is always to a call that had to fail, and no request fails for    *)
(* what another one is in the middle of writing.                           *)
(***************************************************************************)
ErrorsExplained ==
    \A r \in Requests :
        Replied(r, 500) /\ faults = 0
            => \/ body[r].kind = "Query" /\ body[r].sql # "Fine"
               \/ \E e \in Requests : Refused(e) /\ body[e].t \in Refs(body[r])

(***************************************************************************)
(* Every request that reaches the service is answered, or lost with the    *)
(* process: no handler is left waiting for the mutex or for a worker,      *)
(* health checks included.                                                 *)
(***************************************************************************)
Answered ==
    \A r \in Requests : pc[r] = "sent" ~> pc[r] \in {"done", "lost"}

(***************************************************************************)
(* What the query handler's comment says of an answer, "The commitments    *)
(* the proof was proved against": every answer's proof verifies.           *)
(***************************************************************************)
ProvedAgainst ==
    \A r \in Requests : Replied(r, 200) /\ body[r].kind = "Query" => Verifies(r)

(***************************************************************************)
(* What AlreadyExists says, "A table already exists under this reference": *)
(* the table a create request is refused for was created.                  *)
(***************************************************************************)
ConflictMeansCreated ==
    \A r \in Requests :
        Replied(r, 409) /\ body[r].kind = "Create" => acked[body[r].t] # <<>>
===========================================================================
