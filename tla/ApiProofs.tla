----------------------------- MODULE ApiProofs -----------------------------
(***************************************************************************)
(* Proofs about Api, for any requests, bodies, workers, tables, batches,   *)
(* capacities and faults.  First that the mutex makes the handlers' calls  *)
(* those of Db's Spec, so that what DbProofs shows of the store can be     *)
(* used here; then, one after the other, what clients can rely on.  Every  *)
(* invariant is about one request, or relates one request to the store:    *)
(* its own action keeps it for a reason, the actions of others because     *)
(* they only add to what is acknowledged.                                  *)
(***************************************************************************)
EXTENDS Api, SequenceLemmas, FiniteSetTheorems, TLAPS

---------------------------------------------------------------------------
\* What a request asks about exists.
LEMMA BodyFields ==
    ASSUME NEW b \in Bodies
    PROVE  /\ b.kind = "Create" => b.t \in Tables /\ b.schema \in Schemas
           /\ b.kind = "Insert" => b.t \in Tables /\ b.schema \in Schemas
                                   /\ b.rows \in Batches
           /\ b.kind \in {"Query", "Show"} => b.refs \subseteq Tables
BY ApiAssumption DEF Body

\* The types the mutex depends on: a request that was sent has a body.
HandlerTypes ==
    /\ db \in Requests \cup {NoRequest}
    /\ pc \in [Requests -> Places]
    /\ body \in [Requests -> Bodies \cup {NoRequest}]
    /\ \A r \in Requests : pc[r] # "unsent" => body[r] \in Bodies

\* AppState.db: the handler that is using the store is the one that locked it.
Mutex == \A r \in Requests : pc[r] \in {"locked", "calling", "proved"} <=> db = r

\* A handler's call on the store is for the table and rows it was asked about.
CallsOwn(r) ==
    /\ pc[r] = "calling" => body[r].kind \in {"Create", "Insert"}
    /\ pc[r] = "proved" => body[r].kind = "Query"
    /\ Store!Running(r) =>
          /\ pc[r] = "calling"
          /\ call[r].t = body[r].t
          /\ call[r].file.schema = body[r].schema
          /\ call[r].file.batch = IF body[r].kind = "Insert" THEN body[r].rows ELSE <<>>
          /\ call[r].pc = "mkdir" => body[r].kind = "Create"

\* The inductive invariant that makes the store see one call at a time.
HandlerInv == HandlerTypes /\ Mutex /\ \A r \in Requests : CallsOwn(r)

\* Nothing of request e changes.
Same(e) == /\ pc'[e] = pc[e] /\ body'[e] = body[e] /\ answer'[e] = answer[e]
           /\ before'[e] = before[e] /\ call'[e] = call[e]

---------------------------------------------------------------------------
\* A handler that has the mutex and is in no call finds the store quiet.
LEMMA QuietUnless ==
    ASSUME HandlerInv, NEW r \in Requests, pc[r] \in {"locked", "proved"}
    PROVE  Store!Quiet
BY DEF HandlerInv, Mutex, CallsOwn, Store!Quiet, HandlerTypes

\* Every step is one of the store, or leaves it alone.
LEMMA StoreStepOf ==
    ASSUME HandlerInv, [Next]_vars
    PROVE  [Store!Next]_storeVars
<1>1. ASSUME NEW r \in Requests, Create(r) PROVE Store!Next
  <2>1. Store!Quiet /\ body[r].t \in Tables /\ body[r].schema \in Schemas
    BY <1>1, QuietUnless, BodyFields DEF Create, HandlerInv, HandlerTypes
  <2> QED
    BY <1>1, <2>1 DEF Create, Store!Next
<1>2. ASSUME NEW r \in Requests, InsertRows(r) PROVE [Store!Next]_storeVars
  <2>1. Store!Quiet /\ body[r].t \in Tables /\ body[r].schema \in Schemas
        /\ body[r].rows \in Batches
    BY <1>2, QuietUnless, BodyFields DEF InsertRows, HandlerInv, HandlerTypes
  <2>2. DecodeError(body[r]) = "Ok"
           => Store!SchemaOf(disk[body[r].t]) = body[r].schema
    BY DEF DecodeError
  <2> QED
    BY <1>2, <2>1, <2>2 DEF InsertRows, Store!Next
<1>3. ASSUME NEW r \in Requests, StoreStep(r) PROVE Store!Next
  BY <1>3 DEF StoreStep, Store!Next
<1>4. ASSUME Restart PROVE Store!Next
  BY <1>4 DEF Restart, Store!Next
<1>5. ASSUME NEW r \in Requests,
             \/ Send(r) \/ Poll(r) \/ Acquire(r) \/ Returned(r) \/ Prove(r)
             \/ Commitments(r) \/ List(r) \/ Encode(r)
      PROVE  UNCHANGED storeVars
  BY <1>5 DEF Send, Poll, Acquire, Returned, Prove, Commitments, List, Encode
<1>6. ASSUME UNCHANGED vars PROVE UNCHANGED storeVars
  BY <1>6 DEF vars, storeVars
<1> QED
  BY <1>1, <1>2, <1>3, <1>4, <1>5, <1>6 DEF Next, Handle

\* Nobody has the mutex at the start.
LEMMA HandlerInit == Init => HandlerInv
<1> SUFFICES ASSUME Init PROVE HandlerInv
  OBVIOUS
<1>1. HandlerTypes
  BY DEF Init, HandlerTypes, Places
<1>2. Mutex
  BY ApiAssumption DEF Init, Mutex
<1>3. \A r \in Requests : CallsOwn(r)
  BY DEF Init, CallsOwn, Store!Init, Store!Running, Store!Returned
<1> QED
  BY <1>1, <1>2, <1>3 DEF HandlerInv

---------------------------------------------------------------------------
(***************************************************************************)
(* What each action does to the request it is of, and that it does nothing *)
(* to the others.                                                          *)
(***************************************************************************)
Acts(r) == Send(r) \/ Poll(r) \/ Handle(r)

\* Its body, and what had been acknowledged when it arrived, are what they were.
Keeps(r) == body'[r] = body[r] /\ before'[r] = before[r]

\* It is answered, with what it read so far.
Replies(r, status) ==
    /\ pc'[r] = "done" /\ answer'[r].status = status
    /\ answer'[r].data = answer[r].data /\ answer'[r].commits = answer[r].commits
    /\ answer'[r].tables = answer[r].tables
    /\ DOMAIN answer'[r] = DOMAIN answer[r]

\* Its call is about to begin with a step, for a batch.
Begins(r, step, batch) ==
    /\ call'[r].pc = step /\ call'[r].t = body[r].t
    /\ call'[r].file.schema = body[r].schema /\ call'[r].file.batch = batch

\* Its insert fails with the error of the table's schema or commitment, or begins.
Inserts(r) ==
    LET d == disk[body[r].t]
        e == Store!InsertError(d, Store!SchemaOf(d))
    IN  \/ e # "Ok" /\ call'[r] = Store!Returned(e)
        \/ Begins(r, "open", body[r].rows)

\* An action of a request is of no other.
LEMMA OthersSame ==
    ASSUME TypeOK, NEW r \in Requests, Acts(r), NEW e \in Requests, e # r
    PROVE  Same(e)
<1>1. /\ pc \in [Requests -> Places] /\ body \in [Requests -> Bodies \cup {NoRequest}]
      /\ DOMAIN answer = Requests /\ Store!TypeOK
      /\ before \in [Requests -> [Tables -> Seq(Batches)]]
  BY DEF TypeOK
<1>2. CASE Send(r)
  BY <1>1, <1>2 DEF Send, Go, Same, storeVars
<1>3. CASE Poll(r)
  BY <1>1, <1>3 DEF Poll, Go, Reply, Same, storeVars
<1>4. CASE Acquire(r)
  BY <1>1, <1>4 DEF Acquire, Go, Same, storeVars
<1>5. CASE Create(r)
  <2>1. call'[e] = call[e]
    BY <1>1, <1>5, Store!CreateBegins, StoreAssumption DEF Create
  <2> QED
    BY <1>1, <1>5, <2>1 DEF Create, Go, Same
<1>6. CASE InsertRows(r)
  <2>1. call'[e] = call[e]
    BY <1>1, <1>6, Store!InsertBegins, StoreAssumption DEF InsertRows, storeVars
  <2> QED
    BY <1>1, <1>6, <2>1 DEF InsertRows, Go, Reply, Same
<1>7. CASE StoreStep(r)
  <2>1. call'[e] = call[e]
    BY <1>1, <1>7, Store!CallGoesOn, StoreAssumption DEF StoreStep
  <2> QED
    BY <1>7, <2>1 DEF StoreStep, apiVars, Same
<1>8. CASE Returned(r)
  BY <1>1, <1>8 DEF Returned, Go, Reply, Same, storeVars
<1>9. CASE Prove(r)
  BY <1>1, <1>9 DEF Prove, FailRead, Go, Reply, Same, storeVars
<1>10. CASE Commitments(r)
  BY <1>1, <1>10 DEF Commitments, FailRead, Go, Reply, Same, storeVars
<1>11. CASE List(r)
  BY <1>1, <1>11 DEF List, Go, Same, storeVars
<1>12. CASE Encode(r)
  BY <1>1, <1>12 DEF Encode, Go, Reply, Same, storeVars
<1> QED
  BY <1>2, <1>3, <1>4, <1>5, <1>6, <1>7, <1>8, <1>9, <1>10, <1>11, <1>12 DEF Acts, Handle

\* The operator by which every handler answers.
LEMMA ReplyOwn ==
    ASSUME TypeOK, NEW r \in Requests, NEW status, Reply(r, status)
    PROVE  Replies(r, status)
<1>1. pc \in [Requests -> Places] /\ DOMAIN answer = Requests /\ IsAnswer(answer[r])
  BY DEF TypeOK
<1>2. answer'[r] = [answer[r] EXCEPT !.status = status] /\ pc'[r] = "done"
  BY <1>1 DEF Reply, Go
<1> QED
  BY <1>1, <1>2 DEF Replies, IsAnswer

\* One lemma per action, in the order of the code.
LEMMA SendOwn ==
    ASSUME TypeOK, NEW r \in Requests, Send(r)
    PROVE  /\ pc[r] = "unsent" /\ pc'[r] = "sent" /\ body'[r] \in Bodies
           /\ before'[r] = acked /\ answer'[r] = answer[r]
           /\ UNCHANGED <<storeVars, db>>
BY DEF Send, Go, TypeOK

\* A worker takes the request up.
LEMMA PollOwn ==
    ASSUME TypeOK, NEW r \in Requests, Poll(r)
    PROVE  /\ pc[r] = "sent" /\ Keeps(r)
           /\ \/ pc'[r] = "lock" /\ answer'[r] = answer[r]
              \/ body[r].kind = "Health" /\ Replies(r, 200)
              \/ body[r].kind = "Refused" /\ Replies(r, 400)
              \/ Misnamed(body[r]) /\ Replies(r, 500)
           /\ UNCHANGED <<storeVars, db>>
<1>1. CASE body[r].kind = "Health"
  BY <1>1, ReplyOwn DEF Poll, Keeps
<1>2. CASE body[r].kind = "Refused"
  BY <1>2, ReplyOwn DEF Poll, Keeps
<1>3. CASE Misnamed(body[r])
  <2>1. body[r].kind \notin {"Health", "Refused"}
    BY <1>3 DEF Misnamed
  <2>2. Reply(r, 500) /\ pc[r] = "sent" /\ Keeps(r) /\ UNCHANGED <<storeVars, db>>
    BY <1>3, <2>1 DEF Poll, Keeps
  <2> QED
    BY <1>3, <2>2, ReplyOwn
<1>4. CASE body[r].kind \notin {"Health", "Refused"} /\ ~Misnamed(body[r])
  BY <1>4 DEF Poll, Keeps, Go, TypeOK
<1> QED
  BY <1>1, <1>2, <1>3, <1>4

\* It locks the store.
LEMMA AcquireOwn ==
    ASSUME TypeOK, NEW r \in Requests, Acquire(r)
    PROVE  /\ pc[r] = "lock" /\ pc'[r] = "locked" /\ Keeps(r) /\ answer'[r] = answer[r]
           /\ db = NoRequest /\ db' = r
           /\ UNCHANGED storeVars
BY DEF Acquire, Go, Keeps, TypeOK

\* POST /tables calls create_table.
LEMMA CreateOwn ==
    ASSUME TypeOK, NEW r \in Requests, Create(r)
    PROVE  /\ pc[r] = "locked" /\ body[r].kind = "Create" /\ pc'[r] = "calling"
           /\ Keeps(r) /\ answer'[r] = answer[r]
           /\ UNCHANGED <<disk, powers, faults, acked, interrupted, db>>
           /\ \/ disk[body[r].t].dir /\ call'[r] = Store!Returned("AlreadyExists")
              \/ Begins(r, "mkdir", <<>>)
<1>1. Store!TypeOK /\ Store!CreateTable(r, body[r].t, body[r].schema)
  BY DEF TypeOK, Create
<1>2. /\ UNCHANGED <<disk, powers, faults, acked, interrupted>>
      /\ \/ disk[body[r].t].dir /\ call'[r] = Store!Returned("AlreadyExists")
         \/ call'[r] = [pc |-> "mkdir", t |-> body[r].t,
                        file |-> [schema |-> body[r].schema, batch |-> <<>>],
                        n |-> 0, commitment |-> <<>>]
  BY <1>1, Store!CreateBegins, StoreAssumption
<1>3. \/ disk[body[r].t].dir /\ call'[r] = Store!Returned("AlreadyExists")
      \/ Begins(r, "mkdir", <<>>)
  BY <1>2 DEF Begins
<1> QED
  BY <1>2, <1>3 DEF Create, Go, Keeps, TypeOK

\* POST /tables/{table}/rows decodes the rows and calls insert.
LEMMA InsertOwn ==
    ASSUME TypeOK, NEW r \in Requests, InsertRows(r)
    PROVE  /\ pc[r] = "locked" /\ body[r].kind = "Insert" /\ Keeps(r)
           /\ UNCHANGED <<disk, powers, faults, acked, interrupted>>
           /\ DecodeError(body[r]) # "Ok"
                 => /\ Replies(r, Status("Insert", DecodeError(body[r])))
                    /\ db' = NoRequest /\ UNCHANGED call
           /\ DecodeError(body[r]) = "Ok"
                 => /\ pc'[r] = "calling" /\ answer'[r] = answer[r] /\ UNCHANGED db
                    /\ Inserts(r)
<1> DEFINE s == Store!SchemaOf(disk[body[r].t])
<1>1. CASE DecodeError(body[r]) # "Ok"
  BY <1>1, ReplyOwn DEF InsertRows, Keeps, storeVars, Unlock
<1>2. CASE DecodeError(body[r]) = "Ok"
  <2>1. Store!TypeOK /\ Store!Insert(r, body[r].t, s, body[r].rows)
    BY <1>2 DEF TypeOK, InsertRows
  <2>2. /\ UNCHANGED <<disk, powers, faults, acked, interrupted>>
        /\ LET e == Store!InsertError(disk[body[r].t], s)
           IN  \/ e # "Ok" /\ call'[r] = Store!Returned(e)
               \/ call'[r] = [pc |-> "open", t |-> body[r].t,
                              file |-> [schema |-> s, batch |-> body[r].rows],
                              n |-> Len(disk[body[r].t].files),
                              commitment |-> disk[body[r].t].commit]
    BY <2>1, Store!InsertBegins, StoreAssumption
  <2>3. Inserts(r)
    <3>1. s = body[r].schema
      BY <1>2 DEF DecodeError
    <3> QED
      BY <2>2, <3>1 DEF Begins, Inserts
  <2> HIDE DEF s
  <2>4. /\ pc[r] = "locked" /\ body[r].kind = "Insert" /\ Keeps(r)
        /\ pc'[r] = "calling" /\ answer'[r] = answer[r] /\ UNCHANGED db
    BY <1>2 DEF InsertRows, Go, Keeps, TypeOK
  <2> QED
    BY <1>2, <2>2, <2>3, <2>4
<1> QED
  BY <1>1, <1>2

\* Its call goes on, ends or is given up.
LEMMA StoreStepOwn ==
    ASSUME TypeOK, NEW r \in Requests, StoreStep(r)
    PROVE  /\ pc[r] = "calling" /\ UNCHANGED apiVars /\ Store!Running(r)
           /\ \/ /\ call'[r].pc \in {"open", "write", "extend", "store"}
                 /\ call'[r].t = call[r].t /\ call'[r].file = call[r].file
                 /\ call[r].pc \in {"extend", "store"} => call'[r].pc = "store"
                 /\ \/ Store!MakeDir(r) \/ Store!OpenBatch(r) \/ Store!WriteBatch(r)
                    \/ Store!ExtendCommitment(r)
              \/ Store!StoreCommitment(r) /\ call'[r] = Store!Returned("Ok")
              \/ /\ \E e \in {"Io", "Parquet", "Commit"} : call'[r] = Store!Returned(e)
                 /\ UNCHANGED <<disk, acked>>
                 /\ faults' = 0 => call[r].t \in interrupted'
<1>1. Store!TypeOK /\ (Store!Write(r) \/ Store!FileError(r))
  BY DEF TypeOK, StoreStep
<1> QED
  BY <1>1, Store!CallGoesOn, StoreAssumption DEF StoreStep

\* Its call is over.
LEMMA ReturnedOwn ==
    ASSUME TypeOK, NEW r \in Requests, Returned(r)
    PROVE  /\ pc[r] = "calling" /\ ~Store!Running(r) /\ Keeps(r)
           /\ Replies(r, Status(body[r].kind, call[r].ret))
           /\ db' = NoRequest /\ UNCHANGED storeVars
BY ReplyOwn DEF Returned, Keeps, Unlock

\* POST /query reads the data and proves.
LEMMA ProveOwn ==
    ASSUME TypeOK, NEW r \in Requests, Prove(r)
    PROVE  /\ pc[r] = "locked" /\ body[r].kind = "Query" /\ Keeps(r)
           /\ UNCHANGED storeVars
           /\ \/ /\ \E e \in ProveErrors(body[r]) : Replies(r, Status("Query", e))
                 /\ db' = NoRequest
              \/ /\ ProveErrors(body[r]) = {} /\ pc'[r] = "proved" /\ UNCHANGED db
                 /\ answer'[r].data = [t \in body[r].refs |-> Store!DataOf(disk[t])]
                 /\ answer'[r].status = answer[r].status
                 /\ answer'[r].commits = answer[r].commits
                 /\ answer'[r].tables = answer[r].tables
                 /\ DOMAIN answer'[r] = DOMAIN answer[r]
<1>1. /\ pc \in [Requests -> Places] /\ DOMAIN answer = Requests /\ IsAnswer(answer[r])
  BY DEF TypeOK
<1>2. pc[r] = "locked" /\ body[r].kind = "Query" /\ Keeps(r) /\ UNCHANGED storeVars
  BY DEF Prove, Keeps
<1>3. CASE FailRead(r, ProveErrors(body[r]))
  BY <1>2, <1>3, ReplyOwn DEF FailRead, Unlock
<1>4. CASE ~FailRead(r, ProveErrors(body[r]))
  <2> DEFINE data == [t \in body[r].refs |-> Store!DataOf(disk[t])]
  <2>1. /\ ProveErrors(body[r]) = {} /\ UNCHANGED db
        /\ answer' = [answer EXCEPT ![r].data = data]
        /\ Go(r, "proved")
    BY <1>4 DEF Prove
  <2> HIDE DEF data
  <2>2. pc'[r] = "proved" /\ answer'[r] = [answer[r] EXCEPT !.data = data]
    BY <1>1, <2>1 DEF Go
  <2>3. /\ answer'[r].data = data /\ answer'[r].status = answer[r].status
        /\ answer'[r].commits = answer[r].commits
        /\ answer'[r].tables = answer[r].tables /\ DOMAIN answer'[r] = DOMAIN answer[r]
    BY <1>1, <2>2 DEF IsAnswer
  <2> QED
    BY <1>2, <2>1, <2>2, <2>3 DEF data
<1> QED
  BY <1>3, <1>4

\* POST /query and GET /tables/{table} read the commitments.
LEMMA CommitmentsOwn ==
    ASSUME TypeOK, NEW r \in Requests, Commitments(r)
    PROVE  /\ \/ pc[r] = "proved"
              \/ pc[r] = "locked" /\ body[r].kind = "Show"
           /\ Keeps(r) /\ UNCHANGED storeVars /\ db' = NoRequest
           /\ \/ \E e \in UnreadCommits(body[r].refs) : Replies(r, Status("Query", e))
              \/ /\ UnreadCommits(body[r].refs) = {} /\ pc'[r] = "encode"
                 /\ answer'[r].commits = [t \in body[r].refs |-> disk[t].commit]
                 /\ answer'[r].status = answer[r].status
                 /\ answer'[r].data = answer[r].data
                 /\ answer'[r].tables = answer[r].tables
                 /\ DOMAIN answer'[r] = DOMAIN answer[r]
<1>1. /\ pc \in [Requests -> Places] /\ DOMAIN answer = Requests /\ IsAnswer(answer[r])
  BY DEF TypeOK
<1>2. /\ \/ pc[r] = "proved"
         \/ pc[r] = "locked" /\ body[r].kind = "Show"
      /\ Keeps(r) /\ UNCHANGED storeVars
  BY DEF Commitments, Keeps
<1>3. CASE FailRead(r, UnreadCommits(body[r].refs))
  BY <1>2, <1>3, ReplyOwn DEF FailRead, Unlock
<1>4. CASE ~FailRead(r, UnreadCommits(body[r].refs))
  <2> DEFINE commits == [t \in body[r].refs |-> disk[t].commit]
  <2>1. /\ UnreadCommits(body[r].refs) = {} /\ db' = NoRequest
        /\ answer' = [answer EXCEPT ![r].commits = commits]
        /\ Go(r, "encode")
    BY <1>4 DEF Commitments, Unlock
  <2> HIDE DEF commits
  <2>2. pc'[r] = "encode" /\ answer'[r] = [answer[r] EXCEPT !.commits = commits]
    BY <1>1, <2>1 DEF Go
  <2>3. /\ answer'[r].commits = commits /\ answer'[r].status = answer[r].status
        /\ answer'[r].data = answer[r].data
        /\ answer'[r].tables = answer[r].tables /\ DOMAIN answer'[r] = DOMAIN answer[r]
    BY <1>1, <2>2 DEF IsAnswer
  <2> QED
    BY <1>2, <2>1, <2>2, <2>3 DEF commits
<1> QED
  BY <1>3, <1>4

\* GET /tables reads the directories.
LEMMA ListOwn ==
    ASSUME TypeOK, NEW r \in Requests, List(r)
    PROVE  /\ pc[r] = "locked" /\ body[r].kind = "List" /\ pc'[r] = "encode"
           /\ Keeps(r) /\ UNCHANGED storeVars /\ db' = NoRequest
           /\ answer'[r].tables = {t \in Tables : disk[t].dir}
           /\ answer'[r].status = answer[r].status /\ answer'[r].data = answer[r].data
           /\ answer'[r].commits = answer[r].commits
           /\ DOMAIN answer'[r] = DOMAIN answer[r]
<1>1. /\ pc \in [Requests -> Places] /\ DOMAIN answer = Requests /\ IsAnswer(answer[r])
  BY DEF TypeOK
<1> DEFINE tables == {t \in Tables : disk[t].dir}
<1>2. /\ pc[r] = "locked" /\ body[r].kind = "List" /\ pc'[r] = "encode"
      /\ Keeps(r) /\ UNCHANGED storeVars /\ db' = NoRequest
      /\ answer' = [answer EXCEPT ![r].tables = tables]
  BY <1>1 DEF List, Keeps, Unlock, Go
<1> HIDE DEF tables
<1>3. answer'[r] = [answer[r] EXCEPT !.tables = tables]
  BY <1>1, <1>2
<1>4. /\ answer'[r].tables = tables /\ answer'[r].status = answer[r].status
      /\ answer'[r].data = answer[r].data /\ answer'[r].commits = answer[r].commits
      /\ DOMAIN answer'[r] = DOMAIN answer[r]
  BY <1>1, <1>3 DEF IsAnswer
<1> QED
  BY <1>2, <1>4 DEF tables

\* The answer is encoded without the mutex.
LEMMA EncodeOwn ==
    ASSUME TypeOK, NEW r \in Requests, Encode(r)
    PROVE  /\ pc[r] = "encode" /\ Keeps(r) /\ UNCHANGED <<storeVars, db>>
           /\ Replies(r, IF Coercible(body[r]) THEN 200 ELSE 500)
BY ReplyOwn DEF Encode, Keeps

---------------------------------------------------------------------------
(***************************************************************************)
(* Types.                                                                  *)
(***************************************************************************)
LEMMA AllRead ==
    ASSUME NEW b, ProveErrors(b) = {}
    PROVE  /\ \A t \in b.refs : Store!DataError(disk[t]) = "Ok" /\ ~TooLong(disk[t])
           /\ b.sql # "Unplannable"
<1>1. UnreadData(b.refs) = {} /\ b.sql # "Unplannable" /\ \A t \in b.refs : ~TooLong(disk[t])
  BY DEF ProveErrors
<1> QED
  BY <1>1 DEF UnreadData

\* So are the commitments, when all can be read.
LEMMA AllCommits ==
    ASSUME NEW refs, UnreadCommits(refs) = {}
    PROVE  \A t \in refs : Store!CommitmentError(disk[t]) = "Ok"
BY DEF UnreadCommits

\* Handlers answer with the statuses there are.
LEMMA StatusType == \A kind, e : Status(kind, e) \in Statuses
BY DEF Status, Statuses

\* Nothing is read, nothing answered.
LEMMA TypeInit == Init => TypeOK
<1> SUFFICES ASSUME Init PROVE TypeOK
  OBVIOUS
<1>1. Store!TypeOK
  BY Store!TypeInit, StoreAssumption DEF Init
<1>2. IsAnswer(NoAnswer)
  BY DEF IsAnswer, NoAnswer, PerTable
<1>3. before \in [Requests -> [Tables -> Seq(Batches)]]
  BY DEF Init
<1> QED
  BY <1>1, <1>2, <1>3 DEF Init, TypeOK, Places

\* What a request reads is of the tables there are.
LEMMA AnswerStep ==
    ASSUME TypeOK, HandlerInv, NEW r \in Requests, Acts(r)
    PROVE  IsAnswer(answer'[r])
<1>1. IsAnswer(answer[r]) /\ Store!TypeOK
  BY DEF TypeOK
<1>2. ASSUME NEW status \in Statuses, Replies(r, status) PROVE IsAnswer(answer'[r])
  BY <1>1, <1>2 DEF Replies, IsAnswer, PerTable
<1>3. 200 \in Statuses /\ 400 \in Statuses /\ 500 \in Statuses
  BY DEF Statuses
<1>4. ASSUME pc[r] \in {"locked", "proved"}, body[r].kind \in {"Query", "Show"}
      PROVE  body[r].refs \subseteq Tables
  BY <1>4, BodyFields DEF HandlerInv, HandlerTypes
<1>5. CASE Send(r) \/ Acquire(r) \/ Create(r)
  BY <1>1, <1>5, SendOwn, AcquireOwn, CreateOwn
<1>6. CASE Poll(r)
  BY <1>1, <1>2, <1>3, <1>6, PollOwn
<1>7. CASE InsertRows(r)
  BY <1>1, <1>2, <1>7, InsertOwn, StatusType
<1>8. CASE StoreStep(r)
  BY <1>1, <1>8 DEF StoreStep, apiVars
<1>9. CASE Returned(r)
  BY <1>2, <1>9, ReturnedOwn, StatusType
<1>10. CASE Encode(r)
  BY <1>2, <1>3, <1>10, EncodeOwn
<1>11. CASE Prove(r)
  <2>1. CASE \E e \in ProveErrors(body[r]) : Replies(r, Status("Query", e))
    BY <1>2, <2>1, StatusType
  <2>2. CASE ~\E e \in ProveErrors(body[r]) : Replies(r, Status("Query", e))
    <3> DEFINE refs == body[r].refs
    <3>1. /\ ProveErrors(body[r]) = {}
          /\ answer'[r].data = [t \in refs |-> Store!DataOf(disk[t])]
          /\ answer'[r].status = answer[r].status
          /\ answer'[r].commits = answer[r].commits
          /\ answer'[r].tables = answer[r].tables
          /\ DOMAIN answer'[r] = DOMAIN answer[r]
      BY <1>11, <2>2, ProveOwn
    <3>2. refs \subseteq Tables
      BY <1>4, <1>11, ProveOwn
    <3>3. \A t \in refs : Store!DataOf(disk[t]) \in Seq(Batches)
      BY <1>1, <3>1, <3>2, AllRead, Store!DataIsBatches, StoreAssumption
    <3>4. PerTable(answer'[r].data)
      BY <3>1, <3>2, <3>3 DEF PerTable
    <3> QED
      BY <1>1, <3>1, <3>4 DEF IsAnswer
  <2> QED
    BY <2>1, <2>2
<1>12. CASE Commitments(r)
  <2>1. CASE \E e \in UnreadCommits(body[r].refs) : Replies(r, Status("Query", e))
    BY <1>2, <2>1, StatusType
  <2>2. CASE ~\E e \in UnreadCommits(body[r].refs) : Replies(r, Status("Query", e))
    <3> DEFINE refs == body[r].refs
    <3>1. /\ UnreadCommits(refs) = {}
          /\ answer'[r].commits = [t \in refs |-> disk[t].commit]
          /\ answer'[r].status = answer[r].status
          /\ answer'[r].data = answer[r].data
          /\ answer'[r].tables = answer[r].tables
          /\ DOMAIN answer'[r] = DOMAIN answer[r]
      BY <1>12, <2>2, CommitmentsOwn
    <3>2. refs \subseteq Tables
      BY <1>4, <1>12, CommitmentsOwn DEF HandlerInv, CallsOwn
    <3>3. \A t \in refs : disk[t].commit \in Seq(Batches)
      <4> SUFFICES ASSUME NEW t \in refs PROVE disk[t].commit \in Seq(Batches)
        OBVIOUS
      <4>1. disk[t].commit \in Seq(Batches) \cup {Torn, Missing}
        BY <1>1, <3>2, Store!DirFields, StoreAssumption
      <4>2. Store!CommitmentError(disk[t]) = "Ok"
        BY <3>1, AllCommits
      <4> QED
        BY <4>1, <4>2 DEF Store!CommitmentError
    <3>4. PerTable(answer'[r].commits)
      BY <3>1, <3>2, <3>3 DEF PerTable
    <3> QED
      BY <1>1, <3>1, <3>4 DEF IsAnswer
  <2> QED
    BY <2>1, <2>2
<1>13. CASE List(r)
  BY <1>1, <1>13, ListOwn DEF IsAnswer
<1> QED
  BY <1>5, <1>6, <1>7, <1>8, <1>9, <1>10, <1>11, <1>12, <1>13 DEF Acts, Handle

\* Every step keeps the types, the store by its own lemma.
LEMMA TypeStep ==
    ASSUME TypeOK, HandlerInv, [Next]_vars
    PROVE  TypeOK'
<1>1. Store!TypeOK'
  <2>1. [Store!Next]_storeVars
    BY StoreStepOf
  <2>2. [Store!Next]_(Store!vars)
    BY <2>1 DEF storeVars, Store!vars
  <2> QED
    BY <2>2, Store!TypeStep, StoreAssumption DEF TypeOK
<1>2. ASSUME NEW r \in Requests, Acts(r) PROVE TypeOK'
  <2>1. /\ db' \in Requests \cup {NoRequest}
        /\ pc' \in [Requests -> Places]
        /\ body' \in [Requests -> Bodies \cup {NoRequest}]
        /\ DOMAIN answer' = Requests
        /\ before' \in [Requests -> [Tables -> Seq(Batches)]]
    <3>1. CASE Send(r)
      BY <3>1 DEF Send, Go, TypeOK, Places, Store!TypeOK
    <3>2. CASE Poll(r)
      BY <3>2 DEF Poll, Reply, Go, TypeOK, Places
    <3>3. CASE Acquire(r) \/ Create(r)
      BY <3>3 DEF Acquire, Create, Go, TypeOK, Places
    <3>4. CASE InsertRows(r)
      BY <3>4 DEF InsertRows, Reply, Go, Unlock, TypeOK, Places
    <3>5. CASE StoreStep(r)
      BY <3>5 DEF StoreStep, apiVars, TypeOK
    <3>6. CASE Returned(r) \/ Encode(r)
      BY <3>6 DEF Returned, Encode, Reply, Go, Unlock, TypeOK, Places
    <3>7. CASE Prove(r)
      BY <3>7 DEF Prove, FailRead, Reply, Go, Unlock, TypeOK, Places
    <3>8. CASE Commitments(r)
      BY <3>8 DEF Commitments, FailRead, Reply, Go, Unlock, TypeOK, Places
    <3>9. CASE List(r)
      BY <3>9 DEF List, Go, Unlock, TypeOK, Places
    <3> QED
      BY <1>2, <3>1, <3>2, <3>3, <3>4, <3>5, <3>6, <3>7, <3>8, <3>9 DEF Acts, Handle
  <2>2. ASSUME NEW e \in Requests PROVE IsAnswer(answer'[e])
    <3>1. CASE e = r
      BY <1>2, <3>1, AnswerStep
    <3>2. CASE e # r
      BY <1>2, <3>2, OthersSame DEF Same, TypeOK
    <3> QED
      BY <3>1, <3>2
  <2> QED
    BY <1>1, <2>1, <2>2 DEF TypeOK, IsAnswer, PerTable
<1>3. CASE Restart
  BY <1>1, <1>3 DEF Restart, TypeOK, Places, IsAnswer, PerTable
<1>4. CASE UNCHANGED vars
  BY <1>1, <1>4 DEF vars, TypeOK, IsAnswer, PerTable
<1> QED
  BY <1>2, <1>3, <1>4 DEF Next, Acts

---------------------------------------------------------------------------
(***************************************************************************)
(* The mutex.                                                              *)
(***************************************************************************)

\* The mutex is taken when nobody has it, and given back by who has it.
LEMMA HandlerStep ==
    ASSUME TypeOK, HandlerInv, [Next]_vars
    PROVE  HandlerInv'
<1>1. ASSUME NEW r \in Requests, Acts(r)
      PROVE  /\ pc'[r] # "unsent" => body'[r] \in Bodies
             /\ CallsOwn(r)'
             /\ pc'[r] \in {"locked", "calling", "proved"} <=> db' = r
             /\ db' # r => (db' = db \/ (db = r /\ db' = NoRequest))
             /\ db' = r => db \in {r, NoRequest}
  <2>1. /\ pc[r] # "unsent" => body[r] \in Bodies
        /\ CallsOwn(r)
        /\ pc[r] \in {"locked", "calling", "proved"} <=> db = r
        /\ NoRequest # r
    BY ApiAssumption DEF HandlerInv, HandlerTypes, Mutex
  <2>2. CASE Send(r)
    BY <2>1, <2>2, SendOwn DEF CallsOwn, Store!Running, storeVars
  <2>3. CASE Poll(r)
    BY <2>1, <2>3, PollOwn DEF CallsOwn, Store!Running, storeVars, Keeps, Replies
  <2>4. CASE Acquire(r)
    BY <2>1, <2>4, AcquireOwn DEF CallsOwn, Store!Running, storeVars, Keeps
  <2>5. CASE Create(r)
    <3>1. /\ pc[r] = "locked" /\ body[r].kind = "Create" /\ pc'[r] = "calling"
          /\ Keeps(r) /\ UNCHANGED db
          /\ \/ call'[r].pc = "idle"
             \/ /\ call'[r].t = body[r].t /\ call'[r].file.batch = <<>>
                /\ call'[r].file.schema = body[r].schema
      BY <2>5, CreateOwn DEF Store!Returned, Begins
    <3> QED
      BY <2>1, <3>1 DEF CallsOwn, Store!Running, Keeps
  <2>6. CASE InsertRows(r)
    <3>1. pc[r] = "locked" /\ body[r].kind = "Insert" /\ Keeps(r)
      BY <2>6, InsertOwn
    <3>2. CASE DecodeError(body[r]) # "Ok"
      <4>1. pc'[r] = "done" /\ db' = NoRequest /\ UNCHANGED call
        BY <2>6, <3>2, InsertOwn DEF Replies
      <4> QED
        BY <2>1, <3>1, <4>1 DEF CallsOwn, Store!Running, Keeps
    <3>3. CASE DecodeError(body[r]) = "Ok"
      <4>1. pc'[r] = "calling" /\ UNCHANGED db /\ Inserts(r)
        BY <2>6, <3>3, InsertOwn
      <4>2. \/ call'[r].pc = "idle"
            \/ /\ call'[r].pc = "open" /\ call'[r].t = body[r].t
               /\ call'[r].file.batch = body[r].rows
               /\ call'[r].file.schema = body[r].schema
        BY <4>1 DEF Store!Returned, Begins, Inserts
      <4> QED
        BY <2>1, <3>1, <4>1, <4>2 DEF CallsOwn, Store!Running, Keeps
    <3> QED
      BY <3>2, <3>3
  <2>7. CASE StoreStep(r)
    <3>1. /\ pc[r] = "calling" /\ UNCHANGED apiVars /\ Store!Running(r)
          /\ \/ /\ call'[r].pc \in {"open", "write", "extend", "store"}
                /\ call'[r].t = call[r].t /\ call'[r].file = call[r].file
             \/ call'[r].pc = "idle"
      BY <2>7, StoreStepOwn DEF Store!Returned
    <3> QED
      BY <2>1, <3>1 DEF CallsOwn, Store!Running, apiVars
  <2>8. CASE Returned(r)
    BY <2>1, <2>8, ReturnedOwn DEF CallsOwn, Store!Running, storeVars, Keeps, Replies
  <2>9. CASE Prove(r)
    <3>1. /\ pc[r] = "locked" /\ body[r].kind = "Query" /\ Keeps(r) /\ UNCHANGED storeVars
          /\ \/ pc'[r] = "done" /\ db' = NoRequest
             \/ pc'[r] = "proved" /\ UNCHANGED db
      BY <2>9, ProveOwn DEF Replies
    <3> QED
      BY <2>1, <3>1 DEF CallsOwn, Store!Running, storeVars, Keeps
  <2>10. CASE Commitments(r)
    BY <2>1, <2>10, CommitmentsOwn DEF CallsOwn, Store!Running, storeVars, Keeps, Replies
  <2>11. CASE List(r)
    BY <2>1, <2>11, ListOwn DEF CallsOwn, Store!Running, storeVars, Keeps
  <2>12. CASE Encode(r)
    BY <2>1, <2>12, EncodeOwn DEF CallsOwn, Store!Running, storeVars, Keeps, Replies
  <2> QED
    BY <1>1, <2>2, <2>3, <2>4, <2>5, <2>6, <2>7, <2>8, <2>9, <2>10, <2>11, <2>12
    DEF Acts, Handle
<1>2. TypeOK'
  BY TypeStep
<1>3. ASSUME NEW r \in Requests, Acts(r) PROVE HandlerInv'
  <2>1. ASSUME NEW e \in Requests, e # r
        PROVE  /\ pc'[e] # "unsent" => body'[e] \in Bodies
               /\ CallsOwn(e)'
               /\ pc'[e] \in {"locked", "calling", "proved"} <=> db' = e
    <3>1. /\ pc[e] # "unsent" => body[e] \in Bodies
          /\ CallsOwn(e)
          /\ pc[e] \in {"locked", "calling", "proved"} <=> db = e
          /\ NoRequest # e
      BY ApiAssumption DEF HandlerInv, HandlerTypes, Mutex
    <3>2. Same(e)
      BY <1>3, <2>1, OthersSame
    <3>3. CallsOwn(e)'
      BY <3>1, <3>2 DEF Same, CallsOwn, Store!Running
    <3> QED
      BY <1>1, <1>3, <2>1, <3>1, <3>2, <3>3 DEF Same
  <2> QED
    BY <1>1, <1>2, <1>3, <2>1 DEF HandlerInv, HandlerTypes, Mutex, TypeOK
<1>4. CASE Restart
  <2>1. \A e \in Requests : ~Store!Running(e)'
    BY <1>4 DEF Restart, Store!Restart, Store!Returned, Store!Running
  <2>2. \A e \in Requests : pc'[e] \in {"unsent", "done", "lost"}
                            /\ (pc'[e] # "unsent" => pc[e] # "unsent")
    BY <1>4 DEF Restart, TypeOK
  <2>3. db' = NoRequest /\ UNCHANGED body
    BY <1>4 DEF Restart
  <2> QED
    BY <1>2, <2>1, <2>2, <2>3, ApiAssumption
    DEF HandlerInv, HandlerTypes, Mutex, CallsOwn, TypeOK
<1>5. CASE UNCHANGED vars
  BY <1>5 DEF vars, HandlerInv, HandlerTypes, Mutex, CallsOwn, Store!Running
<1> QED
  BY <1>3, <1>4, <1>5 DEF Next, Acts

(***************************************************************************)
(* The mutex makes the handlers' calls the store's, one at a time.         *)
(***************************************************************************)
THEOREM HandlersTakeTurns == Spec => []HandlerInv
<1>1. Init => TypeOK /\ HandlerInv
  BY TypeInit, HandlerInit
<1>2. TypeOK /\ HandlerInv /\ [Next]_vars => TypeOK' /\ HandlerInv'
  BY TypeStep, HandlerStep
<1> QED
  BY <1>1, <1>2, PTL DEF Spec

\* The variables of the handlers and of their store have their types.
THEOREM TypeCorrect == Spec => []TypeOK
<1>1. Init => TypeOK /\ HandlerInv
  BY TypeInit, HandlerInit
<1>2. TypeOK /\ HandlerInv /\ [Next]_vars => TypeOK' /\ HandlerInv'
  BY TypeStep, HandlerStep
<1> QED
  BY <1>1, <1>2, PTL DEF Spec

\* What Db and DbProofs show of the store, they show of the service: its steps
\* are those of a store whose calls come one at a time.
THEOREM StoreImplemented == Spec => ImplementsStore
<1>1. Init => Store!Init
  BY DEF Init
<1>2. HandlerInv /\ [Next]_vars => [Store!Next]_(Store!vars)
  BY StoreStepOf DEF storeVars, Store!vars
<1> QED
  BY <1>1, <1>2, HandlersTakeTurns, PTL DEF Spec, ImplementsStore, Store!Spec
---------------------------------------------------------------------------
(***************************************************************************)
(* What the rest rests on: the handlers take turns, and so the store's own *)
(* invariants hold of the store they share.                                *)
(***************************************************************************)
ServiceInv == TypeOK /\ HandlerInv /\ Store!Inv /\ Store!Fits

\* It holds at the start.
LEMMA ServiceInit == Init => ServiceInv
BY TypeInit, HandlerInit, Store!InitInv, Store!FitsInit, StoreAssumption
   DEF Init, ServiceInv

\* And after every step, the store by the lemmas of DbProofs.
LEMMA ServiceStep ==
    ASSUME ServiceInv, [Next]_vars
    PROVE  ServiceInv'
<1>1. TypeOK /\ HandlerInv /\ Store!TypeOK /\ Store!Inv /\ Store!Fits
  BY DEF ServiceInv, TypeOK
<1>2. [Store!Next]_(Store!vars)
  BY <1>1, StoreStepOf DEF storeVars, Store!vars
<1>3. Store!Inv' /\ Store!Fits'
  BY <1>1, <1>2, Store!NextInv, Store!FitsStep, StoreAssumption
<1> QED
  BY <1>1, <1>3, TypeStep, HandlerStep DEF ServiceInv

\* A step acts for request e, leaves it alone, or kills the process.
Killed(e) == /\ pc'[e] = "lost" \/ (pc'[e] = pc[e] /\ pc[e] \in {"unsent", "done"})
             /\ body'[e] = body[e] /\ answer'[e] = answer[e] /\ before'[e] = before[e]
             /\ ~Store!Running(e)'

\* That is all a step can be to a request.
LEMMA StepOf ==
    ASSUME ServiceInv, [Next]_vars, NEW e \in Requests
    PROVE  Acts(e) \/ Same(e) \/ (Restart /\ Killed(e))
<1>1. CASE Restart
  BY <1>1 DEF Restart, Killed, ServiceInv, TypeOK, Store!Restart, Store!Returned,
              Store!Running
<1>2. CASE UNCHANGED vars
  BY <1>2 DEF vars, Same
<1>3. ASSUME NEW r \in Requests, Acts(r) PROVE Acts(e) \/ Same(e)
  BY <1>3, OthersSame DEF ServiceInv
<1> QED
  BY <1>1, <1>2, <1>3 DEF Next, Acts

\* What was acknowledged stays, in its order; so does what was interrupted.
LEMMA Grows ==
    ASSUME ServiceInv, [Next]_vars
    PROVE  /\ \A t \in Tables :
                 acked'[t] = acked[t] \/ \E b \in Batches : acked'[t] = Append(acked[t], b)
           /\ \A t \in Tables : IsPrefix(acked[t], acked'[t])
           /\ \A t \in Tables, u \in Seq(Batches) :
                 IsPrefix(u, acked[t]) => IsPrefix(u, acked'[t])
           /\ \A t \in Tables : disk[t].dir => disk'[t].dir
           /\ interrupted \subseteq interrupted'
           /\ faults' = 0 => faults = 0
<1>1. Store!TypeOK /\ Store!Inv /\ HandlerInv /\ TypeOK
  BY DEF ServiceInv, TypeOK
<1>2. [Store!Next]_(Store!vars)
  BY <1>1, StoreStepOf DEF storeVars, Store!vars
<1>3. /\ interrupted \subseteq interrupted' /\ (faults' = 0 => faults = 0)
      /\ \A t \in Tables : disk[t].dir => disk'[t].dir
  BY <1>1, <1>2, Store!StoreGrows, StoreAssumption
<1>4. ASSUME NEW t \in Tables
      PROVE  /\ acked'[t] = acked[t] \/ \E b \in Batches : acked'[t] = Append(acked[t], b)
             /\ IsPrefix(acked[t], acked'[t])
             /\ \A u \in Seq(Batches) : IsPrefix(u, acked[t]) => IsPrefix(u, acked'[t])
  <2>1. acked[t] = acked'[t] \/ \E b \in Batches : acked'[t] = Append(acked[t], b)
    BY <1>1, <1>2, Store!StoreGrows, StoreAssumption
  <2>2. acked[t] \in Seq(Batches)
    BY <1>1 DEF Store!TypeOK
  <2> QED
    BY <2>1, <2>2, PrefixReflexive, PrefixOfAppend
<1> QED
  BY <1>3, <1>4
---------------------------------------------------------------------------
(***************************************************************************)
(* Errors.  What a store call returned is Ok, that the table exists, or an *)
(* error that in the absence of faults tells of an interrupted table.      *)
(***************************************************************************)
Failures == {"Empty", "Io", "Parquet", "Decode", "Commit"}

\* What the call of a handler, once over, tells of its table.
Outcome(r) ==
    pc[r] = "calling" /\ ~Store!Running(r)
        => /\ call[r].ret \in {"Ok", "AlreadyExists"} \cup Failures
           /\ body[r].kind = "Insert" => call[r].ret # "AlreadyExists"
           /\ faults = 0 /\ call[r].ret \in Failures => body[r].t \in interrupted

\* A 500 is about the query's SQL, or about a table a call failed on.
Explained(r) ==
    Replied(r, 500) /\ faults = 0
        => \/ body[r].kind = "Query" /\ body[r].sql # "Fine"
           \/ Refs(body[r]) \cap interrupted # {}

\* Together they are inductive.
ErrorsInv == \A r \in Requests : Outcome(r) /\ Explained(r)

\* A table that is there and that no call failed on can be read by whoever
\* has the mutex.
LEMMA HolderReads ==
    ASSUME ServiceInv, NEW r \in Requests, pc[r] \in {"locked", "proved"},
           NEW t \in Tables \ interrupted, disk[t].dir
    PROVE  /\ Store!SchemaError(disk[t]) = "Ok" /\ Store!DataError(disk[t]) = "Ok"
           /\ Store!CommitmentError(disk[t]) = "Ok"
           /\ faults = 0 => ~TooLong(disk[t])
<1>1. /\ Store!TypeOK /\ Store!Inv /\ Store!Fits /\ Store!Quiet
  BY QuietUnless DEF ServiceInv, TypeOK
<1>2. /\ Store!SchemaError(disk[t]) = "Ok" /\ Store!DataError(disk[t]) = "Ok"
      /\ Store!CommitmentError(disk[t]) = "Ok"
  BY <1>1, Store!QuietReads, StoreAssumption
<1>3. ASSUME faults = 0 PROVE ~TooLong(disk[t])
  <2>1. Len(Store!Rows(Store!DataOf(disk[t]))) <= powers
    BY <1>1, <1>3, Store!QuietFits, StoreAssumption
  <2>2. Store!DataOf(disk[t]) \in Seq(Batches)
    BY <1>1, <1>2, Store!DataIsBatches, StoreAssumption
  <2>3. Len(Store!Rows(Store!DataOf(disk[t]))) \in Nat /\ powers \in Nat
    BY <1>1, <2>2, Store!RowsLength, StoreAssumption DEF Store!TypeOK, Store!DbAssumption
  <2> QED
    BY <2>1, <2>3 DEF TooLong
<1> QED
  BY <1>2, <1>3

\* The errors of the readers; only NotFound says there is no directory.
LEMMA ReadErrors ==
    ASSUME NEW d
    PROVE  /\ Store!SchemaError(d) \in {"NotFound", "Empty", "Parquet", "Ok"}
           /\ Store!DataError(d) \in {"NotFound", "Empty", "Parquet", "Ok"}
           /\ Store!CommitmentError(d) \in {"NotFound", "Io", "Decode", "Ok"}
           /\ (Store!SchemaError(d) = "NotFound") <=> ~d.dir
           /\ (Store!DataError(d) = "NotFound") <=> ~d.dir
           /\ (Store!CommitmentError(d) = "NotFound") <=> ~d.dir
<1>1. /\ Store!SchemaError(d) \in {"NotFound", "Empty", "Parquet", "Ok"}
      /\ (Store!SchemaError(d) = "NotFound") <=> ~d.dir
  <2>1. CASE ~d.dir
    BY <2>1 DEF Store!SchemaError
  <2>2. CASE d.dir
    <3>1. Store!SchemaError(d) \in {"Empty", "Parquet", "Ok"}
      BY <2>2 DEF Store!SchemaError
    <3> QED
      BY <2>2, <3>1
  <2> QED
    BY <2>1, <2>2
<1>2. /\ Store!DataError(d) \in {"NotFound", "Empty", "Parquet", "Ok"}
      /\ (Store!DataError(d) = "NotFound") <=> (Store!SchemaError(d) = "NotFound")
  BY <1>1 DEF Store!DataError
<1>3. /\ Store!CommitmentError(d) \in {"NotFound", "Io", "Decode", "Ok"}
      /\ (Store!CommitmentError(d) = "NotFound") <=> ~d.dir
  <2>1. CASE ~d.dir
    BY <2>1 DEF Store!CommitmentError
  <2>2. CASE d.dir
    <3>1. Store!CommitmentError(d) \in {"Io", "Decode", "Ok"}
      BY <2>2 DEF Store!CommitmentError
    <3> QED
      BY <2>2, <3>1
  <2> QED
    BY <2>1, <2>2
<1> QED
  BY <1>1, <1>2, <1>3

\* What a status tells of the error it was made from.
LEMMA StatusOf ==
    ASSUME NEW kind, NEW e
    PROVE  /\ Status(kind, e) = 404 => e = "NotFound"
           /\ Status(kind, e) = 500
                 => e \notin {"NotFound", "AlreadyExists", "SchemaMismatch",
                              "Undecodable", "Ok"}
           /\ Status(kind, e) \in {200, 201} => e = "Ok"
           /\ Status(kind, e) = 201 => kind \in {"Create", "Insert"}
BY DEF Status

\* Every handler keeps them: it reads under the mutex, or asked a call that did.
LEMMA ErrorsOwn ==
    ASSUME ServiceInv, [Next]_vars, NEW r \in Requests, Acts(r), Outcome(r), Explained(r)
    PROVE  Outcome(r)' /\ Explained(r)'
<1>1. /\ TypeOK /\ HandlerInv /\ interrupted \subseteq interrupted'
      /\ faults' = 0 => faults = 0
  BY Grows DEF ServiceInv
<1>2. pc[r] # "unsent" => body[r] \in Bodies
  BY <1>1 DEF HandlerInv, HandlerTypes
<1>3. CASE Send(r)
  BY <1>1, <1>3, SendOwn DEF Outcome, Explained, Replied
<1>4. CASE Poll(r)
  BY <1>1, <1>4, PollOwn DEF Outcome, Explained, Replied, Replies, Misnamed, Keeps
<1>5. CASE Acquire(r)
  BY <1>1, <1>5, AcquireOwn DEF Outcome, Explained, Replied
<1>6. CASE Create(r)
  <2>1. pc'[r] = "calling" /\ Keeps(r) /\ body[r].kind = "Create"
    BY <1>1, <1>6, CreateOwn
  <2>2. call'[r] = Store!Returned("AlreadyExists") \/ Begins(r, "mkdir", <<>>)
    BY <1>1, <1>6, CreateOwn
  <2> QED
    BY <2>1, <2>2 DEF Outcome, Explained, Replied, Begins, Keeps, Store!Returned,
                      Store!Running, Failures
<1>7. CASE InsertRows(r)
  <2> DEFINE d == disk[body[r].t]
  <2>1. pc[r] = "locked" /\ Keeps(r) /\ body[r].kind = "Insert" /\ body[r].t \in Tables
        /\ UNCHANGED <<disk, faults, interrupted>>
    BY <1>1, <1>2, <1>7, InsertOwn, BodyFields
  <2>2. ASSUME d.dir, body[r].t \notin interrupted
        PROVE  Store!SchemaError(d) = "Ok" /\ Store!CommitmentError(d) = "Ok"
    BY <2>1, <2>2, HolderReads
  <2>3. CASE DecodeError(body[r]) # "Ok"
    <3>1. Replies(r, Status("Insert", DecodeError(body[r])))
      BY <1>1, <1>7, <2>3, InsertOwn
    <3>2. ASSUME Replied(r, 500)' PROVE body[r].t \in interrupted
      <4>1. DecodeError(body[r]) \notin {"NotFound", "Undecodable"}
        BY <3>1, <3>2, StatusOf DEF Replies, Replied
      <4>2. Store!SchemaError(d) \notin {"NotFound", "Ok"}
        BY <2>3, <4>1 DEF DecodeError
      <4> QED
        BY <2>2, <4>2, ReadErrors
    <3> QED
      BY <2>1, <3>1, <3>2 DEF Replies, Outcome, Explained, Refs, Keeps
  <2>4. CASE DecodeError(body[r]) = "Ok"
    <3>1. pc'[r] = "calling" /\ Inserts(r)
      BY <1>1, <1>7, <2>4, InsertOwn
    <3>2. Store!SchemaError(d) = "Ok" /\ d.dir
      BY <2>4, ReadErrors DEF DecodeError
    <3>3. Store!InsertError(d, Store!SchemaOf(d)) = Store!CommitmentError(d)
      BY <3>2 DEF Store!InsertError
    <3>4. \/ /\ call'[r].ret \in {"Io", "Decode"}
             /\ body[r].t \in interrupted
          \/ call'[r].pc = "open"
      BY <2>2, <3>1, <3>2, <3>3, ReadErrors DEF Inserts, Begins, Store!Returned
    <3> QED
      BY <2>1, <3>1, <3>4 DEF Outcome, Explained, Replied, Keeps, Store!Running, Failures
  <2> QED
    BY <2>3, <2>4
<1>8. CASE StoreStep(r)
  <2>1. /\ pc[r] = "calling" /\ UNCHANGED apiVars /\ Store!Running(r)
        /\ \/ call'[r].pc # "idle"
           \/ call'[r].ret = "Ok"
           \/ /\ call'[r].ret \in {"Io", "Parquet", "Commit"}
              /\ faults' = 0 => call[r].t \in interrupted'
    BY <1>1, <1>8, StoreStepOwn DEF Store!Returned
  <2>2. call[r].t = body[r].t
    BY <1>1, <2>1 DEF HandlerInv, CallsOwn
  <2> QED
    BY <2>1, <2>2 DEF apiVars, Outcome, Explained, Replied, Store!Running, Failures
<1>9. CASE Returned(r)
  <2>1. pc[r] = "calling" /\ ~Store!Running(r) /\ Keeps(r) /\ UNCHANGED storeVars
        /\ Replies(r, Status(body[r].kind, call[r].ret))
    BY <1>1, <1>9, ReturnedOwn
  <2>2. body[r].kind \in {"Create", "Insert"}
    BY <1>1, <2>1 DEF HandlerInv, CallsOwn
  <2>3. ASSUME Replied(r, 500)', faults = 0 PROVE body[r].t \in interrupted
    <3>1. Status(body[r].kind, call[r].ret) = 500
      BY <2>1, <2>3 DEF Replies, Replied
    <3>2. call[r].ret \notin {"AlreadyExists", "Ok"}
      BY <3>1, StatusOf
    <3> QED
      BY <2>1, <2>3, <3>2 DEF Outcome
  <2> QED
    BY <1>1, <2>1, <2>2, <2>3 DEF Outcome, Explained, Replies, Keeps, Refs, storeVars
<1>10. CASE Prove(r)
  <2>1. pc[r] = "locked" /\ body[r].kind = "Query" /\ Keeps(r) /\ UNCHANGED storeVars
    BY <1>1, <1>10, ProveOwn
  <2>2. body[r].refs \subseteq Tables
    BY <1>2, <2>1, BodyFields
  <2>3. CASE pc'[r] = "proved"
    BY <2>3 DEF Outcome, Explained, Replied
  <2>4. CASE pc'[r] # "proved"
    <3>1. PICK e \in ProveErrors(body[r]) : Replies(r, Status("Query", e))
      BY <1>1, <1>10, <2>4, ProveOwn
    <3>2. ASSUME Replied(r, 500)', faults = 0, body[r].sql = "Fine"
          PROVE  body[r].refs \cap interrupted # {}
      <4>1. e \notin {"NotFound", "Ok"}
        BY <3>1, <3>2, StatusOf DEF Replies, Replied
      <4>2. PICK t \in body[r].refs :
               \/ Store!DataError(disk[t]) \notin {"NotFound", "Ok"}
               \/ Store!DataError(disk[t]) = "Ok" /\ TooLong(disk[t])
        <5>1. CASE UnreadData(body[r].refs) # {}
          BY <3>1, <4>1, <5>1 DEF ProveErrors, UnreadData
        <5>2. CASE UnreadData(body[r].refs) = {}
          <6>1. PICK t \in body[r].refs : TooLong(disk[t])
            BY <3>1, <3>2, <5>2 DEF ProveErrors
          <6>2. Store!DataError(disk[t]) = "Ok"
            BY <5>2 DEF UnreadData
          <6> QED
            BY <6>1, <6>2
        <5> QED
          BY <5>1, <5>2
      <4>3. t \in Tables /\ disk[t].dir
        BY <2>2, <4>2, ReadErrors
      <4> QED
        BY <2>1, <3>2, <4>2, <4>3, HolderReads
    <3>3. pc'[r] = "done"
      BY <3>1 DEF Replies
    <3> QED
      BY <1>1, <2>1, <3>2, <3>3 DEF Outcome, Explained, Keeps, Refs, storeVars
  <2> QED
    BY <2>3, <2>4
<1>11. CASE Commitments(r)
  <2>1. /\ pc[r] \in {"locked", "proved"} /\ body[r].kind \in {"Query", "Show"}
        /\ Keeps(r) /\ UNCHANGED storeVars
    BY <1>1, <1>11, CommitmentsOwn DEF HandlerInv, CallsOwn
  <2>2. body[r].refs \subseteq Tables
    BY <1>2, <2>1, BodyFields
  <2>3. CASE pc'[r] = "encode"
    BY <2>3 DEF Outcome, Explained, Replied
  <2>4. CASE pc'[r] # "encode"
    <3>1. PICK e \in UnreadCommits(body[r].refs) : Replies(r, Status("Query", e))
      BY <1>1, <1>11, <2>4, CommitmentsOwn
    <3>2. ASSUME Replied(r, 500)'
          PROVE  body[r].refs \cap interrupted # {}
      <4>1. e \notin {"NotFound", "Ok"}
        BY <3>1, <3>2, StatusOf DEF Replies, Replied
      <4>2. PICK t \in body[r].refs : Store!CommitmentError(disk[t]) \notin {"NotFound", "Ok"}
        BY <3>1, <4>1 DEF UnreadCommits
      <4>3. t \in Tables /\ disk[t].dir
        BY <2>2, <4>2, ReadErrors
      <4> QED
        BY <2>1, <3>2, <4>2, <4>3, HolderReads
    <3>3. pc'[r] = "done"
      BY <3>1 DEF Replies
    <3> QED
      BY <1>1, <2>1, <3>2, <3>3 DEF Outcome, Explained, Keeps, Refs, storeVars
  <2> QED
    BY <2>3, <2>4
<1>12. CASE List(r)
  BY <1>1, <1>12, ListOwn DEF Outcome, Explained, Replied
<1>13. CASE Encode(r)
  <2>1. Keeps(r) /\ Replies(r, IF Coercible(body[r]) THEN 200 ELSE 500)
    BY <1>1, <1>13, EncodeOwn
  <2>2. Replied(r, 500)' => body[r].kind = "Query" /\ body[r].sql # "Fine"
    BY <2>1 DEF Replies, Replied, Coercible
  <2> QED
    BY <2>1, <2>2 DEF Replies, Outcome, Explained, Keeps
<1> QED
  BY <1>3, <1>4, <1>5, <1>6, <1>7, <1>8, <1>9, <1>10, <1>11, <1>12, <1>13 DEF Acts, Handle

\* And so do the other handlers and a restart.
LEMMA ErrorsStep ==
    ASSUME ServiceInv, ErrorsInv, [Next]_vars
    PROVE  ErrorsInv'
<1> SUFFICES ASSUME NEW r \in Requests PROVE Outcome(r)' /\ Explained(r)'
  BY DEF ErrorsInv
<1>1. Outcome(r) /\ Explained(r)
  BY DEF ErrorsInv
<1>2. interrupted \subseteq interrupted' /\ (faults' = 0 => faults = 0)
  BY Grows
<1>3. CASE Acts(r)
  BY <1>1, <1>3, ErrorsOwn
<1>4. CASE Same(r)
  BY <1>1, <1>2, <1>4 DEF Same, Outcome, Explained, Replied, Store!Running
<1>5. CASE Killed(r)
  BY <1>1, <1>2, <1>5 DEF Killed, Outcome, Explained, Replied
<1> QED
  BY <1>3, <1>4, <1>5, StepOf

\* Nothing failed yet.
LEMMA ErrorsInit == Init => ErrorsInv
BY DEF Init, ErrorsInv, Outcome, Explained, Replied

---------------------------------------------------------------------------
(***************************************************************************)
(* Whose fault a 500 is.  A table is interrupted by a call that asked for  *)
(* what cannot be done, whose request is answered 500 before the mutex is  *)
(* given to another; and what cannot be done never can be again.           *)
(***************************************************************************)

\* Request e could not be done on table t: it was told so, or is about to be.
CouldNot(e, t) ==
    /\ body[e].kind \in {"Create", "Insert"} /\ body[e].t = t /\ Impossible(body[e])
    /\ \/ Replied(e, 500)
       \/ pc[e] = "calling" /\ ~Store!Running(e) /\ call[e].ret = "Commit"

\* Without a fault, every interrupted table has such a request.
Blamed == faults = 0 => \A t \in interrupted : \E e \in Requests : CouldNot(e, t)

\* ErrorsExplained, of one request.
Due(r) ==
    Replied(r, 500) /\ faults = 0
        => \/ body[r].kind = "Query" /\ body[r].sql # "Fine"
           \/ \E e \in Requests : Refused(e) /\ body[e].t \in Refs(body[r])

\* Together they are inductive.
BlameInv == Blamed /\ \A r \in Requests : Due(r)

\* The rows acknowledged, and the new ones, are numbers of rows.
LEMMA RowCounts ==
    ASSUME ServiceInv, NEW e \in Requests, body[e].kind \in {"Create", "Insert"},
           pc[e] # "unsent"
    PROVE  /\ body[e].t \in Tables /\ powers \in Nat
           /\ Len(Store!Rows(acked[body[e].t])) \in Nat /\ Len(RowsOf(body[e])) \in Nat
<1>1. TypeOK /\ HandlerInv /\ Store!TypeOK
  BY DEF ServiceInv, TypeOK
<1>2. body[e] \in Bodies
  BY <1>1 DEF HandlerInv, HandlerTypes
<1>3. body[e].t \in Tables /\ (body[e].kind = "Insert" => body[e].rows \in Batches)
  BY <1>2, BodyFields
<1>4. powers \in Nat /\ acked[body[e].t] \in Seq(Batches)
  BY <1>1, <1>3, StoreAssumption DEF Store!TypeOK, Store!DbAssumption
<1>5. Len(RowsOf(body[e])) \in Nat
  <2>1. RowsOf(body[e]) = <<>> \/ RowsOf(body[e]) \in Seq(Store!Row)
    BY <1>3, StoreAssumption DEF RowsOf, Store!DbAssumption
  <2> QED
    BY <2>1
<1> QED
  BY <1>3, <1>4, <1>5, Store!RowsLength, StoreAssumption

\* What cannot be done cannot be done later: rows are only added, and the powers
\* are the same until a restart.
LEMMA ImpossibleStays ==
    ASSUME ServiceInv, [Next]_vars, faults' = 0, NEW e \in Requests, pc[e] # "unsent",
           body'[e] = body[e], body[e].kind \in {"Create", "Insert"}, Impossible(body[e])
    PROVE  Impossible(body[e])'
<1> DEFINE t == body[e].t
<1>1. /\ t \in Tables /\ powers \in Nat
      /\ Len(Store!Rows(acked[t])) \in Nat /\ Len(RowsOf(body[e])) \in Nat
  BY RowCounts
<1>2. powers' = powers
  BY StoreStepOf, Store!FaultlessStep, StoreAssumption
  DEF ServiceInv, TypeOK, storeVars, Store!vars
<1>3. RowsOf(body'[e]) = RowsOf(body[e]) /\ body'[e].t = t
  BY DEF RowsOf
<1>4. /\ Len(Store!Rows(acked'[t])) \in Nat
      /\ Len(Store!Rows(acked[t])) <= Len(Store!Rows(acked'[t]))
  <2>1. acked[t] \in Seq(Batches)
    BY <1>1 DEF ServiceInv, TypeOK, Store!TypeOK
  <2>2. acked'[t] = acked[t] \/ \E b \in Batches : acked'[t] = Append(acked[t], b)
    BY <1>1, Grows
  <2>3. CASE acked'[t] = acked[t]
    BY <1>1, <2>3
  <2>4. ASSUME NEW b \in Batches, acked'[t] = Append(acked[t], b)
        PROVE  /\ Len(Store!Rows(acked'[t])) \in Nat
               /\ Len(Store!Rows(acked[t])) <= Len(Store!Rows(acked'[t]))
    <3>1. Len(b) \in Nat
      <4>1. b \in Seq(Store!Row)
        BY StoreAssumption DEF Store!DbAssumption
      <4> QED
        BY <4>1
    <3>2. Len(Store!Rows(acked'[t])) = Len(Store!Rows(acked[t])) + Len(b)
      BY <2>1, <2>4, Store!RowsLength, StoreAssumption
    <3> QED
      BY <1>1, <3>1, <3>2
  <2> QED
    BY <2>2, <2>3, <2>4
<1>5. CASE body[e].schema \notin Committable
  BY <1>5 DEF Impossible
<1>6. CASE Len(Store!Rows(acked[t])) + Len(RowsOf(body[e])) > powers
  <2>1. Len(Store!Rows(acked'[t])) + Len(RowsOf(body'[e])) > powers'
    BY <1>1, <1>2, <1>3, <1>4, <1>6
  <2> QED
    BY <1>3, <2>1 DEF Impossible
<1> QED
  BY <1>5, <1>6 DEF Impossible

\* A request that is answered does nothing more, and one whose call is over is
\* answered next.
LEMMA LastActs ==
    ASSUME ServiceInv, NEW e \in Requests, Acts(e)
    PROVE  /\ pc[e] # "done"
           /\ pc[e] = "calling" /\ ~Store!Running(e)
                 => /\ Keeps(e) /\ Replies(e, Status(body[e].kind, call[e].ret))
           /\ pc[e] = "calling" /\ Store!Running(e) => UNCHANGED apiVars
<1>1. TypeOK
  BY DEF ServiceInv
<1>2. CASE Send(e) \/ Poll(e) \/ Acquire(e) \/ Encode(e) \/ List(e)
  <2>1. pc[e] \in {"unsent", "sent", "lock", "encode", "locked"}
    BY <1>1, <1>2, SendOwn, PollOwn, AcquireOwn, EncodeOwn, ListOwn
  <2> QED
    BY <2>1
<1>3. CASE Create(e) \/ InsertRows(e) \/ Prove(e) \/ Commitments(e)
  <2>1. pc[e] \in {"locked", "proved"}
    BY <1>1, <1>3, CreateOwn, InsertOwn, ProveOwn, CommitmentsOwn
  <2> QED
    BY <2>1
<1>4. CASE StoreStep(e)
  BY <1>1, <1>4, StoreStepOwn
<1>5. CASE Returned(e)
  BY <1>1, <1>5, ReturnedOwn
<1> QED
  BY <1>2, <1>3, <1>4, <1>5 DEF Acts, Handle

\* A request that could not be done still could not.
LEMMA BlameStays ==
    ASSUME ServiceInv, [Next]_vars, faults' = 0, NEW e \in Requests, NEW t, CouldNot(e, t)
    PROVE  /\ CouldNot(e, t)'
           /\ Replied(e, 500) => Replied(e, 500)'
           /\ body'[e] = body[e]
<1>1. ~Restart
  <2>1. faults \in Nat
    BY StoreAssumption DEF ServiceInv, TypeOK, Store!TypeOK, Store!DbAssumption
  <2> QED
    BY <2>1 DEF Restart, Store!Restart
<1>2. pc[e] \in {"done", "calling"}
  BY DEF CouldNot, Replied
<1>3. CASE Same(e)
  <2>1. Impossible(body[e])'
    BY <1>2, <1>3, ImpossibleStays DEF Same, CouldNot
  <2> QED
    BY <1>3, <2>1 DEF Same, CouldNot, Replied, Store!Running
<1>4. CASE Acts(e)
  <2>1. /\ pc[e] = "calling" /\ ~Store!Running(e) /\ call[e].ret = "Commit"
    BY <1>4, LastActs DEF CouldNot, Replied
  <2>2. Keeps(e) /\ Replies(e, Status(body[e].kind, "Commit"))
    BY <1>4, <2>1, LastActs
  <2>3. Status(body[e].kind, "Commit") = 500
    BY DEF Status
  <2>4. Replied(e, 500)' /\ body'[e] = body[e]
    BY <2>2, <2>3 DEF Replies, Keeps, Replied
  <2>5. Impossible(body[e])'
    BY <1>2, <2>4, ImpossibleStays DEF CouldNot
  <2> QED
    BY <2>4, <2>5 DEF CouldNot
<1> QED
  BY <1>1, <1>3, <1>4, StepOf

\* A table that is interrupted without a fault is by a call that could not be done.
LEMMA BlameTaken ==
    ASSUME ServiceInv, [Next]_vars, faults' = 0, NEW t \in interrupted' \ interrupted
    PROVE  \E e \in Requests : CouldNot(e, t)'
<1>1. /\ TypeOK /\ HandlerInv /\ Store!TypeOK /\ Store!Inv /\ [Store!Next]_(Store!vars)
  BY StoreStepOf DEF ServiceInv, TypeOK, storeVars, Store!vars
<1>2. PICK e \in Requests : Store!RejectBatch(e) /\ call[e].t = t
  BY <1>1, Store!FaultlessStep, StoreAssumption
<1>3. Store!Running(e) /\ call[e].pc = "extend"
  BY <1>2 DEF Store!RejectBatch, Store!Running
<1>4. /\ pc[e] = "calling" /\ body[e].kind \in {"Create", "Insert"} /\ body[e].t = t
      /\ call[e].file.schema = body[e].schema
      /\ call[e].file.batch = RowsOf(body[e])
  BY <1>1, <1>2, <1>3 DEF HandlerInv, CallsOwn, RowsOf
<1>5. call'[e] = Store!Returned("Commit")
      /\ UNCHANGED <<powers, acked>>
  BY <1>1, <1>2 DEF Store!RejectBatch, Store!Fail, Store!Return, Store!TypeOK
<1>6. call[e].commitment = acked[t]
  BY <1>1, <1>2, <1>3 DEF Store!Inv, Store!InProgress, Store!StillTrue
<1>7. Impossible(body[e])
  <2>1. ~Store!CanExtend(call[e], powers)
    BY <1>2 DEF Store!RejectBatch
  <2>2. CASE body[e].schema \notin Committable
    BY <2>2 DEF Impossible
  <2>3. CASE ~(Len(Store!Rows(acked[t])) + Len(RowsOf(body[e])) <= powers)
    BY <1>4, <2>3, RowCounts DEF Impossible
  <2> QED
    BY <1>4, <1>6, <2>1, <2>2, <2>3 DEF Store!CanExtend
<1>8. UNCHANGED apiVars
  <2>1. ~Same(e)
    <3>1. call'[e].pc = "idle"
      BY <1>5 DEF Store!Returned
    <3> QED
      BY <1>3, <3>1 DEF Same
  <2>2. ~Restart
    <3>1. faults \in Nat
      BY <1>1, StoreAssumption DEF Store!TypeOK, Store!DbAssumption
    <3> QED
      BY <3>1 DEF Restart, Store!Restart
  <2>3. Acts(e)
    BY <2>1, <2>2, StepOf
  <2> QED
    BY <1>3, <1>4, <2>3, LastActs
<1>9. /\ body'[e] = body[e] /\ pc'[e] = "calling" /\ ~Store!Running(e)'
      /\ call'[e].ret = "Commit"
  BY <1>4, <1>5, <1>8 DEF apiVars, Store!Running, Store!Returned
<1>10. Impossible(body[e])'
  BY <1>4, <1>7, <1>9, ImpossibleStays
<1> QED
  BY <1>4, <1>9, <1>10 DEF CouldNot

\* A request that is answered 500 for its tables gives the mutex back with it.
LEMMA AnswersLast ==
    ASSUME ServiceInv, NEW r \in Requests, Acts(r), Replied(r, 500)'
    PROVE  \/ db' = NoRequest
           \/ body'[r].kind = "Query" /\ body'[r].sql # "Fine"
<1>1. TypeOK /\ pc'[r] = "done" /\ answer'[r].status = 500
  BY DEF ServiceInv, Replied
<1>2. CASE Send(r) \/ Acquire(r) \/ Create(r) \/ List(r)
  <2>1. pc'[r] \in {"sent", "locked", "calling", "encode"}
    BY <1>1, <1>2, SendOwn, AcquireOwn, CreateOwn, ListOwn
  <2> QED
    BY <1>1, <2>1
<1>3. CASE Poll(r)
  <2>1. Keeps(r) /\ Misnamed(body[r])
    BY <1>1, <1>3, PollOwn DEF Replies
  <2> QED
    BY <2>1 DEF Keeps, Misnamed
<1>4. CASE InsertRows(r)
  BY <1>1, <1>4, InsertOwn
<1>5. CASE StoreStep(r)
  BY <1>1, <1>5, StoreStepOwn DEF apiVars
<1>6. CASE Returned(r) \/ Commitments(r)
  BY <1>1, <1>6, ReturnedOwn, CommitmentsOwn
<1>7. CASE Prove(r)
  BY <1>1, <1>7, ProveOwn
<1>8. CASE Encode(r)
  <2>1. Keeps(r) /\ ~Coercible(body[r])
    BY <1>1, <1>8, EncodeOwn DEF Replies
  <2> QED
    BY <2>1 DEF Keeps, Coercible
<1> QED
  BY <1>2, <1>3, <1>4, <1>5, <1>6, <1>7, <1>8 DEF Acts, Handle

\* Every step keeps the blame where it is due.
LEMMA BlameStep ==
    ASSUME ServiceInv, ErrorsInv, BlameInv, [Next]_vars
    PROVE  BlameInv'
<1>1. ServiceInv' /\ ErrorsInv' /\ (faults' = 0 => faults = 0)
  BY ServiceStep, ErrorsStep, Grows
<1>2. Blamed'
  <2> SUFFICES ASSUME faults' = 0, NEW t \in interrupted'
               PROVE  \E e \in Requests : CouldNot(e, t)'
    BY DEF Blamed
  <2>1. CASE t \in interrupted
    <3>1. PICK e \in Requests : CouldNot(e, t)
      BY <1>1, <2>1 DEF BlameInv, Blamed
    <3> QED
      BY <3>1, BlameStays
  <2>2. CASE t \notin interrupted
    BY <2>2, BlameTaken
  <2> QED
    BY <2>1, <2>2
<1>3. ASSUME NEW r \in Requests PROVE Due(r)'
  <2> SUFFICES ASSUME Replied(r, 500)', faults' = 0,
                      ~(body'[r].kind = "Query" /\ body'[r].sql # "Fine")
               PROVE  \E e \in Requests : Refused(e)' /\ body'[e].t \in Refs(body'[r])
    BY DEF Due
  <2>1. CASE Replied(r, 500) /\ body'[r] = body[r]
    <3>1. PICK e \in Requests : Refused(e) /\ body[e].t \in Refs(body[r])
      BY <1>1, <2>1 DEF BlameInv, Due
    <3>2. CouldNot(e, body[e].t)
      BY <3>1 DEF Refused, CouldNot
    <3>3. CouldNot(e, body[e].t)' /\ Replied(e, 500)' /\ body'[e] = body[e]
      BY <3>1, <3>2, BlameStays DEF Refused
    <3> QED
      BY <2>1, <3>1, <3>3 DEF Refused, CouldNot
  <2>2. CASE Acts(r)
    <3>1. db' = NoRequest
      BY <2>2, AnswersLast
    <3>2. PICK t : t \in Refs(body'[r]) /\ t \in interrupted'
      BY <1>1 DEF ErrorsInv, Explained
    <3>3. PICK e \in Requests : CouldNot(e, t)'
      BY <1>2, <3>2 DEF Blamed
    <3>4. pc'[e] # "calling"
      BY <1>1, <3>1, ApiAssumption DEF ServiceInv, HandlerInv, Mutex
    <3> QED
      BY <3>2, <3>3, <3>4 DEF CouldNot, Refused
  <2>3. CASE Same(r)
    BY <2>1, <2>3 DEF Same, Replied
  <2>4. CASE Killed(r)
    BY <2>1, <2>4 DEF Killed, Replied
  <2> QED
    BY <2>2, <2>3, <2>4, StepOf
<1> QED
  BY <1>2, <1>3 DEF BlameInv

\* Nobody is to blame for nothing.
LEMMA BlameInit == Init => BlameInv
BY DEF Init, Store!Init, BlameInv, Blamed, Due, Replied

(***************************************************************************)
(* While nothing fails, a 500 is about the query's SQL, or follows the 500 *)
(* of a create or insert of one of its tables, its own or an earlier one,  *)
(* that asked for what cannot be done; it is never about what another      *)
(* request is in the middle of writing.                                    *)
(***************************************************************************)
THEOREM ErrorsAlwaysExplained == Spec => []ErrorsExplained
<1>1. Init => ServiceInv /\ ErrorsInv /\ BlameInv
  BY ServiceInit, ErrorsInit, BlameInit
<1>2. ServiceInv /\ ErrorsInv /\ BlameInv /\ [Next]_vars
         => ServiceInv' /\ ErrorsInv' /\ BlameInv'
  BY ServiceStep, ErrorsStep, BlameStep
<1>3. BlameInv => ErrorsExplained
  BY DEF BlameInv, ErrorsExplained, Due
<1> QED
  BY <1>1, <1>2, <1>3, PTL DEF Spec
---------------------------------------------------------------------------
(***************************************************************************)
(* What a client finds in an answer of what was acknowledged before it     *)
(* asked.  Nothing is read for an answer before its commitments are, and   *)
(* what is read is what was acknowledged by then.                          *)
(***************************************************************************)

\* What was acknowledged when the request was sent still is.
Precedes(r) == \A t \in Tables : IsPrefix(before[r][t], acked[t])

\* Commitments are the last thing read.
Unread(r) == pc[r] \notin {"encode", "done", "lost"} => DOMAIN answer[r].commits = {}

\* What is read of a table is between what was acknowledged when the request
\* was sent and what is.
UpToDate(r) ==
    pc[r] \in {"encode", "done"}
        => \A t \in DOMAIN answer[r].commits : /\ IsPrefix(before[r][t], answer[r].commits[t])
                                               /\ IsPrefix(answer[r].commits[t], acked[t])

\* What is not found had not been created when the request was sent.
Found(r) == Replied(r, 404) => \E t \in Refs(body[r]) : before[r][t] = <<>>

\* What had been is listed.
Listed(r) ==
    (pc[r] = "encode" \/ Replied(r, 200)) /\ body[r].kind = "List"
        => {t \in Tables : before[r][t] # <<>>} \subseteq answer[r].tables

\* All of it, of one request.
Fresh(r) == Precedes(r) /\ Unread(r) /\ UpToDate(r) /\ Found(r) /\ Listed(r)

\* And of all.
FreshInv == \A r \in Requests : Fresh(r)

\* A commitment that can be read is of what was acknowledged.
LEMMA ReadIsAcked ==
    ASSUME ServiceInv, NEW t \in Tables, Store!CommitmentError(disk[t]) = "Ok"
    PROVE  disk[t].commit = acked[t]
<1>1. disk[t].dir
  BY ReadErrors
<1>2. Store!Readable(disk[t])
  BY <1>1 DEF Store!CommitmentError, Store!Readable
<1> QED
  BY <1>2 DEF ServiceInv, Store!Inv, Store!CommitIsAcked

\* What was asked for before a table was there precedes nothing of it.
LEMMA NothingBefore ==
    ASSUME ServiceInv, NEW r \in Requests, Precedes(r), NEW t \in Tables, ~disk[t].dir
    PROVE  before[r][t] = <<>>
<1>1. acked[t] = <<>>
  BY DEF ServiceInv, Store!Inv, Store!NothingWithoutDir
<1>2. before[r][t] \in Seq(Batches)
  BY DEF ServiceInv, TypeOK
<1>3. IsPrefix(before[r][t], acked[t])
  BY DEF Precedes
<1> QED
  BY <1>1, <1>2, <1>3, PrefixOfEmpty

\* Nothing is read by a step that replies before anything was.
LEMMA FreshReply ==
    ASSUME ServiceInv, [Next]_vars, NEW r \in Requests, Fresh(r), NEW status,
           Keeps(r), Replies(r, status), pc[r] \notin {"encode", "done", "lost"},
           status = 404 => \E t \in Refs(body[r]) : before[r][t] = <<>>,
           status = 200 => body[r].kind # "List"
    PROVE  Fresh(r)'
<1>1. Precedes(r)'
  BY Grows DEF Fresh, Precedes, Keeps, ServiceInv, TypeOK
<1>2. DOMAIN answer'[r].commits = {}
  BY DEF Fresh, Unread, Replies
<1>3. pc'[r] = "done" /\ answer'[r].status = status
      /\ body'[r] = body[r] /\ before'[r] = before[r]
  BY DEF Replies, Keeps
<1>4. Unread(r)' /\ UpToDate(r)'
  BY <1>2, <1>3 DEF Unread, UpToDate
<1>5. Found(r)' /\ Listed(r)'
  BY <1>3 DEF Found, Listed, Replied
<1> QED
  BY <1>1, <1>4, <1>5 DEF Fresh

\* Nor by one that goes on to a place where nothing is read yet.
LEMMA FreshGo ==
    ASSUME ServiceInv, [Next]_vars, NEW r \in Requests, Fresh(r), Keeps(r),
           pc[r] \notin {"encode", "done", "lost"}, pc'[r] \notin {"encode", "done"},
           answer'[r].commits = answer[r].commits
    PROVE  Fresh(r)'
<1>1. Precedes(r)'
  BY Grows DEF Fresh, Precedes, Keeps, ServiceInv, TypeOK
<1>2. Unread(r)' /\ UpToDate(r)' /\ Found(r)' /\ Listed(r)'
  BY DEF Fresh, Unread, UpToDate, Found, Listed, Replied
<1> QED
  BY <1>1, <1>2 DEF Fresh

\* Every handler reads under the mutex what is then acknowledged.
LEMMA FreshOwn ==
    ASSUME ServiceInv, ErrorsInv, [Next]_vars, NEW r \in Requests, Acts(r), Fresh(r)
    PROVE  Fresh(r)'
<1>1. TypeOK /\ HandlerInv
  BY DEF ServiceInv
<1>2. pc[r] # "unsent" => body[r] \in Bodies
  BY <1>1 DEF HandlerInv, HandlerTypes
<1>3. CASE Send(r)
  <2>1. /\ pc[r] = "unsent" /\ pc'[r] = "sent" /\ before'[r] = acked
        /\ answer'[r] = answer[r] /\ UNCHANGED acked
    BY <1>1, <1>3, SendOwn DEF storeVars
  <2>2. \A t \in Tables : acked[t] \in Seq(Batches)
    BY <1>1 DEF TypeOK, Store!TypeOK
  <2>3. Precedes(r)'
    BY <2>1, <2>2, PrefixReflexive DEF Precedes
  <2> QED
    BY <2>1, <2>3 DEF Fresh, Unread, UpToDate, Found, Listed, Replied
<1>4. CASE Poll(r)
  <2>1. pc[r] = "sent" /\ Keeps(r)
    BY <1>1, <1>4, PollOwn
  <2>2. CASE body[r].kind = "Health" /\ Replies(r, 200)
    BY <2>1, <2>2, FreshReply
  <2>3. CASE body[r].kind = "Refused" /\ Replies(r, 400)
    BY <2>1, <2>3, FreshReply
  <2>4. CASE Replies(r, 500)
    BY <2>1, <2>4, FreshReply
  <2>5. CASE pc'[r] = "lock" /\ answer'[r] = answer[r]
    BY <2>1, <2>5, FreshGo
  <2> QED
    BY <1>1, <1>4, <2>2, <2>3, <2>4, <2>5, PollOwn
<1>5. CASE Acquire(r)
  BY <1>1, <1>5, AcquireOwn, FreshGo
<1>6. CASE Create(r)
  BY <1>1, <1>6, CreateOwn, FreshGo
<1>7. CASE InsertRows(r)
  <2>1. pc[r] = "locked" /\ Keeps(r) /\ body[r].kind = "Insert" /\ body[r].t \in Tables
    BY <1>1, <1>2, <1>7, InsertOwn, BodyFields
  <2>2. CASE DecodeError(body[r]) # "Ok"
    <3>1. Replies(r, Status("Insert", DecodeError(body[r])))
      BY <1>1, <1>7, <2>2, InsertOwn
    <3>2. ASSUME DecodeError(body[r]) = "NotFound"
          PROVE  \E t \in Refs(body[r]) : before[r][t] = <<>>
      <4>1. ~disk[body[r].t].dir
        BY <3>2, ReadErrors DEF DecodeError
      <4>2. before[r][body[r].t] = <<>>
        BY <2>1, <4>1, NothingBefore DEF Fresh
      <4> QED
        BY <2>1, <4>2 DEF Refs
    <3> QED
      BY <2>1, <2>2, <3>1, <3>2, StatusOf, FreshReply
  <2>3. CASE DecodeError(body[r]) = "Ok"
    BY <1>1, <1>7, <2>1, <2>3, InsertOwn, FreshGo
  <2> QED
    BY <2>2, <2>3
<1>8. CASE StoreStep(r)
  BY <1>1, <1>8, StoreStepOwn, FreshGo DEF apiVars, Keeps
<1>9. CASE Returned(r)
  <2>1. pc[r] = "calling" /\ ~Store!Running(r) /\ Keeps(r)
        /\ Replies(r, Status(body[r].kind, call[r].ret))
    BY <1>1, <1>9, ReturnedOwn
  <2>2. body[r].kind # "List" /\ call[r].ret # "NotFound"
    BY <1>1, <2>1 DEF HandlerInv, CallsOwn, ErrorsInv, Outcome, Failures
  <2> QED
    BY <2>1, <2>2, StatusOf, FreshReply
<1>10. CASE Prove(r)
  <2>1. pc[r] = "locked" /\ body[r].kind = "Query" /\ Keeps(r)
    BY <1>1, <1>10, ProveOwn
  <2>2. body[r].refs \subseteq Tables
    BY <1>2, <2>1, BodyFields
  <2>3. CASE \E e \in ProveErrors(body[r]) : Replies(r, Status("Query", e))
    <3>1. PICK e \in ProveErrors(body[r]) : Replies(r, Status("Query", e))
      BY <2>3
    <3>2. ASSUME e = "NotFound" PROVE \E t \in Refs(body[r]) : before[r][t] = <<>>
      <4>1. PICK t \in body[r].refs : Store!DataError(disk[t]) = "NotFound"
        BY <3>1, <3>2 DEF ProveErrors, UnreadData
      <4>2. before[r][t] = <<>>
        BY <2>2, <4>1, ReadErrors, NothingBefore DEF Fresh
      <4> QED
        BY <2>1, <4>2 DEF Refs
    <3> QED
      BY <2>1, <3>1, <3>2, StatusOf, FreshReply
  <2>4. CASE ~\E e \in ProveErrors(body[r]) : Replies(r, Status("Query", e))
    BY <1>1, <1>10, <2>1, <2>4, ProveOwn, FreshGo
  <2> QED
    BY <2>3, <2>4
<1>11. CASE Commitments(r)
  <2>1. /\ pc[r] \in {"locked", "proved"} /\ body[r].kind \in {"Query", "Show"}
        /\ Keeps(r) /\ UNCHANGED storeVars
    BY <1>1, <1>11, CommitmentsOwn DEF HandlerInv, CallsOwn
  <2>2. body[r].refs \subseteq Tables
    BY <1>2, <2>1, BodyFields
  <2>3. CASE \E e \in UnreadCommits(body[r].refs) : Replies(r, Status("Query", e))
    <3>1. PICK e \in UnreadCommits(body[r].refs) : Replies(r, Status("Query", e))
      BY <2>3
    <3>2. ASSUME e = "NotFound" PROVE \E t \in Refs(body[r]) : before[r][t] = <<>>
      <4>1. PICK t \in body[r].refs : Store!CommitmentError(disk[t]) = "NotFound"
        BY <3>1, <3>2 DEF UnreadCommits
      <4>2. before[r][t] = <<>>
        BY <2>2, <4>1, ReadErrors, NothingBefore DEF Fresh
      <4> QED
        BY <2>1, <4>2 DEF Refs
    <3> QED
      BY <2>1, <3>1, <3>2, StatusOf, FreshReply
  <2>4. CASE ~\E e \in UnreadCommits(body[r].refs) : Replies(r, Status("Query", e))
    <3> DEFINE refs == body[r].refs
    <3>1. /\ UnreadCommits(refs) = {} /\ pc'[r] = "encode"
          /\ answer'[r].commits = [t \in refs |-> disk[t].commit]
      BY <1>1, <1>11, <2>4, CommitmentsOwn
    <3>2. \A t \in refs : disk[t].commit = acked[t]
      BY <2>2, <3>1, AllCommits, ReadIsAcked
    <3>3. Precedes(r)'
      BY <2>1 DEF Fresh, Precedes, Keeps, storeVars
    <3>4. \A t \in refs : acked[t] \in Seq(Batches)
      BY <1>1, <2>2 DEF TypeOK, Store!TypeOK
    <3>5. UpToDate(r)'
      <4>1. \A t \in refs : IsPrefix(before'[r][t], acked'[t]) /\ IsPrefix(acked[t], acked'[t])
        BY <2>1, <2>2, <3>3, <3>4, PrefixReflexive DEF Precedes, storeVars
      <4>2. /\ DOMAIN answer'[r].commits = refs
            /\ \A t \in refs : answer'[r].commits[t] = acked[t]
        BY <3>1, <3>2
      <4> HIDE DEF refs
      <4>3. ASSUME NEW t \in DOMAIN answer'[r].commits
            PROVE  /\ IsPrefix(before'[r][t], answer'[r].commits[t])
                   /\ IsPrefix(answer'[r].commits[t], acked'[t])
        <5>1. t \in refs /\ answer'[r].commits[t] = acked[t]
          BY <4>2, <4>3
        <5>2. IsPrefix(before'[r][t], acked'[t])
          BY <4>1, <5>1
        <5>3. IsPrefix(acked[t], acked'[t])
          BY <4>1, <5>1
        <5>4. answer'[r].commits[t] = acked[t] /\ acked'[t] = acked[t]
          BY <2>1, <5>1 DEF storeVars
        <5> QED
          BY <5>2, <5>3, <5>4
      <4> QED
        BY <4>3 DEF UpToDate
    <3>6. Unread(r)' /\ Found(r)' /\ Listed(r)'
      BY <2>1, <3>1 DEF Unread, Found, Listed, Replied, Keeps
    <3> QED
      BY <3>3, <3>5, <3>6 DEF Fresh
  <2> QED
    BY <2>3, <2>4
<1>12. CASE List(r)
  <2>1. /\ pc[r] = "locked" /\ pc'[r] = "encode" /\ Keeps(r) /\ UNCHANGED storeVars
        /\ answer'[r].tables = {t \in Tables : disk[t].dir}
        /\ answer'[r].commits = answer[r].commits
    BY <1>1, <1>12, ListOwn
  <2>2. Precedes(r)'
    BY <2>1 DEF Fresh, Precedes, Keeps, storeVars
  <2>3. DOMAIN answer'[r].commits = {}
    BY <2>1 DEF Fresh, Unread
  <2>4. Unread(r)' /\ UpToDate(r)' /\ Found(r)'
    BY <2>1, <2>3 DEF Unread, UpToDate, Found, Replied
  <2>5. \A t \in Tables : before[r][t] # <<>> => disk[t].dir
    BY NothingBefore DEF Fresh
  <2>6. Listed(r)'
    BY <2>1, <2>5 DEF Listed, Keeps
  <2> QED
    BY <2>2, <2>4, <2>6 DEF Fresh
<1>13. CASE Encode(r)
  <2>1. pc[r] = "encode" /\ Keeps(r) /\ UNCHANGED storeVars
        /\ Replies(r, IF Coercible(body[r]) THEN 200 ELSE 500)
    BY <1>1, <1>13, EncodeOwn
  <2>2. pc'[r] = "done" /\ answer'[r].commits = answer[r].commits
        /\ answer'[r].tables = answer[r].tables /\ answer'[r].status \in {200, 500}
    BY <2>1 DEF Replies
  <2> QED
    BY <2>1, <2>2 DEF Fresh, Precedes, Unread, UpToDate, Found, Listed, Replied, Keeps,
                      storeVars
<1> QED
  BY <1>3, <1>4, <1>5, <1>6, <1>7, <1>8, <1>9, <1>10, <1>11, <1>12, <1>13 DEF Acts, Handle

\* The steps of others only acknowledge more.
LEMMA FreshStep ==
    ASSUME ServiceInv, ErrorsInv, FreshInv, [Next]_vars
    PROVE  FreshInv'
<1> SUFFICES ASSUME NEW r \in Requests PROVE Fresh(r)'
  BY DEF FreshInv
<1>1. Fresh(r)
  BY DEF FreshInv
<1>2. CASE Acts(r)
  BY <1>1, <1>2, FreshOwn
<1>3. CASE ~Acts(r)
  <2>1. /\ body'[r] = body[r] /\ answer'[r] = answer[r] /\ before'[r] = before[r]
        /\ pc'[r] = pc[r] \/ pc'[r] = "lost"
    BY <1>3, StepOf DEF Same, Killed
  <2>2. Precedes(r)'
    BY <1>1, <2>1, Grows DEF Fresh, Precedes, ServiceInv, TypeOK
  <2>3. UpToDate(r)'
    <3>1. PerTable(answer[r].commits)
      BY DEF ServiceInv, TypeOK, IsAnswer
    <3>2. ASSUME pc'[r] \in {"encode", "done"}, NEW t \in DOMAIN answer[r].commits
          PROVE  /\ IsPrefix(before[r][t], answer[r].commits[t])
                 /\ IsPrefix(answer[r].commits[t], acked'[t])
      <4>1. t \in Tables /\ answer[r].commits[t] \in Seq(Batches)
        BY <3>1, <3>2 DEF PerTable
      <4>2. /\ IsPrefix(before[r][t], answer[r].commits[t])
            /\ IsPrefix(answer[r].commits[t], acked[t])
        BY <1>1, <2>1, <3>2 DEF Fresh, UpToDate
      <4> QED
        BY <4>1, <4>2, Grows
    <3>3. answer'[r].commits = answer[r].commits /\ before'[r] = before[r]
      BY <2>1
    <3>4. SUFFICES ASSUME pc'[r] \in {"encode", "done"}, NEW t \in DOMAIN answer'[r].commits
                   PROVE  /\ IsPrefix(before'[r][t], answer'[r].commits[t])
                          /\ IsPrefix(answer'[r].commits[t], acked'[t])
      BY DEF UpToDate
    <3> QED
      BY <3>2, <3>3, <3>4
  <2> QED
    BY <1>1, <2>1, <2>2, <2>3 DEF Fresh, Unread, Found, Listed, Replied
<1> QED
  BY <1>2, <1>3

\* Nothing is acknowledged yet.
LEMMA FreshInit == Init => FreshInv
<1> SUFFICES ASSUME Init, NEW r \in Requests PROVE Fresh(r)
  BY DEF FreshInv
<1>1. pc[r] = "unsent" /\ DOMAIN answer[r].commits = {}
      /\ \A t \in Tables : before[r][t] = acked[t] /\ acked[t] = <<>>
  BY DEF Init, Store!Init, NoAnswer
<1>2. Precedes(r)
  <2>1. <<>> \in Seq(Batches)
    OBVIOUS
  <2> QED
    BY <1>1, <2>1, PrefixReflexive DEF Precedes
<1> QED
  BY <1>1, <1>2 DEF Fresh, Unread, UpToDate, Found, Listed, Replied

(***************************************************************************)
(* No answer is out of date: a commitment covers all that was acknowledged *)
(* before the request was sent and nothing that was not acknowledged, and  *)
(* a table created by then is found and listed.                            *)
(***************************************************************************)
THEOREM ReadsAreFresh == Spec => []FreshReads
<1>1. Init => ServiceInv /\ ErrorsInv /\ FreshInv
  BY ServiceInit, ErrorsInit, FreshInit
<1>2. ServiceInv /\ ErrorsInv /\ FreshInv /\ [Next]_vars
         => ServiceInv' /\ ErrorsInv' /\ FreshInv'
  BY ServiceStep, ErrorsStep, FreshStep
<1>3. FreshInv => FreshReads
  BY DEF FreshInv, Fresh, UpToDate, Found, Listed, FreshReads, Read
<1> QED
  BY <1>1, <1>2, <1>3, PTL DEF Spec
---------------------------------------------------------------------------
(***************************************************************************)
(* What a query read stays as it is on disk from the proof until the       *)
(* commitments are read, because the handler keeps the mutex.              *)
(***************************************************************************)

\* The data the proof is about is the data on disk.
Proved(r) ==
    pc[r] = "proved"
        => /\ DOMAIN answer[r].data = body[r].refs
           /\ \A t \in body[r].refs : /\ answer[r].data[t] = Store!DataOf(disk[t])
                                      /\ Store!DataError(disk[t]) = "Ok"

\* ProofVerifies, of one request.
Provable(r) ==
    /\ Read(r) /\ body[r].kind = "Query" /\ body[r].refs \cap interrupted = {}
    /\ \A t \in DOMAIN answer[r].data : Len(answer[r].data[t]) <= Padded
    => Verifies(r)

\* Together they are inductive.
ProofInv == \A r \in Requests : Proved(r) /\ Provable(r)


\* The commitments are read of the data that was proved, by DbProofs' CommitsMatch.
LEMMA ProofOwn ==
    ASSUME ServiceInv, FreshInv, [Next]_vars, NEW r \in Requests, Acts(r),
           Proved(r), Provable(r)
    PROVE  Proved(r)' /\ Provable(r)'
<1>1. TypeOK /\ HandlerInv /\ interrupted \subseteq interrupted'
  BY Grows DEF ServiceInv
<1>2. pc[r] # "unsent" => body[r] \in Bodies
  BY <1>1 DEF HandlerInv, HandlerTypes
<1>3. pc[r] \notin {"encode", "done", "lost"} => DOMAIN answer[r].commits = {}
  BY DEF FreshInv, Fresh, Unread
<1>4. CASE Send(r) \/ Acquire(r) \/ Create(r)
  <2>1. pc'[r] \in {"sent", "locked", "calling"}
    BY <1>1, <1>4, SendOwn, AcquireOwn, CreateOwn
  <2> QED
    BY <2>1 DEF Proved, Provable, Read
<1>5. CASE Poll(r)
  <2>1. pc[r] = "sent" /\ pc'[r] \in {"lock", "done"}
        /\ answer'[r].commits = answer[r].commits
    BY <1>1, <1>5, PollOwn DEF Replies
  <2> QED
    BY <1>3, <2>1 DEF Proved, Provable, Read
<1>6. CASE InsertRows(r)
  <2>1. pc[r] = "locked" /\ pc'[r] \in {"calling", "done"}
        /\ answer'[r].commits = answer[r].commits
    BY <1>1, <1>6, InsertOwn DEF Replies
  <2> QED
    BY <1>3, <2>1 DEF Proved, Provable, Read
<1>7. CASE StoreStep(r)
  <2>1. pc'[r] = "calling"
    BY <1>1, <1>7, StoreStepOwn DEF apiVars
  <2> QED
    BY <2>1 DEF Proved, Provable, Read
<1>8. CASE Returned(r)
  <2>1. pc[r] = "calling" /\ pc'[r] = "done" /\ answer'[r].commits = answer[r].commits
    BY <1>1, <1>8, ReturnedOwn DEF Replies
  <2> QED
    BY <1>3, <2>1 DEF Proved, Provable, Read
<1>9. CASE Prove(r)
  <2>1. pc[r] = "locked" /\ Keeps(r) /\ UNCHANGED storeVars /\ body[r].kind = "Query"
    BY <1>1, <1>9, ProveOwn
  <2>2. CASE \E e \in ProveErrors(body[r]) : Replies(r, Status("Query", e))
    <3>1. pc'[r] = "done" /\ answer'[r].commits = answer[r].commits
      BY <2>2 DEF Replies
    <3> QED
      BY <1>3, <2>1, <3>1 DEF Proved, Provable, Read
  <2>3. CASE ~\E e \in ProveErrors(body[r]) : Replies(r, Status("Query", e))
    <3> DEFINE refs == body[r].refs
    <3>1. /\ ProveErrors(body[r]) = {} /\ pc'[r] = "proved"
          /\ answer'[r].data = [t \in refs |-> Store!DataOf(disk[t])]
      BY <1>1, <1>9, <2>3, ProveOwn
    <3>2. \A t \in refs : Store!DataError(disk[t]) = "Ok"
      BY <3>1, AllRead
    <3>3. \A t \in refs : /\ Store!DataOf(disk[t])' = Store!DataOf(disk[t])
                          /\ Store!DataError(disk[t])' = Store!DataError(disk[t])
      BY <2>1 DEF storeVars, Store!DataOf, Store!DataError, Store!SchemaError
    <3>4. DOMAIN answer'[r].data = refs
          /\ \A t \in refs : answer'[r].data[t] = Store!DataOf(disk[t])
      BY <3>1
    <3>5. body'[r].refs = refs
      BY <2>1 DEF Keeps
    <3> QED
      BY <3>1, <3>2, <3>3, <3>4, <3>5 DEF Proved, Provable, Read
  <2> QED
    BY <2>2, <2>3
<1>10. CASE Commitments(r)
  <2>1. /\ pc[r] \in {"locked", "proved"} /\ Keeps(r) /\ UNCHANGED storeVars
        /\ pc[r] = "locked" => body[r].kind = "Show"
    BY <1>1, <1>10, CommitmentsOwn
  <2>2. CASE \E e \in UnreadCommits(body[r].refs) : Replies(r, Status("Query", e))
    <3>1. pc'[r] = "done" /\ answer'[r].commits = answer[r].commits
      BY <2>2 DEF Replies
    <3> QED
      BY <1>3, <2>1, <3>1 DEF Proved, Provable, Read
  <2>3. CASE ~\E e \in UnreadCommits(body[r].refs) : Replies(r, Status("Query", e))
    <3> DEFINE refs == body[r].refs
    <3>1. /\ pc'[r] = "encode" /\ answer'[r].data = answer[r].data
          /\ answer'[r].commits = [t \in refs |-> disk[t].commit]
      BY <1>1, <1>10, <2>3, CommitmentsOwn
    <3>2. ASSUME body[r].kind = "Query", refs \cap interrupted = {},
                 \A t \in DOMAIN answer[r].data : Len(answer[r].data[t]) <= Padded,
                 NEW t \in DOMAIN answer[r].data
          PROVE  answer[r].data[t] = disk[t].commit /\ t \in refs
      <4>1. pc[r] = "proved"
        BY <2>1, <3>2
      <4>2. /\ t \in refs /\ refs \subseteq Tables
            /\ answer[r].data[t] = Store!DataOf(disk[t]) /\ Store!DataError(disk[t]) = "Ok"
        BY <1>2, <3>2, <4>1, BodyFields DEF Proved
      <4>3. Store!TypeOK /\ Store!Inv /\ Store!Quiet
        BY <1>1, <2>1, QuietUnless DEF ServiceInv, TypeOK
      <4>4. t \in Tables /\ disk[t].dir /\ t \notin interrupted
        BY <3>2, <4>2, ReadErrors
      <4>5. Store!Settled(t)
        BY <4>3 DEF Store!Quiet, Store!Settled
      <4>6. Len(disk[t].files) = Len(answer[r].data[t])
        BY <4>2, <4>3, <4>4, Store!DataIsBatches, StoreAssumption
      <4>7. Store!CommitMatchesData
        BY <4>3, Store!CommitsMatch, StoreAssumption
      <4>8. disk[t].commit = Store!DataOf(disk[t])
        BY <3>2, <4>4, <4>5, <4>6, <4>7 DEF Store!CommitMatchesData
      <4> QED
        BY <4>2, <4>8
    <3>3. Proved(r)'
      BY <3>1 DEF Proved
    <3>4. ASSUME body'[r].kind = "Query", body'[r].refs \cap interrupted' = {},
                 \A t \in DOMAIN answer'[r].data : Len(answer'[r].data[t]) <= Padded,
                 NEW t \in DOMAIN answer'[r].data
          PROVE  answer'[r].data[t] = answer'[r].commits[t]
      <4>1. /\ body[r].kind = "Query" /\ refs \cap interrupted = {}
            /\ \A u \in DOMAIN answer[r].data : Len(answer[r].data[u]) <= Padded
            /\ t \in DOMAIN answer[r].data
        BY <1>1, <2>1, <3>1, <3>4 DEF Keeps
      <4>2. answer[r].data[t] = disk[t].commit /\ t \in refs
        BY <3>2, <4>1
      <4> QED
        BY <3>1, <4>2
    <3>5. Provable(r)'
      BY <3>4 DEF Provable, Verifies
    <3> QED
      BY <3>3, <3>5
  <2> QED
    BY <2>2, <2>3
<1>11. CASE List(r)
  <2>1. pc[r] = "locked" /\ pc'[r] = "encode" /\ answer'[r].commits = answer[r].commits
    BY <1>1, <1>11, ListOwn
  <2> QED
    BY <1>3, <2>1 DEF Proved, Provable, Read
<1>12. CASE Encode(r)
  <2>1. /\ pc[r] = "encode" /\ pc'[r] = "done" /\ Keeps(r) /\ UNCHANGED interrupted
        /\ answer'[r].commits = answer[r].commits /\ answer'[r].data = answer[r].data
    BY <1>1, <1>12, EncodeOwn DEF Replies, storeVars
  <2>2. Proved(r)'
    BY <2>1 DEF Proved
  <2>3. Provable(r)'
    BY <2>1 DEF Provable, Read, Verifies, Keeps
  <2> QED
    BY <2>2, <2>3
<1> QED
  BY <1>4, <1>5, <1>6, <1>7, <1>8, <1>9, <1>10, <1>11, <1>12 DEF Acts, Handle

\* While a request has the mutex for its query, nobody else changes the disk.
LEMMA DiskStays ==
    ASSUME ServiceInv, [Next]_vars, NEW r \in Requests, pc[r] = "proved", Same(r)
    PROVE  UNCHANGED disk
<1>1. TypeOK /\ HandlerInv
  BY DEF ServiceInv
<1>2. ASSUME NEW e \in Requests, Acts(e), e # r PROVE UNCHANGED disk
  <2>1. pc[e] # "calling"
    BY <1>1, <1>2 DEF HandlerInv, Mutex
  <2>2. ~StoreStep(e)
    BY <2>1 DEF StoreStep
  <2> QED
    BY <1>1, <1>2, <2>2, SendOwn, PollOwn, AcquireOwn, CreateOwn, InsertOwn, ReturnedOwn,
       ProveOwn, CommitmentsOwn, ListOwn, EncodeOwn DEF Acts, Handle, storeVars
<1>3. ASSUME Acts(r) PROVE UNCHANGED disk
  <2>1. ~StoreStep(r)
    BY DEF StoreStep
  <2> QED
    BY <1>1, <1>3, <2>1, SendOwn, PollOwn, AcquireOwn, CreateOwn, InsertOwn, ReturnedOwn,
       ProveOwn, CommitmentsOwn, ListOwn, EncodeOwn DEF Acts, Handle, storeVars
<1>4. CASE Restart
  BY <1>4 DEF Restart, Store!Restart
<1>5. CASE UNCHANGED vars
  BY <1>5 DEF vars
<1> QED
  BY <1>2, <1>3, <1>4, <1>5 DEF Next, Acts

\* Nobody else comes between the two reads.
LEMMA ProofStep ==
    ASSUME ServiceInv, FreshInv, ProofInv, [Next]_vars
    PROVE  ProofInv'
<1> SUFFICES ASSUME NEW r \in Requests PROVE Proved(r)' /\ Provable(r)'
  BY DEF ProofInv
<1>1. Proved(r) /\ Provable(r) /\ interrupted \subseteq interrupted'
  BY Grows DEF ProofInv
<1>2. CASE Acts(r)
  BY <1>1, <1>2, ProofOwn
<1>3. CASE Same(r)
  <2>1. Provable(r)'
    BY <1>1, <1>3 DEF Same, Provable, Read, Verifies
  <2>2. Proved(r)'
    <3>1. CASE pc[r] # "proved"
      BY <1>3, <3>1 DEF Same, Proved
    <3>2. CASE pc[r] = "proved"
      <4>1. disk' = disk
        BY <1>3, <3>2, DiskStays
      <4>2. \A t \in body[r].refs : /\ Store!DataOf(disk[t])' = Store!DataOf(disk[t])
                                    /\ Store!DataError(disk[t])' = Store!DataError(disk[t])
        BY <4>1 DEF Store!DataOf, Store!DataError, Store!SchemaError
      <4> QED
        BY <1>1, <1>3, <3>2, <4>2 DEF Same, Proved
    <3> QED
      BY <3>1, <3>2
  <2> QED
    BY <2>1, <2>2
<1>4. CASE Killed(r)
  <2>1. Proved(r)'
    BY <1>4 DEF Killed, Proved
  <2>2. Provable(r)'
    BY <1>1, <1>4 DEF Killed, Provable, Read, Verifies
  <2> QED
    BY <2>1, <2>2
<1> QED
  BY <1>2, <1>3, <1>4, StepOf

\* Nothing is proved yet.
LEMMA ProofInit == Init => ProofInv
BY DEF Init, ProofInv, Proved, Provable, Read

(***************************************************************************)
(* A query's proof verifies against the commitments sent with it, unless a *)
(* call gave up half way on one of its tables or one has more files than   *)
(* their names can order.                                                  *)
(***************************************************************************)
THEOREM ProofsVerify == Spec => []ProofVerifies
<1>1. Init => ServiceInv /\ ErrorsInv /\ FreshInv /\ ProofInv
  BY ServiceInit, ErrorsInit, FreshInit, ProofInit
<1>2. ServiceInv /\ ErrorsInv /\ FreshInv /\ ProofInv /\ [Next]_vars
         => ServiceInv' /\ ErrorsInv' /\ FreshInv' /\ ProofInv'
  BY ServiceStep, ErrorsStep, FreshStep, ProofStep
<1>3. ProofInv => ProofVerifies
  BY DEF ProofInv, Provable, ProofVerifies
<1> QED
  BY <1>1, <1>2, <1>3, PTL DEF Spec
---------------------------------------------------------------------------
(***************************************************************************)
(* Of the calls that create a table, one gets past making its directory.   *)
(***************************************************************************)

\* The request has made the directory of table t, or was told it did.
Wins(r, t) ==
    /\ body[r].kind = "Create" /\ body[r].t = t
    /\ \/ Replied(r, 201)
       \/ pc[r] = "calling" /\ ~Store!Running(r) /\ call[r].ret = "Ok"
       \/ Store!Running(r) /\ call[r].pc # "mkdir"

\* One request has, and the directory is there.
OneWinner ==
    \A t \in Tables, r \in Requests :
        Wins(r, t) => /\ disk[t].dir
                      /\ \A e \in Requests : Wins(e, t) => e = r

\* A request begins to win by making the directory.
LEMMA WinsOwn ==
    ASSUME ServiceInv, [Next]_vars, NEW r \in Requests, Acts(r), NEW t \in Tables,
           Wins(r, t)'
    PROVE  Wins(r, t) \/ (~disk[t].dir /\ disk'[t].dir)
<1>1. TypeOK /\ HandlerInv
  BY DEF ServiceInv
<1>2. Store!Running(r) => /\ pc[r] = "calling" /\ call[r].t = body[r].t
  BY <1>1 DEF HandlerInv, CallsOwn
<1>3. CASE Send(r)
  BY <1>1, <1>2, <1>3, SendOwn DEF Wins, Replied, storeVars, Store!Running
<1>4. CASE Poll(r)
  BY <1>1, <1>2, <1>4, PollOwn DEF Wins, Replied, Replies, Keeps, storeVars, Store!Running
<1>5. CASE Acquire(r)
  BY <1>1, <1>2, <1>5, AcquireOwn DEF Wins, Replied, storeVars, Store!Running
<1>6. CASE Create(r)
  <2>1. pc'[r] = "calling"
        /\ (call'[r] = Store!Returned("AlreadyExists") \/ Begins(r, "mkdir", <<>>))
    BY <1>1, <1>6, CreateOwn
  <2> QED
    BY <2>1 DEF Wins, Replied, Begins, Store!Returned, Store!Running
<1>7. CASE InsertRows(r)
  <2>1. body'[r].kind = "Insert"
    BY <1>1, <1>7, InsertOwn DEF Keeps
  <2> QED
    BY <2>1 DEF Wins
<1>8. CASE StoreStep(r)
  <2>1. pc[r] = "calling" /\ UNCHANGED apiVars /\ Store!Running(r)
    BY <1>1, <1>8, StoreStepOwn
  <2>2. body[r].kind = "Create" /\ body[r].t = t /\ call[r].t = t
    BY <1>2, <2>1 DEF Wins, apiVars
  <2>3. CASE call[r].pc # "mkdir"
    BY <2>1, <2>2, <2>3 DEF Wins
  <2>4. CASE call[r].pc = "mkdir"
    <3>1. ~disk[t].dir
      BY <2>1, <2>2, <2>4 DEF ServiceInv, Store!Inv, Store!InProgress, Store!StillTrue
    <3>2. Store!Running(r)' \/ call'[r].ret = "Ok"
      BY <2>1 DEF Wins, Replied, apiVars
    <3>3. Store!MakeDir(r)
      <4>1. \/ Store!MakeDir(r) \/ Store!OpenBatch(r) \/ Store!WriteBatch(r)
            \/ Store!ExtendCommitment(r) \/ Store!StoreCommitment(r)
        BY <1>1, <1>8, <3>2, StoreStepOwn DEF Store!Running, Store!Returned
      <4> QED
        BY <2>4, <4>1 DEF Store!OpenBatch, Store!WriteBatch, Store!ExtendCommitment,
                          Store!StoreCommitment
    <3>4. disk'[t].dir
      BY <1>1, <2>2, <3>3 DEF Store!MakeDir, TypeOK, Store!TypeOK, Store!TableDir
    <3> QED
      BY <3>1, <3>4
  <2> QED
    BY <2>3, <2>4
<1>9. CASE Returned(r)
  <2>1. pc[r] = "calling" /\ ~Store!Running(r) /\ Keeps(r) /\ UNCHANGED storeVars
        /\ Replies(r, Status(body[r].kind, call[r].ret))
    BY <1>1, <1>9, ReturnedOwn
  <2>2. Replied(r, 201)'
    BY <2>1 DEF Wins, Replies, Store!Running, storeVars
  <2>3. Status(body[r].kind, call[r].ret) = 201
    BY <2>1, <2>2 DEF Replied, Replies
  <2>4. call[r].ret = "Ok"
    BY <2>3, StatusOf
  <2> QED
    BY <2>1, <2>4 DEF Wins, Keeps
<1>10. CASE Prove(r) \/ Commitments(r) \/ List(r)
  <2>1. body'[r].kind # "Create"
    BY <1>1, <1>10, ProveOwn, CommitmentsOwn, ListOwn DEF HandlerInv, CallsOwn, Keeps
  <2> QED
    BY <2>1 DEF Wins
<1>11. CASE Encode(r)
  <2>1. pc'[r] = "done" /\ answer'[r].status # 201 /\ pc[r] = "encode" /\ UNCHANGED call
    BY <1>1, <1>11, EncodeOwn DEF Replies, storeVars
  <2> QED
    BY <1>2, <2>1 DEF Wins, Replied, Store!Running
<1> QED
  BY <1>3, <1>4, <1>5, <1>6, <1>7, <1>8, <1>9, <1>10, <1>11 DEF Acts, Handle

\* Two cannot: the second finds the directory there, as it never goes away.
LEMMA WinnerStep ==
    ASSUME ServiceInv, OneWinner, [Next]_vars
    PROVE  OneWinner'
<1>1. ASSUME NEW t \in Tables, NEW r \in Requests, Wins(r, t)'
      PROVE  Wins(r, t) \/ (Acts(r) /\ ~disk[t].dir /\ disk'[t].dir)
  <2>1. CASE Acts(r)
    BY <1>1, <2>1, WinsOwn
  <2>2. CASE Same(r)
    BY <1>1, <2>2 DEF Same, Wins, Replied, Store!Running
  <2>3. CASE Killed(r)
    BY <1>1, <2>3 DEF Killed, Wins, Replied
  <2> QED
    BY <2>1, <2>2, <2>3, StepOf
<1>2. \A t \in Tables : disk[t].dir => disk'[t].dir
  BY Grows
<1>3. ASSUME NEW t \in Tables, NEW r \in Requests, NEW e \in Requests,
             Wins(r, t)', Wins(e, t)', r # e
      PROVE  FALSE
  <2>1. CASE disk[t].dir
    BY <1>1, <1>3, <2>1 DEF OneWinner
  <2>2. CASE ~disk[t].dir
    <3>1. Acts(r) /\ Acts(e) /\ disk'[t].dir /\ ~Wins(r, t)
      BY <1>1, <1>3, <2>2 DEF OneWinner
    <3>2. Same(e)
      BY <1>3, <3>1, OthersSame DEF ServiceInv
    <3>3. Wins(e, t)
      BY <1>3, <3>2 DEF Same, Wins, Replied, Store!Running
    <3> QED
      BY <2>2, <3>3 DEF OneWinner
  <2> QED
    BY <2>1, <2>2
<1>4. ASSUME NEW t \in Tables, NEW r \in Requests, Wins(r, t)'
      PROVE  disk'[t].dir
  BY <1>1, <1>2, <1>4 DEF OneWinner
<1> QED
  BY <1>3, <1>4 DEF OneWinner

\* Nobody has yet.
LEMMA WinnerInit == Init => OneWinner
BY DEF Init, OneWinner, Wins, Replied, Store!Init, Store!Running, Store!Returned

(***************************************************************************)
(* However many requests create one table at once, one is told it did.     *)
(***************************************************************************)
THEOREM CreatedByOne == Spec => []CreatedOnce
<1>1. Init => ServiceInv /\ OneWinner
  BY ServiceInit, WinnerInit
<1>2. ServiceInv /\ OneWinner /\ [Next]_vars => ServiceInv' /\ OneWinner'
  BY ServiceStep, WinnerStep
<1>3. OneWinner => CreatedOnce
  <2> SUFFICES ASSUME OneWinner, NEW t \in Tables
               PROVE  Cardinality({r \in Requests :
                                      /\ Replied(r, 201)
                                      /\ body[r].kind = "Create" /\ body[r].t = t}) <= 1
    BY DEF CreatedOnce
  <2> DEFINE S == {r \in Requests : /\ Replied(r, 201)
                                    /\ body[r].kind = "Create" /\ body[r].t = t}
  <2>1. \A r, e \in S : r = e
    BY DEF OneWinner, Wins
  <2> HIDE DEF S
  <2>2. Cardinality(S) <= 1
    <3>1. CASE S = {}
      BY <3>1, FS_EmptySet
    <3>2. CASE S # {}
      <4>1. PICK r \in S : S = {r}
        BY <2>1, <3>2
      <4>2. Cardinality({r}) = 1
        BY FS_Singleton
      <4> QED
        BY <4>1, <4>2
    <3> QED
      BY <3>1, <3>2
  <2> QED
    BY <2>2 DEF S
<1> QED
  BY <1>1, <1>2, <1>3, PTL DEF Spec
---------------------------------------------------------------------------
(***************************************************************************)
(* Counting what was inserted.  A request is credited with its batch once  *)
(* the batch is acknowledged, and wrote it from the moment its file is     *)
(* whole; both last.                                                       *)
(***************************************************************************)

\* The request asks for these rows to be inserted into this table.
Asked(r, t, rows) == /\ pc[r] # "unsent" /\ body[r].kind = "Insert"
                     /\ body[r].t = t /\ body[r].rows = rows

\* The requests whose rows were acknowledged, whether they know it yet or not.
Credited(t, rows) ==
    {r \in Requests :
        /\ Asked(r, t, rows)
        /\ \/ Replied(r, 201)
           \/ pc[r] = "calling" /\ ~Store!Running(r) /\ call[r].ret = "Ok"}

\* The requests that may have left a whole file of the rows.
Wrote(t, rows) ==
    {r \in Requests :
        /\ Asked(r, t, rows)
        /\ \/ Replied(r, 201) \/ Replied(r, 500) \/ pc[r] = "lost"
           \/ /\ pc[r] = "calling"
              /\ Store!Running(r) => call[r].pc \in {"extend", "store"}}

\* Where the rows are among the acknowledged batches, and among the files.
InAcked(t, rows) == {k \in DOMAIN acked[t] : acked[t][k] = rows}
InFiles(t, rows) == {k \in DOMAIN disk[t].files :
                        disk[t].files[k] # Torn /\ disk[t].files[k].batch = rows}

\* Neither has more members than there are requests to answer for them.
CountInv ==
    \A t \in Tables, rows \in Batches \ {<<>>} :
        /\ Cardinality(Credited(t, rows)) <= Cardinality(InAcked(t, rows))
        /\ Cardinality(InFiles(t, rows)) <= Cardinality(Wrote(t, rows))

---------------------------------------------------------------------------
\* Counting sets that grow by a member.
LEMMA NoFewer ==
    ASSUME NEW S, NEW T, IsFiniteSet(T), S \subseteq T
    PROVE  /\ IsFiniteSet(S) /\ Cardinality(S) \in Nat /\ Cardinality(T) \in Nat
           /\ Cardinality(S) <= Cardinality(T)
BY FS_Subset, FS_CardinalityType

\* A set with a new member has one more.
LEMMA OneMore ==
    ASSUME NEW S, NEW T, NEW x, IsFiniteSet(T), S \cup {x} \subseteq T, x \notin S
    PROVE  /\ IsFiniteSet(S) /\ Cardinality(S) \in Nat /\ Cardinality(T) \in Nat
           /\ Cardinality(S) + 1 <= Cardinality(T)
<1> DEFINE U == S \cup {x}
<1>1. IsFiniteSet(U) /\ Cardinality(U) <= Cardinality(T)
      /\ Cardinality(U) \in Nat /\ Cardinality(T) \in Nat
  BY NoFewer
<1>2. IsFiniteSet(S) /\ Cardinality(S) \in Nat
  BY <1>1, FS_Subset, FS_CardinalityType
<1>3. Cardinality(U) = Cardinality(S) + 1
  BY <1>2, FS_AddElement
<1> QED
  BY <1>1, <1>2, <1>3

\* A set with one other member has at most one more.
LEMMA AtMostOneMore ==
    ASSUME NEW S, NEW T, NEW x, IsFiniteSet(S), T \subseteq S \cup {x}
    PROVE  /\ IsFiniteSet(T) /\ Cardinality(S) \in Nat /\ Cardinality(T) \in Nat
           /\ Cardinality(T) <= Cardinality(S) + 1
<1> DEFINE U == S \cup {x}
<1>1. /\ IsFiniteSet(U) /\ Cardinality(S) \in Nat
      /\ Cardinality(U) = IF x \in S THEN Cardinality(S) ELSE Cardinality(S) + 1
  BY FS_AddElement, FS_CardinalityType
<1>2. IsFiniteSet(T) /\ Cardinality(T) \in Nat /\ Cardinality(U) \in Nat
      /\ Cardinality(T) <= Cardinality(U)
  BY <1>1, NoFewer
<1> QED
  BY <1>1, <1>2

\* What is counted is finite.
LEMMA CountsFinite ==
    ASSUME ServiceInv, NEW t \in Tables, NEW rows
    PROVE  /\ IsFiniteSet(Credited(t, rows)) /\ IsFiniteSet(Wrote(t, rows))
           /\ IsFiniteSet(InAcked(t, rows)) /\ IsFiniteSet(InFiles(t, rows))
<1>1. IsFiniteSet(Credited(t, rows)) /\ IsFiniteSet(Wrote(t, rows))
  BY ApiAssumption, FS_Subset DEF Credited, Wrote
<1>2. Store!TypeOK
  BY DEF ServiceInv, TypeOK
<1>3. /\ Len(acked[t]) \in Nat /\ DOMAIN acked[t] = 1 .. Len(acked[t])
      /\ Len(disk[t].files) \in Nat /\ DOMAIN disk[t].files = 1 .. Len(disk[t].files)
  BY <1>2, Store!DirFields, StoreAssumption DEF Store!TypeOK
<1>4. \A n \in Nat : IsFiniteSet(1 .. n)
  BY FS_Interval
<1> QED
  BY <1>1, <1>3, <1>4, FS_Subset DEF InAcked, InFiles

---------------------------------------------------------------------------
\* What a request wrote, it has written for good.
LEMMA WroteStays ==
    ASSUME ServiceInv, ErrorsInv, [Next]_vars, NEW t \in Tables, NEW rows,
           NEW r \in Wrote(t, rows)
    PROVE  r \in Wrote(t, rows)'
<1>1. TypeOK /\ HandlerInv /\ r \in Requests
  BY DEF ServiceInv, Wrote
<1>2. CASE Same(r)
  BY <1>2 DEF Same, Wrote, Asked, Replied, Store!Running
<1>3. CASE Killed(r)
  BY <1>3 DEF Killed, Wrote, Asked, Replied
<1>4. CASE StoreStep(r)
  <2>1. pc[r] = "calling" /\ UNCHANGED apiVars /\ Store!Running(r)
    BY <1>1, <1>4, StoreStepOwn
  <2>2. call[r].pc \in {"extend", "store"}
    BY <2>1 DEF Wrote, Replied
  <2>3. call'[r].pc \in {"store", "idle"}
    BY <1>1, <1>4, <2>2, StoreStepOwn DEF Store!Returned
  <2> QED
    BY <2>1, <2>3 DEF Wrote, Asked, Replied, apiVars, Store!Running
<1>5. CASE Returned(r)
  <2>1. /\ pc[r] = "calling" /\ ~Store!Running(r) /\ Keeps(r) /\ UNCHANGED storeVars
        /\ Replies(r, Status(body[r].kind, call[r].ret)) /\ body[r].kind = "Insert"
    BY <1>1, <1>5, ReturnedOwn DEF Wrote, Asked
  <2>2. call[r].ret \in {"Ok"} \cup Failures
    BY <1>1, <2>1 DEF ErrorsInv, Outcome
  <2>3. Status("Insert", call[r].ret) \in {201, 500}
    BY <2>2 DEF Status, Failures
  <2> QED
    BY <2>1, <2>3 DEF Wrote, Asked, Replied, Replies, Keeps
<1>6. ASSUME Acts(r), ~StoreStep(r), ~Returned(r) PROVE FALSE
  <2>1. pc[r] \in {"calling", "done", "lost"}
    BY DEF Wrote, Replied
  <2>2. pc[r] \in {"unsent", "sent", "lock", "locked", "proved", "encode"}
    BY <1>6 DEF Acts, Handle, Send, Poll, Acquire, Create, InsertRows, Prove, Commitments,
                List, Encode
  <2> QED
    BY <2>1, <2>2
<1> QED
  BY <1>1, <1>2, <1>3, <1>4, <1>5, <1>6, StepOf

\* A request is credited anew by the step that acknowledges its batch.
LEMMA CreditOwn ==
    ASSUME ServiceInv, [Next]_vars, NEW r \in Requests, Acts(r), NEW t \in Tables,
           NEW rows \in Batches \ {<<>>}, r \in Credited(t, rows)', r \notin Credited(t, rows)
    PROVE  Store!StoreCommitment(r) /\ call[r].t = t /\ call[r].file.batch = rows
<1>1. TypeOK /\ HandlerInv
  BY DEF ServiceInv
<1>2. /\ body'[r].kind = "Insert" /\ body'[r].t = t /\ body'[r].rows = rows
      /\ Replied(r, 201)' \/ (pc'[r] = "calling" /\ call'[r].pc = "idle" /\ call'[r].ret = "Ok")
  BY DEF Credited, Asked, Store!Running
<1>3. CASE StoreStep(r)
  <2>1. pc[r] = "calling" /\ UNCHANGED apiVars /\ Store!Running(r)
    BY <1>1, <1>3, StoreStepOwn
  <2>2. /\ body[r].kind = "Insert" /\ body[r].t = t /\ body[r].rows = rows
        /\ call'[r].pc = "idle" /\ call'[r].ret = "Ok"
    BY <1>2, <2>1 DEF apiVars, Replied
  <2>3. call[r].t = t /\ call[r].file.batch = rows
    BY <1>1, <2>1, <2>2 DEF HandlerInv, CallsOwn
  <2>4. Store!StoreCommitment(r)
    BY <1>1, <1>3, <2>2, StoreStepOwn DEF Store!Returned
  <2> QED
    BY <2>3, <2>4
<1>4. CASE Returned(r)
  <2>1. pc[r] = "calling" /\ ~Store!Running(r) /\ Keeps(r)
        /\ Replies(r, Status(body[r].kind, call[r].ret))
    BY <1>1, <1>4, ReturnedOwn
  <2>2. Status(body[r].kind, call[r].ret) = 201
    BY <1>2, <2>1 DEF Replies, Replied
  <2>3. call[r].ret = "Ok"
    BY <2>2, StatusOf
  <2> QED
    BY <1>2, <2>1, <2>3 DEF Credited, Asked, Keeps
<1>5. CASE InsertRows(r)
  <2>1. pc[r] = "locked" /\ body[r].kind = "Insert"
    BY <1>1, <1>5, InsertOwn
  <2>2. CASE DecodeError(body[r]) # "Ok"
    <3>1. Replies(r, Status("Insert", DecodeError(body[r])))
      BY <1>1, <1>5, <2>2, InsertOwn
    <3>2. Status("Insert", DecodeError(body[r])) = 201
      BY <1>2, <3>1 DEF Replies, Replied
    <3> QED
      BY <2>2, <3>2, StatusOf
  <2>3. CASE DecodeError(body[r]) = "Ok"
    <3>1. pc'[r] = "calling" /\ Inserts(r)
      BY <1>1, <1>5, <2>3, InsertOwn
    <3>2. call'[r].pc = "open" \/ call'[r].ret # "Ok"
      BY <3>1 DEF Inserts, Begins, Store!Returned
    <3> QED
      BY <1>2, <3>1, <3>2 DEF Replied
  <2> QED
    BY <2>2, <2>3
<1>6. CASE Send(r) \/ Acquire(r)
  <2>1. pc'[r] \in {"sent", "locked"}
    BY <1>1, <1>6, SendOwn, AcquireOwn
  <2> QED
    BY <1>2, <2>1 DEF Replied
<1>7. CASE Poll(r)
  <2>1. pc'[r] = "lock" \/ Replies(r, 200) \/ Replies(r, 400) \/ Replies(r, 500)
    BY <1>1, <1>7, PollOwn
  <2> QED
    BY <1>2, <2>1 DEF Replies, Replied
<1>8. CASE Create(r) \/ Prove(r) \/ Commitments(r) \/ List(r)
  <2>1. body'[r].kind # "Insert"
    BY <1>1, <1>8, CreateOwn, ProveOwn, CommitmentsOwn, ListOwn
    DEF HandlerInv, CallsOwn, Keeps
  <2> QED
    BY <1>2, <2>1
<1>9. CASE Encode(r)
  <2>1. pc'[r] = "done" /\ answer'[r].status # 201
    BY <1>1, <1>9, EncodeOwn DEF Replies
  <2> QED
    BY <1>2, <2>1 DEF Replied
<1> QED
  BY <1>3, <1>4, <1>5, <1>6, <1>7, <1>8, <1>9 DEF Acts, Handle

\* A batch is credited to one more request only when it is acknowledged once
\* more.
LEMMA CreditStep ==
    ASSUME ServiceInv, CountInv, [Next]_vars, NEW t \in Tables,
           NEW rows \in Batches \ {<<>>}
    PROVE  Cardinality(Credited(t, rows)') <= Cardinality(InAcked(t, rows)')
<1> DEFINE C == Credited(t, rows)
           D == Credited(t, rows)'
           A == InAcked(t, rows)
           B == InAcked(t, rows)'
<1>1. TypeOK /\ Store!TypeOK /\ Store!Inv
  BY DEF ServiceInv, TypeOK
<1>2. IsFiniteSet(C) /\ IsFiniteSet(A) /\ Cardinality(C) <= Cardinality(A)
  BY CountsFinite DEF CountInv
<1>3. IsFiniteSet(D) /\ IsFiniteSet(B)
  <2>1. ServiceInv'
    BY ServiceStep
  <2>2. IsFiniteSet(Requests) /\ D \subseteq Requests
    BY ApiAssumption DEF Credited
  <2>3. acked'[t] \in Seq(Batches)
    BY <2>1 DEF ServiceInv, TypeOK, Store!TypeOK
  <2>4. Len(acked'[t]) \in Nat /\ B \subseteq 1 .. Len(acked'[t])
    BY <2>3 DEF InAcked
  <2>5. IsFiniteSet(1 .. Len(acked'[t]))
    BY <2>4, FS_Interval
  <2> QED
    BY <2>2, <2>4, <2>5, FS_Subset
<1>4. acked[t] \in Seq(Batches)
  BY <1>1 DEF Store!TypeOK
<1>5. A \subseteq B
  <2>1. acked'[t] = acked[t] \/ \E b \in Batches : acked'[t] = Append(acked[t], b)
    BY Grows
  <2>2. CASE acked'[t] = acked[t]
    BY <2>2 DEF InAcked
  <2>3. ASSUME NEW b \in Batches, acked'[t] = Append(acked[t], b) PROVE A \subseteq B
    <3>1. /\ DOMAIN acked[t] \subseteq DOMAIN acked'[t]
          /\ \A k \in DOMAIN acked[t] : acked'[t][k] = acked[t][k]
      BY <1>4, <2>3
    <3> QED
      BY <3>1 DEF InAcked
  <2> QED
    BY <2>1, <2>2, <2>3
<1>6. ASSUME NEW r \in D, r \notin C
      PROVE  Acts(r) /\ Store!StoreCommitment(r) /\ call[r].t = t /\ call[r].file.batch = rows
  <2>1. r \in Requests
    BY DEF Credited
  <2>2. CASE Acts(r)
    BY <1>6, <2>1, <2>2, CreditOwn
  <2>3. CASE Same(r)
    BY <1>6, <2>1, <2>3 DEF Same, Credited, Asked, Replied, Store!Running
  <2>4. CASE Killed(r)
    BY <1>6, <2>1, <2>4 DEF Killed, Credited, Asked, Replied
  <2> QED
    BY <2>1, <2>2, <2>3, <2>4, StepOf
<1>7. CASE D \subseteq C
  <2>1. Cardinality(D) <= Cardinality(C) /\ Cardinality(A) <= Cardinality(B)
        /\ Cardinality(D) \in Nat /\ Cardinality(C) \in Nat
        /\ Cardinality(A) \in Nat /\ Cardinality(B) \in Nat
    BY <1>2, <1>3, <1>5, <1>7, NoFewer
  <2> QED
    BY <1>2, <2>1
<1>8. CASE ~(D \subseteq C)
  <2>1. PICK r \in D : r \notin C
    BY <1>8
  <2>2. Acts(r) /\ Store!StoreCommitment(r) /\ call[r].t = t /\ call[r].file.batch = rows
        /\ r \in Requests
    BY <1>6, <2>1 DEF Credited
  <2>3. D \subseteq C \cup {r}
    <3> SUFFICES ASSUME NEW e \in D, e # r, e \notin C PROVE FALSE
      OBVIOUS
    <3>1. Same(e) /\ e \in Requests
      BY <1>1, <2>2, OthersSame DEF Credited
    <3> QED
      BY <3>1 DEF Same, Credited, Asked, Replied, Store!Running
  <2> DEFINE n == Len(acked[t]) + 1
  <2>4. acked'[t] = Append(acked[t], rows)
    BY <1>1, <2>2, Store!Acknowledges, StoreAssumption
  <2>5. n \in B /\ n \notin A
    <3>1. n \in DOMAIN acked'[t] /\ acked'[t][n] = rows /\ n \notin DOMAIN acked[t]
      BY <1>4, <2>4
    <3> QED
      BY <3>1 DEF InAcked
  <2> HIDE DEF n, A, B, C, D
  <2>6. /\ Cardinality(C) \in Nat /\ Cardinality(D) \in Nat
        /\ Cardinality(D) <= Cardinality(C) + 1
    BY <1>2, <2>3, AtMostOneMore
  <2>7. /\ Cardinality(A) \in Nat /\ Cardinality(B) \in Nat
        /\ Cardinality(A) + 1 <= Cardinality(B)
    BY <1>3, <1>5, <2>5, OneMore
  <2> QED
    BY <1>2, <2>6, <2>7 DEF B, D
<1> QED
  BY <1>7, <1>8

\* A batch is in one more file only when one more request wrote it.
LEMMA WroteStep ==
    ASSUME ServiceInv, ErrorsInv, CountInv, [Next]_vars, NEW t \in Tables,
           NEW rows \in Batches \ {<<>>}
    PROVE  Cardinality(InFiles(t, rows)') <= Cardinality(Wrote(t, rows)')
<1> DEFINE F == InFiles(t, rows)
           G == InFiles(t, rows)'
           W == Wrote(t, rows)
           X == Wrote(t, rows)'
<1>1. TypeOK /\ HandlerInv /\ Store!TypeOK /\ Store!Inv /\ [Store!Next]_(Store!vars)
  <2>1. TypeOK /\ HandlerInv /\ Store!TypeOK /\ Store!Inv
    BY DEF ServiceInv, TypeOK
  <2> QED
    BY <2>1, StoreStepOf DEF storeVars, Store!vars
<1>2. ServiceInv'
  BY ServiceStep
<1>3. IsFiniteSet(F) /\ IsFiniteSet(W) /\ Cardinality(F) <= Cardinality(W)
  BY CountsFinite DEF CountInv
<1>4. IsFiniteSet(X) /\ W \subseteq X
  <2>1. W \subseteq X
    BY WroteStays
  <2>2. IsFiniteSet(Requests) /\ X \subseteq Requests
    BY ApiAssumption DEF Wrote
  <2> QED
    BY <2>1, <2>2, FS_Subset
<1>5. /\ disk[t].files \in Seq(Store!WholeFile \cup {Torn})
      /\ disk'[t].files \in Seq(Store!WholeFile \cup {Torn})
  BY <1>1, <1>2 DEF ServiceInv, TypeOK, Store!TypeOK, Store!TableDir
<1>6. ASSUME NEW k \in G, k \notin F
      PROVE  \E c \in Requests : /\ Store!WriteBatch(c) /\ call[c].t = t /\ k = call[c].n + 1
                                 /\ call[c].file.batch = rows
  <2>1. k \in 1 .. Len(disk'[t].files) /\ disk'[t].files[k] # Torn
        /\ disk'[t].files[k].batch = rows
    BY <1>5 DEF InFiles
  <2>2. ~(k \in 1 .. Len(disk[t].files) /\ disk[t].files[k] = disk'[t].files[k])
    BY <1>5, <1>6, <2>1 DEF InFiles
  <2>3. \E c \in Requests : /\ Store!WriteBatch(c) /\ call[c].t = t /\ k = call[c].n + 1
                            /\ disk'[t].files[k] = call[c].file
    BY <1>1, <2>1, <2>2, Store!FileWritten, StoreAssumption
  <2> QED
    BY <2>1, <2>3
<1>7. CASE G \subseteq F
  <2>1. Cardinality(G) <= Cardinality(F) /\ Cardinality(W) <= Cardinality(X)
        /\ Cardinality(G) \in Nat /\ Cardinality(F) \in Nat
        /\ Cardinality(W) \in Nat /\ Cardinality(X) \in Nat
    BY <1>3, <1>4, <1>7, NoFewer
  <2> QED
    BY <1>3, <2>1
<1>8. CASE ~(G \subseteq F)
  <2>1. PICK k \in G : k \notin F
    BY <1>8
  <2>2. PICK c \in Requests : /\ Store!WriteBatch(c) /\ call[c].t = t /\ k = call[c].n + 1
                              /\ call[c].file.batch = rows
    BY <1>6, <2>1
  <2>3. call[c].pc = "write" /\ Store!Running(c)
    BY <2>2 DEF Store!WriteBatch, Store!Running
  <2>4. G \subseteq F \cup {k}
    <3> SUFFICES ASSUME NEW j \in G, j \notin F, j # k PROVE FALSE
      OBVIOUS
    <3>1. PICK e \in Requests : Store!WriteBatch(e) /\ j = call[e].n + 1
      BY <1>6
    <3>2. Store!Running(e)
      BY <3>1 DEF Store!WriteBatch, Store!Running
    <3>3. e = c
      BY <1>1, <2>3, <3>2 DEF Store!Inv, Store!Exclusive
    <3> QED
      BY <2>2, <3>1, <3>3
  <2>5. c \notin W
    <3>1. pc[c] = "calling"
      BY <1>1, <2>3 DEF HandlerInv, CallsOwn
    <3> QED
      BY <2>3, <3>1 DEF Wrote, Replied
  <2>6. c \in X
    <3>1. /\ call'[c].pc = "extend" /\ call'[c].t = t /\ call'[c].file.batch = rows
      BY <1>1, <2>2, Store!WritesOn, StoreAssumption
    <3>2. Store!Running(c)' /\ HandlerInv'
      BY <1>2, <3>1 DEF ServiceInv, Store!Running
    <3>3. /\ pc'[c] = "calling" /\ call'[c].t = body'[c].t
          /\ call'[c].file.batch = IF body'[c].kind = "Insert" THEN body'[c].rows ELSE <<>>
      BY <3>2 DEF HandlerInv, CallsOwn
    <3>4. body'[c].kind = "Insert" /\ body'[c].t = t /\ body'[c].rows = rows
      BY <3>1, <3>3
    <3> QED
      BY <3>1, <3>3, <3>4 DEF Wrote, Asked
  <2> HIDE DEF F, G, W, X
  <2>7. /\ Cardinality(F) \in Nat /\ Cardinality(G) \in Nat
        /\ Cardinality(G) <= Cardinality(F) + 1
    BY <1>3, <2>4, AtMostOneMore
  <2>8. /\ Cardinality(W) \in Nat /\ Cardinality(X) \in Nat
        /\ Cardinality(W) + 1 <= Cardinality(X)
    BY <1>4, <2>5, <2>6, OneMore
  <2> QED
    BY <1>3, <2>7, <2>8 DEF G, X
<1> QED
  BY <1>7, <1>8

\* Both counts at once.
LEMMA CountStep ==
    ASSUME ServiceInv, ErrorsInv, CountInv, [Next]_vars
    PROVE  CountInv'
BY CreditStep, WroteStep DEF CountInv

\* There is nothing to count yet.
LEMMA CountInit == Init => CountInv
<1> SUFFICES ASSUME Init, NEW t \in Tables, NEW rows \in Batches \ {<<>>}
             PROVE  /\ Cardinality(Credited(t, rows)) <= Cardinality(InAcked(t, rows))
                    /\ Cardinality(InFiles(t, rows)) <= Cardinality(Wrote(t, rows))
  BY DEF CountInv
<1>1. /\ \A r \in Requests : pc[r] = "unsent"
      /\ acked[t] = <<>> /\ disk[t].files = <<>>
  BY DEF Init, Store!Init, Store!NoDir
<1>2. Credited(t, rows) = {} /\ Wrote(t, rows) = {}
  BY <1>1 DEF Credited, Wrote, Asked
<1>3. InAcked(t, rows) = {} /\ InFiles(t, rows) = {}
  BY <1>1 DEF InAcked, InFiles
<1> QED
  BY <1>2, <1>3, FS_EmptySet

\* What is found among files is there as often as it is acknowledged.
LEMMA AckedInFiles ==
    ASSUME ServiceInv, NEW t \in Tables, NEW rows
    PROVE  Cardinality(InAcked(t, rows)) <= Cardinality(InFiles(t, rows))
<1> DEFINE u == acked[t]
           files == disk[t].files
           n == Len(files)
<1>1. Store!TypeOK /\ Store!FoundIn(u, files, n)
  BY DEF ServiceInv, TypeOK, Store!Inv, Store!AckedSurvives
<1>2. PICK at \in [1 .. Len(u) -> 1 .. n] :
         /\ \A i, j \in 1 .. Len(u) : i < j => at[i] < at[j]
         /\ \A i \in 1 .. Len(u) : files[at[i]] # Torn /\ files[at[i]].batch = u[i]
  BY <1>1 DEF Store!FoundIn
<1>3. /\ Len(u) \in Nat /\ DOMAIN u = 1 .. Len(u) /\ n \in Nat /\ DOMAIN files = 1 .. n
  BY <1>1, Store!DirFields, StoreAssumption DEF Store!TypeOK
<1> DEFINE A == InAcked(t, rows)
           F == InFiles(t, rows)
           f == [k \in A |-> at[k]]
<1>4. A \subseteq 1 .. Len(u) /\ \A k \in A : u[k] = rows
  BY <1>3 DEF InAcked
<1>5. f \in [A -> F]
  <2> SUFFICES ASSUME NEW k \in A PROVE at[k] \in F
    OBVIOUS
  <2> QED
    BY <1>2, <1>3, <1>4 DEF InFiles
<1>6. \A i, j \in A : f[i] = f[j] => i = j
  <2> SUFFICES ASSUME NEW i \in A, NEW j \in A, at[i] = at[j], i # j PROVE FALSE
    OBVIOUS
  <2>1. i \in 1 .. Len(u) /\ j \in 1 .. Len(u) /\ (i < j \/ j < i)
    BY <1>3, <1>4
  <2>2. at[i] \in 1 .. n /\ at[j] \in 1 .. n
    BY <1>2, <2>1
  <2> QED
    BY <1>2, <1>3, <2>1, <2>2
<1>7. IsFiniteSet(F)
  BY CountsFinite
<1> HIDE DEF f, A, F
<1>8. f \in Injection(A, F)
  BY <1>5, <1>6 DEF Injection, IsInjective
<1>9. Cardinality(A) <= Cardinality(F)
  BY <1>7, <1>8, FS_Injection
<1> QED
  BY <1>9 DEF A, F

(***************************************************************************)
(* What a client is told of the rows it sent is what there is: as many     *)
(* inserts told 201 were acknowledged, each acknowledged batch is in the   *)
(* data, and nothing is there more often than requests may have written it.*)
(***************************************************************************)
THEOREM InsertsCount == Spec => []EachInsertCounts
<1>1. Init => ServiceInv /\ ErrorsInv /\ CountInv
  BY ServiceInit, ErrorsInit, CountInit
<1>2. ServiceInv /\ ErrorsInv /\ CountInv /\ [Next]_vars
         => ServiceInv' /\ ErrorsInv' /\ CountInv'
  BY ServiceStep, ErrorsStep, CountStep
<1>3. ServiceInv /\ CountInv => EachInsertCounts
  <2> SUFFICES ASSUME ServiceInv, CountInv, NEW t \in Tables,
                      NEW rows \in Batches \ {<<>>}
               PROVE  /\ Cardinality(Told(t, rows)) <= Times(t, rows)
                      /\ Times(t, rows) <= InData(t, rows)
                      /\ InData(t, rows) <= Cardinality(Told(t, rows) \cup Unsure(t, rows))
    BY DEF EachInsertCounts
  <2>1. /\ Times(t, rows) = Cardinality(InAcked(t, rows))
        /\ InData(t, rows) = Cardinality(InFiles(t, rows))
    BY DEF Times, InData, InAcked, InFiles
  <2>2. Told(t, rows) \subseteq Credited(t, rows)
    BY DEF Told, Sent, Credited, Asked
  <2>3. Wrote(t, rows) \subseteq Told(t, rows) \cup Unsure(t, rows)
    BY DEF Told, Unsure, Sent, Wrote, Asked
  <2>4. /\ IsFiniteSet(Credited(t, rows)) /\ IsFiniteSet(InAcked(t, rows))
        /\ IsFiniteSet(InFiles(t, rows))
        /\ Cardinality(Credited(t, rows)) <= Cardinality(InAcked(t, rows))
        /\ Cardinality(InFiles(t, rows)) <= Cardinality(Wrote(t, rows))
        /\ Cardinality(InAcked(t, rows)) <= Cardinality(InFiles(t, rows))
    BY CountsFinite, AckedInFiles DEF CountInv
  <2>5. Cardinality(Told(t, rows)) <= Cardinality(Credited(t, rows))
        /\ Cardinality(Told(t, rows)) \in Nat /\ Cardinality(Credited(t, rows)) \in Nat
        /\ Cardinality(InAcked(t, rows)) \in Nat /\ Cardinality(InFiles(t, rows)) \in Nat
    BY <2>2, <2>4, NoFewer
  <2>6. IsFiniteSet(Told(t, rows) \cup Unsure(t, rows))
    BY ApiAssumption, FS_Subset DEF Told, Unsure, Sent
  <2>7. /\ Cardinality(Wrote(t, rows)) <= Cardinality(Told(t, rows) \cup Unsure(t, rows))
        /\ Cardinality(Wrote(t, rows)) \in Nat
        /\ Cardinality(Told(t, rows) \cup Unsure(t, rows)) \in Nat
    BY <2>3, <2>6, NoFewer
  <2> QED
    BY <2>1, <2>4, <2>5, <2>7
<1> QED
  BY <1>1, <1>2, <1>3, PTL DEF Spec
============================================================================
