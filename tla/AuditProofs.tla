---------------------------- MODULE AuditProofs ----------------------------
(***************************************************************************)
(* Proofs about Audit, for any tables, batches, faults and order in which  *)
(* commitment files are copied or read.  What DbProofs shows of the store  *)
(* is used through two facts: what was acknowledged only grows, and a      *)
(* commitment that can be read is of all of it.                            *)
(***************************************************************************)
EXTENDS Audit, SequenceLemmas, TLAPS

---------------------------------------------------------------------------
\* Every step is one of the store, or leaves it alone.
LEMMA StoreStepOf ==
    ASSUME [Next]_vars
    PROVE  [Store!Next]_storeVars
BY DEF Next, Serve, Answer, Copy, VerifyCommand, Begin, ReadPinned, Check, vars, storeVars

\* The store's own invariants, as it sees itself.
ServiceInv == Store!TypeOK /\ Store!Inv

\* They hold at the start, and every step keeps them.
LEMMA ServiceInit == Init => ServiceInv
BY Store!TypeInit, Store!InitInv, StoreAssumption DEF Init, ServiceInv

\* What the proofs below use of a step of the store.
Grows == \A t \in Tables :
            /\ acked[t] \in Seq(Batches) /\ acked'[t] \in Seq(Batches)
            /\ IsPrefix(acked[t], acked'[t])
            /\ disk[t].dir => disk'[t].dir
            /\ t \in interrupted => t \in interrupted'

\* No step of the auditor, and none of the service, disturbs them.
LEMMA ServiceStep ==
    ASSUME ServiceInv, [Next]_vars
    PROVE  ServiceInv' /\ Grows
<1>1. [Store!Next]_(Store!vars)
  BY StoreStepOf DEF storeVars, Store!vars
<1>2. Store!TypeOK /\ Store!Inv
  BY DEF ServiceInv
<1>3. Store!TypeOK' /\ Store!Inv'
  BY <1>1, <1>2, Store!TypeStep, Store!NextInv, StoreAssumption
<1>4. /\ \A t \in Tables :
            /\ acked'[t] = acked[t] \/ \E b \in Batches : acked'[t] = Append(acked[t], b)
            /\ disk[t].dir => disk'[t].dir
      /\ interrupted \subseteq interrupted'
  BY <1>1, <1>2, Store!StoreGrows, StoreAssumption
<1>5. ASSUME NEW t \in Tables
      PROVE  /\ acked[t] \in Seq(Batches) /\ acked'[t] \in Seq(Batches)
             /\ IsPrefix(acked[t], acked'[t])
  <2>1. acked[t] \in Seq(Batches) /\ acked'[t] \in Seq(Batches)
    BY <1>2, <1>3 DEF Store!TypeOK
  <2>2. IsPrefix(acked[t], acked[t])
    BY <2>1, PrefixReflexive
  <2>3. ASSUME NEW b \in Batches PROVE IsPrefix(acked[t], Append(acked[t], b))
    BY <2>1, <2>2, PrefixOfAppend
  <2> QED
    BY <1>4, <2>1, <2>2, <2>3
<1> QED
  BY <1>3, <1>4, <1>5 DEF ServiceInv, Grows

\* A commitment that can be read is of what was acknowledged.
LEMMA ReadsAcked ==
    ASSUME ServiceInv, NEW t \in Tables, disk[t].commit \notin {Torn, Missing}
    PROVE  disk[t].commit = acked[t] /\ acked[t] \in Seq(Batches)
BY DEF ServiceInv, Store!TypeOK, Store!Inv, Store!CommitIsAcked, Store!Readable

\* A prefix is one, whoever says so.
LEMMA PrefixRows ==
    ASSUME NEW u \in Seq(Batches), NEW v \in Seq(Batches), IsPrefix(u, v)
    PROVE  /\ Len(Store!Rows(u)) \in Nat /\ Len(Store!Rows(v)) \in Nat
           /\ Store!Rows(u) = Store!Rows(v) \/ Len(Store!Rows(u)) < Len(Store!Rows(v))
<1>1. Store!IsPrefix(u, v)
  BY DEF IsPrefix, Store!IsPrefix
<1> QED
  BY <1>1, Store!PrefixLength, StoreAssumption

---------------------------------------------------------------------------
(***************************************************************************)
(* What each action of the auditor does to the command.                    *)
(***************************************************************************)
\* The commitment file of t, as the command finds it.
FileOf(t) == IF check.dir = "live" THEN disk[t].commit ELSE copy[t]

\* Nothing but the command changes.
OnlyCheck == UNCHANGED <<storeVars, response, copy, uncopied, agreed>>

\* The command ends with an error and keeps what it read.
Refuses(results) ==
    /\ check'.pc = "done" /\ check'.result \in results
    /\ check'.dir = check.dir /\ check'.left = check.left
    /\ check'.pinned = check.pinned /\ check'.grown = check.grown
    /\ DOMAIN check' = DOMAIN check

\* The command starts on a response.
LEMMA BeginOwn ==
    ASSUME TypeOK, Begin
    PROVE  /\ check.pc = "idle" /\ response.made /\ OnlyCheck
           /\ DOMAIN check' = DOMAIN check
           /\ check'.dir = check.dir /\ check'.sql = check.sql /\ check'.result = check.result
           /\ check'.grown = {t \in response.refs : Grew(t)}
           /\ \/ /\ check.dir = "absent" /\ check'.pc = "check"
                 /\ check'.left = {} /\ check'.pinned = response.commits
              \/ /\ check.dir # "absent"
                 /\ check'.left = response.refs /\ check'.pinned = <<>>
                 /\ check'.pc = IF response.refs = {} THEN "check" ELSE "read"
<1> DEFINE grown == {t \in response.refs : Grew(t)}
           own == check.dir = "absent"
           left == IF own THEN {} ELSE response.refs
           pinned == IF own THEN response.commits ELSE <<>>
           pc == IF left = {} THEN "check" ELSE "read"
<1>1. check' = [check EXCEPT !.pc = pc, !.left = left, !.pinned = pinned, !.grown = grown]
  BY Zenon DEF Begin
<1>2. DOMAIN check = {"pc", "dir", "sql", "left", "pinned", "result", "grown"}
  BY DEF TypeOK, IsCheck, NotBegun
<1> HIDE DEF grown, pc, left, pinned
<1>3. /\ DOMAIN check' = DOMAIN check
      /\ check'.dir = check.dir /\ check'.sql = check.sql /\ check'.result = check.result
      /\ check'.grown = grown /\ check'.pc = pc /\ check'.left = left
      /\ check'.pinned = pinned
  BY <1>1, <1>2
<1>4. check.pc = "idle" /\ response.made /\ OnlyCheck
  BY DEF Begin, OnlyCheck
<1> QED
  BY <1>3, <1>4 DEF grown, pc, left, pinned

\* It reads one commitment file.
LEMMA ReadOwn ==
    ASSUME TypeOK, NEW t \in Tables, ReadPinned(t)
    PROVE  /\ check.pc = "read" /\ t \in check.left /\ OnlyCheck
           /\ check'.sql = check.sql
           /\ \/ FileOf(t) \in {Torn, Missing} /\ Refuses({"Io", "Decode"})
              \/ /\ FileOf(t) \notin {Torn, Missing}
                 /\ DOMAIN check' = DOMAIN check
                 /\ check'.dir = check.dir /\ check'.grown = check.grown
                 /\ check'.result = check.result
                 /\ check'.left = check.left \ {t}
                 /\ DOMAIN check'.pinned = {t} \cup DOMAIN check.pinned
                 /\ check'.pinned[t] = FileOf(t)
                 /\ \A u \in DOMAIN check.pinned : u # t => check'.pinned[u] = check.pinned[u]
                 /\ check'.pc = IF check.left = {t} THEN "check" ELSE "read"
<1>1. DOMAIN check = {"pc", "dir", "sql", "left", "pinned", "result", "grown"}
  BY DEF TypeOK, IsCheck, NotBegun
<1>2. check.pc = "read" /\ t \in check.left /\ OnlyCheck
  BY DEF ReadPinned, OnlyCheck
<1>3. CASE FileOf(t) \in {Torn, Missing}
  <2>1. Ends("Io") \/ Ends("Decode")
    BY <1>3, StoreAssumption DEF ReadPinned, FileOf
  <2> QED
    BY <1>1, <1>2, <1>3, <2>1 DEF Ends, Refuses
<1>4. CASE FileOf(t) \notin {Torn, Missing}
  <2> DEFINE pinned == [u \in {t} \cup DOMAIN check.pinned |->
                           IF u = t THEN FileOf(t) ELSE check.pinned[u]]
             pc == IF check.left = {t} THEN "check" ELSE "read"
  <2>1. check' = [check EXCEPT !.left = check.left \ {t}, !.pinned = pinned, !.pc = pc]
    BY <1>4 DEF ReadPinned, FileOf
  <2> HIDE DEF pinned, pc
  <2>2. /\ DOMAIN check' = DOMAIN check
        /\ check'.dir = check.dir /\ check'.sql = check.sql /\ check'.result = check.result
        /\ check'.grown = check.grown /\ check'.pc = pc /\ check'.left = check.left \ {t}
        /\ check'.pinned = pinned
    BY <1>1, <2>1
  <2>3. /\ DOMAIN pinned = {t} \cup DOMAIN check.pinned /\ pinned[t] = FileOf(t)
        /\ \A u \in DOMAIN check.pinned : u # t => pinned[u] = check.pinned[u]
    BY DEF pinned
  <2> QED
    BY <1>2, <1>4, <2>2, <2>3 DEF pc
<1> QED
  BY <1>3, <1>4

\* It checks the proof by what it read.
LEMMA CheckOwn ==
    ASSUME TypeOK, Check
    PROVE  /\ check.pc = "check" /\ OnlyCheck
           /\ check'.pc = "done" /\ DOMAIN check' = DOMAIN check
           /\ check'.dir = check.dir /\ check'.left = check.left
           /\ check'.pinned = check.pinned /\ check'.grown = check.grown
           /\ check'.sql \in Sql /\ check'.result \in VerifyError \cup {"Ok"}
           /\ \/ /\ check'.result \in VerifyError
                 /\ check'.sql = "Proved"
                       => \E t \in response.refs : ~Covers(check.pinned[t], response.data[t])
              \/ /\ check'.result = "Ok" /\ check'.sql = "Proved"
                 /\ \A t \in response.refs : Covers(check.pinned[t], response.data[t])
<1>1. DOMAIN check = {"pc", "dir", "sql", "left", "pinned", "result", "grown"}
  BY DEF TypeOK, IsCheck, NotBegun
<1>2. PICK sql \in Sql : \E result \in Verify(sql, check.pinned) :
         check' = [check EXCEPT !.pc = "done", !.sql = sql, !.result = result]
  BY DEF Check
<1> PICK result \in Verify(sql, check.pinned) :
         check' = [check EXCEPT !.pc = "done", !.sql = sql, !.result = result]
  BY <1>2
<1>3. /\ check'.pc = "done" /\ DOMAIN check' = DOMAIN check
      /\ check'.dir = check.dir /\ check'.left = check.left
      /\ check'.pinned = check.pinned /\ check'.grown = check.grown
      /\ check'.sql = sql /\ check'.result = result
  BY <1>1, <1>2
<1>4. \/ /\ result \in VerifyError
         /\ sql = "Proved"
               => \E t \in response.refs : ~Covers(check.pinned[t], response.data[t])
      \/ /\ result = "Ok" /\ sql = "Proved"
         /\ \A t \in response.refs : Covers(check.pinned[t], response.data[t])
  BY DEF Verify, Sql, VerifyError
<1>5. check.pc = "check" /\ OnlyCheck
  BY DEF Check, OnlyCheck
<1> QED
  BY <1>3, <1>4, <1>5

---------------------------------------------------------------------------
(***************************************************************************)
(* The types, and in which order a response is made, its commitments are   *)
(* read and its proof is checked.                                          *)
(***************************************************************************)
InOrder ==
    /\ ~response.made => response = NoResponse /\ check.pc = "idle"
    /\ check.pc = "idle" => check = NotBegun(check.dir)
    /\ check.pc = "read" => check.dir # "absent"
    /\ check.pc # "done" => check.result = "None"
    /\ check.pc = "check" => check.left = {}

\* What holds of the auditor alone.
StateInv == TypeOK /\ InOrder

\* At the start.
LEMMA StateInit == Init => StateInv
<1> SUFFICES ASSUME Init PROVE StateInv
  OBVIOUS
<1>1. Store!TypeOK
  BY ServiceInit DEF ServiceInv
<1>2. response = NoResponse /\ IsResponse(response) /\ agreed \subseteq response.refs
  BY DEF Init, NoResponse, IsResponse, PerTable
<1>3. copy \in [Tables -> Seq(Batches) \cup {Torn, Missing}] /\ uncopied \subseteq Tables
  BY DEF Init
<1>4. PICK dir \in Dirs : check = NotBegun(dir)
  BY DEF Init
<1>5. IsCheck(check)
  BY <1>2, <1>4 DEF IsCheck, NotBegun, PerTable, Sql, NoResponse
<1>6. InOrder
  BY <1>2, <1>4 DEF InOrder, NotBegun
<1> QED
  BY <1>1, <1>2, <1>3, <1>5, <1>6 DEF StateInv, TypeOK

\* And after each step: a response is made once, before the command begins.
LEMMA StateStep ==
    ASSUME ServiceInv, StateInv, [Next]_vars
    PROVE  StateInv'
<1>1. /\ Store!TypeOK' /\ TypeOK /\ InOrder
      /\ IsResponse(response) /\ IsCheck(check)
      /\ copy \in [Tables -> Seq(Batches) \cup {Torn, Missing}] /\ uncopied \subseteq Tables
      /\ agreed \subseteq response.refs
  BY ServiceStep DEF ServiceInv, StateInv, TypeOK
<1>2. CASE Serve
  <2>1. UNCHANGED <<response, copy, uncopied, check>>
        /\ agreed' = agreed \cup Agreeing(response, acked')
    BY <1>2 DEF Serve
  <2>2. agreed' \subseteq response'.refs
    BY <1>1, <2>1 DEF Agreeing
  <2>3. IsResponse(response') /\ IsCheck(check)' /\ InOrder'
    BY <1>1, <2>1 DEF IsResponse, IsCheck, InOrder
  <2> QED
    BY <1>1, <2>1, <2>2, <2>3 DEF StateInv, TypeOK
<1>3. CASE Answer
  <2>1. ~response.made /\ UNCHANGED <<copy, uncopied, check>>
        /\ agreed' = Agreeing(response', acked)
    BY <1>3 DEF Answer
  <2>2. PICK refs \in SUBSET Tables :
           /\ \A t \in refs :
                /\ Store!DataError(disk[t]) = "Ok"
                /\ Store!CommitmentError(disk[t]) = "Ok"
           /\ response' = [made    |-> TRUE,
                           refs    |-> refs,
                           data    |-> [t \in refs |-> Store!DataOf(disk[t])],
                           commits |-> [t \in refs |-> disk[t].commit],
                           at      |-> [t \in refs |-> acked[t]]]
    BY <1>3 DEF Answer
  <2>3. ASSUME NEW t \in refs
        PROVE  /\ Store!DataOf(disk[t]) \in Seq(Batches)
               /\ disk[t].commit \in Seq(Batches) /\ acked[t] \in Seq(Batches)
    <3>1. t \in Tables /\ Store!TypeOK
      BY <1>1 DEF TypeOK
    <3>2. Store!DataOf(disk[t]) \in Seq(Batches)
      BY <2>2, <3>1, Store!DataIsBatches, StoreAssumption
    <3>3. disk[t].commit \notin {Torn, Missing}
      BY <2>2 DEF Store!CommitmentError
    <3> QED
      BY <3>1, <3>2, <3>3, ReadsAcked DEF Store!TypeOK
  <2>4. IsResponse(response') /\ response'.made
    BY <2>2, <2>3 DEF IsResponse, PerTable
  <2>5. check.pc = "idle" /\ check = NotBegun(check.dir)
    BY <1>1, <2>1 DEF InOrder
  <2>6. check.left = {} /\ check.grown = {} /\ DOMAIN check.pinned = {}
    BY <2>5 DEF NotBegun
  <2>7. IsCheck(check)'
    BY <1>1, <2>1, <2>5, <2>6 DEF IsCheck, PerTable
  <2>8. InOrder'
    BY <1>1, <2>1, <2>4, <2>5 DEF InOrder
  <2>9. agreed' \subseteq response'.refs
    BY <2>1 DEF Agreeing
  <2> QED
    BY <1>1, <2>1, <2>4, <2>7, <2>8, <2>9 DEF StateInv, TypeOK
<1>4. ASSUME NEW t \in Tables, Copy(t) PROVE StateInv'
  <2>1. UNCHANGED <<response, check, agreed>> /\ copy' = [copy EXCEPT ![t] = disk[t].commit]
        /\ uncopied' = uncopied \ {t}
    BY <1>4 DEF Copy
  <2>2. disk[t].commit \in Seq(Batches) \cup {Torn, Missing}
    BY <1>1, Store!DirFields, StoreAssumption DEF TypeOK
  <2>3. copy' \in [Tables -> Seq(Batches) \cup {Torn, Missing}] /\ uncopied' \subseteq Tables
    BY <1>1, <2>1, <2>2
  <2>4. IsCheck(check)' /\ InOrder'
    BY <1>1, <2>1 DEF IsCheck, InOrder
  <2> QED
    BY <1>1, <2>1, <2>3, <2>4 DEF StateInv, TypeOK
<1> DEFINE Rest == /\ IsResponse(response)'
                   /\ copy' \in [Tables -> Seq(Batches) \cup {Torn, Missing}]
                   /\ uncopied' \subseteq Tables /\ agreed' \subseteq response'.refs
<1>5. OnlyCheck => Rest
  BY <1>1 DEF OnlyCheck, IsResponse
<1>6. Rest /\ IsCheck(check)' /\ InOrder' => StateInv'
  BY <1>1 DEF StateInv, TypeOK
<1> HIDE DEF Rest
<1>7. CASE Begin
  <2>1. /\ check.pc = "idle" /\ response.made /\ OnlyCheck
        /\ DOMAIN check' = DOMAIN check
        /\ check'.dir = check.dir /\ check'.sql = check.sql /\ check'.result = check.result
        /\ check'.grown = {t \in response.refs : Grew(t)}
        /\ \/ /\ check.dir = "absent" /\ check'.pc = "check"
              /\ check'.left = {} /\ check'.pinned = response.commits
           \/ /\ check.dir # "absent"
              /\ check'.left = response.refs /\ check'.pinned = <<>>
              /\ check'.pc = IF response.refs = {} THEN "check" ELSE "read"
    BY <1>1, <1>7, BeginOwn
  <2>2. PerTable(check'.pinned, response.refs \ check'.left)
    BY <1>1, <2>1 DEF PerTable, IsResponse
  <2>3. check'.pc \in {"read", "check"} /\ response' = response
    BY <2>1 DEF OnlyCheck
  <2>4. check'.left \subseteq response.refs /\ check'.grown \subseteq response.refs
    BY <2>1
  <2>5. IsCheck(check)'
    BY <1>1, <2>1, <2>2, <2>3, <2>4 DEF IsCheck
  <2>6. InOrder'
    BY <1>1, <2>1, <2>3 DEF InOrder
  <2> QED
    BY <1>5, <1>6, <2>1, <2>5, <2>6
<1>8. ASSUME NEW t \in Tables, ReadPinned(t) PROVE StateInv'
  <2>1. check.pc = "read" /\ t \in check.left /\ OnlyCheck /\ check'.sql = check.sql
    BY <1>1, <1>8, ReadOwn
  <2>2. response' = response /\ response.made
    BY <1>1, <2>1 DEF OnlyCheck, InOrder
  <2>3. CASE FileOf(t) \in {Torn, Missing} /\ Refuses({"Io", "Decode"})
    <3>1. IsCheck(check)'
      BY <1>1, <2>1, <2>2, <2>3 DEF Refuses, IsCheck, CliError
    <3>2. InOrder'
      BY <1>1, <2>1, <2>2, <2>3 DEF Refuses, InOrder
    <3> QED
      BY <1>5, <1>6, <2>1, <3>1, <3>2
  <2>4. CASE /\ FileOf(t) \notin {Torn, Missing}
             /\ DOMAIN check' = DOMAIN check
             /\ check'.dir = check.dir /\ check'.grown = check.grown
             /\ check'.result = check.result
             /\ check'.left = check.left \ {t}
             /\ DOMAIN check'.pinned = {t} \cup DOMAIN check.pinned
             /\ check'.pinned[t] = FileOf(t)
             /\ \A u \in DOMAIN check.pinned : u # t => check'.pinned[u] = check.pinned[u]
             /\ check'.pc = IF check.left = {t} THEN "check" ELSE "read"
    <3>1. FileOf(t) \in Seq(Batches)
      <4>1. disk[t].commit \in Seq(Batches) \cup {Torn, Missing}
        BY <1>1, Store!DirFields, StoreAssumption DEF TypeOK
      <4> QED
        BY <1>1, <2>4, <4>1 DEF FileOf
    <3>2. PerTable(check.pinned, response.refs \ check.left) /\ check.left \subseteq response.refs
      BY <1>1, <2>1 DEF IsCheck
    <3>3. PerTable(check'.pinned, response.refs \ check'.left)
      <4>1. {t} \cup (response.refs \ check.left) = response.refs \ (check.left \ {t})
        BY <2>1, <3>2
      <4> QED
        BY <2>1, <2>4, <3>1, <3>2, <4>1 DEF PerTable
    <3>4. check'.pc \in {"read", "check"} /\ (check'.pc = "check" => check'.left = {})
      BY <2>4
    <3>5. IsCheck(check)'
      BY <1>1, <2>1, <2>2, <2>4, <3>2, <3>3, <3>4 DEF IsCheck
    <3>6. InOrder'
      BY <1>1, <2>1, <2>2, <2>4, <3>4 DEF InOrder
    <3> QED
      BY <1>5, <1>6, <2>1, <3>5, <3>6
  <2> QED
    BY <1>1, <1>8, <2>3, <2>4, ReadOwn
<1>9. CASE Check
  <2>1. /\ check.pc = "check" /\ OnlyCheck
        /\ check'.pc = "done" /\ DOMAIN check' = DOMAIN check
        /\ check'.dir = check.dir /\ check'.left = check.left
        /\ check'.pinned = check.pinned /\ check'.grown = check.grown
        /\ check'.sql \in Sql /\ check'.result \in VerifyError \cup {"Ok"}
    BY <1>1, <1>9, CheckOwn
  <2>2. response' = response /\ response.made
    BY <1>1, <2>1 DEF OnlyCheck, InOrder
  <2>3. IsCheck(check)'
    BY <1>1, <2>1, <2>2 DEF IsCheck, CliError
  <2>4. InOrder'
    BY <1>1, <2>1, <2>2 DEF InOrder
  <2> QED
    BY <1>5, <1>6, <2>1, <2>3, <2>4
<1>10. CASE UNCHANGED vars
  BY <1>1, <1>10 DEF vars, StateInv, TypeOK, IsResponse, IsCheck, InOrder
<1> QED
  BY <1>2, <1>3, <1>4, <1>7, <1>8, <1>9, <1>10 DEF Next, VerifyCommand

\* The three together, which every proof below builds on.
BaseInv == ServiceInv /\ StateInv

\* At the start.
LEMMA BaseInit == Init => BaseInv
BY ServiceInit, StateInit DEF BaseInv

\* And ever after.
LEMMA BaseStep == BaseInv /\ [Next]_vars => BaseInv'
BY ServiceStep, StateStep DEF BaseInv

(***************************************************************************)
(* The command, the response and the copies stay within their types, while *)
(* the service writes and files are read one after the other.              *)
(***************************************************************************)
THEOREM TypeCorrect == Spec => []TypeOK
<1>1. Spec => []BaseInv
  BY BaseInit, BaseStep, PTL DEF Spec
<1>2. BaseInv => TypeOK
  BY DEF BaseInv, StateInv
<1> QED
  BY <1>1, <1>2, PTL

---------------------------------------------------------------------------
(***************************************************************************)
(* What a response says stays true of its tables: what was acknowledged    *)
(* when it was made is what its commitments are of, is still acknowledged, *)
(* and is in its data, alone if no call failed on the table.               *)
(***************************************************************************)
Lasting(t) ==
    LET data == response.data[t]
        at   == response.at[t]
    IN  /\ response.commits[t] = at
        /\ IsPrefix(at, acked[t])
        /\ disk[t].dir
        /\ Len(Store!Rows(at)) <= Len(Store!Rows(data))
        /\ t \notin interrupted => /\ Len(Store!Rows(data)) <= Len(Store!Rows(at))
                                   /\ Len(data) <= Padded => data = at

\* Of every table of the response.
ResponseInv == \A t \in response.refs : Lasting(t)

\* At the moment it is made.
LEMMA AnswerLasting ==
    ASSUME BaseInv, NEW t \in Tables, Store!Quiet,
           Store!DataError(disk[t]) = "Ok", Store!CommitmentError(disk[t]) = "Ok"
    PROVE  LET data == Store!DataOf(disk[t])
               at   == acked[t]
           IN  /\ disk[t].commit = at
               /\ IsPrefix(at, at)
               /\ disk[t].dir
               /\ Len(Store!Rows(at)) <= Len(Store!Rows(data))
               /\ t \notin interrupted => /\ Len(Store!Rows(data)) <= Len(Store!Rows(at))
                                          /\ Len(data) <= Padded => data = at
<1>1. Store!TypeOK /\ Store!Inv /\ ServiceInv
  BY DEF BaseInv, ServiceInv
<1>2. disk[t].dir /\ disk[t].commit \notin {Torn, Missing}
  BY DEF Store!CommitmentError
<1>3. disk[t].commit = acked[t] /\ acked[t] \in Seq(Batches)
  BY <1>1, <1>2, ReadsAcked
<1>4. IsPrefix(acked[t], acked[t])
  BY <1>3, PrefixReflexive
<1>5. Len(Store!Rows(acked[t])) <= Len(Store!Rows(Store!DataOf(disk[t])))
  BY <1>1, Store!DataLength, StoreAssumption
<1>6. ASSUME t \notin interrupted
      PROVE  /\ Len(Store!Rows(Store!DataOf(disk[t]))) <= Len(Store!Rows(acked[t]))
             /\ Len(Store!DataOf(disk[t])) <= Padded => Store!DataOf(disk[t]) = acked[t]
  <2>1. Store!Settled(t)
    BY DEF Store!Quiet, Store!Settled
  <2>2. Store!Intact(t)
    BY <1>1, <1>6 DEF Store!Inv, Store!Undisturbed
  <2>3. Len(Store!Rows(Store!DataOf(disk[t]))) <= Len(Store!Rows(acked[t]))
    BY <1>1, <1>2, <2>1, <2>2, Store!IntactLength, StoreAssumption
  <2>4. Len(Store!DataOf(disk[t])) = Len(disk[t].files)
    BY <1>1, Store!DataIsBatches, StoreAssumption
  <2>5. Len(disk[t].files) <= Padded => disk[t].commit = Store!DataOf(disk[t])
    BY <1>1, <1>2, <2>1, <2>2, Store!IntactData, StoreAssumption
  <2> QED
    BY <1>3, <2>3, <2>4, <2>5
<1> QED
  BY <1>2, <1>3, <1>4, <1>5, <1>6

\* What Answer makes of each table.
LEMMA AnswerOwn ==
    ASSUME Answer
    PROVE  /\ ~response.made /\ Store!Quiet /\ response'.refs \subseteq Tables
           /\ \A t \in response'.refs :
                /\ Store!DataError(disk[t]) = "Ok" /\ Store!CommitmentError(disk[t]) = "Ok"
                /\ response'.data[t] = Store!DataOf(disk[t])
                /\ response'.commits[t] = disk[t].commit
                /\ response'.at[t] = acked[t]
           /\ agreed' = Agreeing(response', acked)
           /\ UNCHANGED <<storeVars, copy, uncopied, check>>
BY DEF Answer

\* And ever after: what was acknowledged only grows.
LEMMA ResponseStep ==
    ASSUME BaseInv, ResponseInv, [Next]_vars
    PROVE  ResponseInv'
<1> SUFFICES ASSUME NEW t \in response'.refs PROVE Lasting(t)'
  BY DEF ResponseInv
<1>1. CASE Answer
  <2>1. /\ t \in Tables /\ Store!Quiet
        /\ Store!DataError(disk[t]) = "Ok" /\ Store!CommitmentError(disk[t]) = "Ok"
        /\ response'.data[t] = Store!DataOf(disk[t])
        /\ response'.commits[t] = disk[t].commit
        /\ response'.at[t] = acked[t]
        /\ UNCHANGED storeVars
    BY <1>1, AnswerOwn
  <2> QED
    BY <2>1, AnswerLasting DEF Lasting, storeVars
<1>2. CASE ~Answer
  <2>1. response' = response
    BY <1>2 DEF Next, Serve, Copy, VerifyCommand, Begin, ReadPinned, Check, vars
  <2>2. t \in response.refs /\ t \in Tables /\ Lasting(t) /\ response.at[t] \in Seq(Batches)
    BY <2>1 DEF ResponseInv, BaseInv, StateInv, TypeOK, IsResponse, PerTable
  <2>3. /\ acked[t] \in Seq(Batches) /\ acked'[t] \in Seq(Batches)
        /\ IsPrefix(acked[t], acked'[t])
        /\ disk[t].dir => disk'[t].dir
        /\ t \in interrupted => t \in interrupted'
    BY <2>2, ServiceStep DEF BaseInv, Grows
  <2>4. IsPrefix(response.at[t], acked'[t])
    BY <2>2, <2>3, PrefixTransitive DEF Lasting
  <2> QED
    BY <2>1, <2>2, <2>3, <2>4 DEF Lasting
<1> QED
  BY <1>1, <1>2

---------------------------------------------------------------------------
\* A file the command or the auditor finds whole is of what is acknowledged.
CopyTrue == \A t \in Tables : copy[t] \notin {Torn, Missing} => IsPrefix(copy[t], acked[t])

\* And so is one it has read.
ReadTrue == \A t \in DOMAIN check.pinned : IsPrefix(check.pinned[t], acked[t])

\* A copy is taken of what is acknowledged then, and that stays.
LEMMA CopyStep ==
    ASSUME BaseInv, CopyTrue, [Next]_vars
    PROVE  CopyTrue'
<1> SUFFICES ASSUME NEW t \in Tables, copy'[t] \notin {Torn, Missing}
             PROVE  IsPrefix(copy'[t], acked'[t])
  BY DEF CopyTrue
<1>1. /\ acked[t] \in Seq(Batches) /\ acked'[t] \in Seq(Batches)
      /\ IsPrefix(acked[t], acked'[t])
  BY ServiceStep DEF BaseInv, Grows
<1>2. copy \in [Tables -> Seq(Batches) \cup {Torn, Missing}]
  BY DEF BaseInv, StateInv, TypeOK
<1>3. CASE copy'[t] = copy[t]
  <2>1. copy[t] \in Seq(Batches) /\ IsPrefix(copy[t], acked[t])
    BY <1>2, <1>3 DEF CopyTrue
  <2> QED
    BY <1>1, <1>3, <2>1, PrefixTransitive
<1>4. CASE copy'[t] # copy[t]
  <2>1. PICK u \in Tables : Copy(u)
    BY <1>4 DEF Next, Serve, Answer, VerifyCommand, Begin, ReadPinned, Check, vars
  <2>2. copy' = [copy EXCEPT ![u] = disk[u].commit] /\ UNCHANGED storeVars
    BY <2>1 DEF Copy
  <2>3. copy'[t] = disk[t].commit
    BY <1>2, <1>4, <2>2
  <2>4. copy'[t] = acked[t]
    BY <2>3, ReadsAcked DEF BaseInv
  <2> QED
    BY <1>1, <2>2, <2>4 DEF storeVars
<1> QED
  BY <1>3, <1>4

\* Where a commitment the command has just read was read from.
LEMMA PinnedFrom ==
    ASSUME BaseInv, [Next]_vars, NEW t \in DOMAIN check'.pinned
    PROVE  /\ t \in response.refs /\ t \in Tables
           /\ UNCHANGED response
           /\ \/ t \in DOMAIN check.pinned /\ check'.pinned[t] = check.pinned[t]
              \/ /\ Begin /\ check.dir = "absent" /\ check'.pinned[t] = response.commits[t]
              \/ /\ ReadPinned(t) /\ t \notin DOMAIN check.pinned
                 /\ check'.pinned[t] = FileOf(t) /\ FileOf(t) \notin {Torn, Missing}
<1>1. TypeOK /\ InOrder /\ IsResponse(response) /\ IsCheck(check)
  BY DEF BaseInv, StateInv, TypeOK
<1>2. response.refs \subseteq Tables
  BY <1>1 DEF IsResponse
<1>3. DOMAIN check.pinned \subseteq response.refs
  BY <1>1 DEF IsCheck, PerTable
<1>4. ASSUME Answer PROVE FALSE
  <2>1. check' = check /\ ~response.made
    BY <1>4, AnswerOwn
  <2>2. check = NotBegun(check.dir)
    BY <1>1, <2>1 DEF InOrder
  <2>3. DOMAIN check.pinned = {}
    BY <2>2 DEF NotBegun
  <2> QED
    BY <2>1, <2>3
<1>5. ASSUME Serve \/ \E u \in Tables : Copy(u) PROVE UNCHANGED <<response, check>>
  BY <1>5 DEF Serve, Copy
<1>6. CASE Begin
  <2>1. /\ UNCHANGED response
        /\ \/ check.dir = "absent" /\ check'.pinned = response.commits
           \/ check'.pinned = <<>>
    BY <1>1, <1>6, BeginOwn DEF OnlyCheck
  <2>2. check.dir = "absent" /\ check'.pinned = response.commits
    BY <2>1
  <2>3. DOMAIN response.commits = response.refs
    BY <1>1 DEF IsResponse, PerTable
  <2> QED
    BY <1>2, <1>6, <2>1, <2>2, <2>3
<1>7. ASSUME NEW u \in Tables, ReadPinned(u)
      PROVE  /\ t \in response.refs /\ UNCHANGED response
             /\ \/ t \in DOMAIN check.pinned /\ check'.pinned[t] = check.pinned[t]
                \/ /\ ReadPinned(t) /\ t \notin DOMAIN check.pinned
                   /\ check'.pinned[t] = FileOf(t) /\ FileOf(t) \notin {Torn, Missing}
  <2>1. UNCHANGED response /\ check.pc = "read" /\ u \in check.left
    BY <1>1, <1>7, ReadOwn DEF OnlyCheck
  <2>2. u \in response.refs /\ u \notin DOMAIN check.pinned
    BY <1>1, <2>1 DEF IsCheck, PerTable
  <2>3. CASE Refuses({"Io", "Decode"})
    BY <1>3, <2>1, <2>3 DEF Refuses
  <2>4. CASE /\ FileOf(u) \notin {Torn, Missing}
             /\ DOMAIN check'.pinned = {u} \cup DOMAIN check.pinned
             /\ check'.pinned[u] = FileOf(u)
             /\ \A v \in DOMAIN check.pinned : v # u => check'.pinned[v] = check.pinned[v]
    BY <1>3, <1>7, <2>1, <2>2, <2>4
  <2> QED
    BY <1>1, <1>7, <2>3, <2>4, ReadOwn
<1>8. ASSUME Check PROVE UNCHANGED response /\ check'.pinned = check.pinned
  BY <1>1, <1>8, CheckOwn DEF OnlyCheck
<1>9. ASSUME UNCHANGED vars PROVE UNCHANGED <<response, check>>
  BY <1>9 DEF vars
<1> QED
  BY <1>2, <1>3, <1>4, <1>5, <1>6, <1>7, <1>8, <1>9 DEF Next, VerifyCommand

\* The response, the copy and the directory are all true when they are read.
LEMMA ReadStep ==
    ASSUME BaseInv, ResponseInv, CopyTrue, ReadTrue, [Next]_vars
    PROVE  ReadTrue'
<1> SUFFICES ASSUME NEW t \in DOMAIN check'.pinned
             PROVE  IsPrefix(check'.pinned[t], acked'[t])
  BY DEF ReadTrue
<1>1. t \in response.refs /\ t \in Tables
  BY PinnedFrom
<1>2. /\ acked[t] \in Seq(Batches) /\ acked'[t] \in Seq(Batches)
      /\ IsPrefix(acked[t], acked'[t])
  BY <1>1, ServiceStep DEF BaseInv, Grows
<1>3. check'.pinned[t] \in Seq(Batches) /\ IsPrefix(check'.pinned[t], acked[t])
  <2>1. CASE t \in DOMAIN check.pinned /\ check'.pinned[t] = check.pinned[t]
    BY <2>1 DEF ReadTrue, BaseInv, StateInv, TypeOK, IsCheck, PerTable
  <2>2. CASE check'.pinned[t] = response.commits[t]
    BY <1>1, <2>2 DEF ResponseInv, Lasting, BaseInv, StateInv, TypeOK, IsResponse, PerTable
  <2>3. CASE check'.pinned[t] = FileOf(t) /\ FileOf(t) \notin {Torn, Missing}
    <3>1. CASE check.dir = "live"
      <4>1. check'.pinned[t] = acked[t]
        BY <1>1, <2>3, <3>1, ReadsAcked DEF FileOf, BaseInv
      <4> QED
        BY <1>2, <4>1, PrefixReflexive
    <3>2. CASE check.dir # "live"
      BY <1>1, <2>3, <3>2 DEF FileOf, CopyTrue, BaseInv, StateInv, TypeOK
    <3> QED
      BY <3>1, <3>2
  <2> QED
    BY <2>1, <2>2, <2>3, PinnedFrom
<1> QED
  BY <1>2, <1>3, PrefixTransitive

\* The invariants so far.
PinnedInv == BaseInv /\ ResponseInv /\ CopyTrue /\ ReadTrue

\* At the start there is no response and no copy.
LEMMA PinnedInit == Init => PinnedInv
<1> SUFFICES ASSUME Init PROVE PinnedInv
  OBVIOUS
<1>1. ResponseInv
  BY DEF Init, NoResponse, ResponseInv
<1>2. CopyTrue
  BY DEF Init, CopyTrue
<1>3. ReadTrue
  <2>1. DOMAIN check.pinned = {}
    BY DEF Init, NotBegun
  <2> QED
    BY <2>1 DEF ReadTrue
<1> QED
  BY <1>1, <1>2, <1>3, BaseInit DEF PinnedInv

\* Each of them builds on the ones before it.
LEMMA PinnedStep == PinnedInv /\ [Next]_vars => PinnedInv'
BY BaseStep, ResponseStep, CopyStep, ReadStep DEF PinnedInv

(***************************************************************************)
(* A commitment the command has read, or the auditor has copied, is one to *)
(* the leading batches of its table for ever, whenever and from wherever   *)
(* it was taken.                                                           *)
(***************************************************************************)
THEOREM PinnedStays == Spec => []PinnedStaysTrue
<1>1. Spec => []PinnedInv
  BY PinnedInit, PinnedStep, PTL DEF Spec
<1>2. PinnedInv => PinnedStaysTrue
  BY DEF PinnedInv, CopyTrue, ReadTrue, PinnedStaysTrue
<1> QED
  BY <1>1, <1>2, PTL

---------------------------------------------------------------------------
(***************************************************************************)
(* A commitment that covers a table's proved rows shows that these were    *)
(* all that was acknowledged at some moment since the response was made:   *)
(* when the commitment was read, or, if it was copied before, when the     *)
(* response was made, for what was acknowledged then lies between the      *)
(* commitment's rows and the proved ones.                                  *)
(***************************************************************************)
Shows(t, commitment) == Covers(commitment, response.data[t]) => t \in agreed

\* It is so of every commitment the command may check the proof by.
AgreedInv ==
    /\ Agreeing(response, acked) \subseteq agreed
    /\ \A t \in response.refs :
          /\ Shows(t, response.commits[t])
          /\ copy[t] \notin {Torn, Missing} => Shows(t, copy[t])
    /\ \A t \in DOMAIN check.pinned : Shows(t, check.pinned[t])

\* Nothing is shown at the start.
LEMMA AgreedInit == Init => AgreedInv
<1> SUFFICES ASSUME Init PROVE AgreedInv
  OBVIOUS
<1>1. response.refs = {}
  BY DEF Init, NoResponse
<1>2. DOMAIN check.pinned = {}
  BY DEF Init, NotBegun
<1> QED
  BY <1>1, <1>2 DEF AgreedInv, Agreeing

\* Steps that leave the response alone only add to what agreed.
LEMMA AgreedGrows ==
    ASSUME PinnedInv, AgreedInv, [Next]_vars, ~Answer
    PROVE  /\ UNCHANGED response /\ agreed \subseteq agreed'
           /\ Agreeing(response, acked') \subseteq agreed'
           /\ \A t \in Tables : \/ copy'[t] = copy[t]
                                \/ copy'[t] = disk[t].commit /\ UNCHANGED acked
<1>1. CASE Serve
  BY <1>1 DEF Serve
<1>2. ASSUME NEW u \in Tables, Copy(u)
      PROVE  /\ UNCHANGED <<response, agreed, acked>>
             /\ \A t \in Tables : copy'[t] = copy[t] \/ copy'[t] = disk[t].commit
  <2>1. copy' = [copy EXCEPT ![u] = disk[u].commit]
        /\ copy \in [Tables -> Seq(Batches) \cup {Torn, Missing}]
    BY <1>2 DEF Copy, PinnedInv, BaseInv, StateInv, TypeOK
  <2>2. UNCHANGED <<response, agreed, acked>>
    BY <1>2 DEF Copy, storeVars
  <2> QED
    BY <2>1, <2>2
<1>3. ASSUME VerifyCommand \/ UNCHANGED vars PROVE UNCHANGED <<response, agreed, acked, copy>>
  BY <1>3 DEF VerifyCommand, Begin, ReadPinned, Check, vars, storeVars
<1> QED
  BY <1>1, <1>2, <1>3 DEF Next, AgreedInv

\* A response, a copy and a reading each show what they should.
LEMMA AgreedStep ==
    ASSUME PinnedInv, AgreedInv, [Next]_vars
    PROVE  AgreedInv'
<1>1. BaseInv /\ TypeOK /\ InOrder /\ ResponseInv
  BY DEF PinnedInv, BaseInv, StateInv
<1>2. CASE Answer
  <2>1. /\ ~response.made /\ Store!Quiet /\ response'.refs \subseteq Tables
        /\ agreed' = Agreeing(response', acked)
        /\ UNCHANGED <<storeVars, copy, uncopied, check>>
    BY <1>2, AnswerOwn
  <2>2. ASSUME NEW t \in response'.refs,
               Store!Rows(acked[t]) = Store!Rows(response'.data[t])
        PROVE  t \in agreed'
    BY <2>1, <2>2 DEF Agreeing
  <2>3. ASSUME NEW t \in response'.refs, copy[t] \notin {Torn, Missing},
               Store!Rows(copy[t]) = Store!Rows(response'.data[t])
        PROVE  t \in agreed'
    <3>1. t \in Tables /\ Store!DataError(disk[t]) = "Ok" /\ Store!TypeOK /\ Store!Inv
          /\ response'.data[t] = Store!DataOf(disk[t])
      BY <1>1, <1>2, <2>1, AnswerOwn DEF BaseInv, ServiceInv
    <3>2. copy[t] \in Seq(Batches) /\ acked[t] \in Seq(Batches)
      BY <1>1, <2>3, <3>1 DEF TypeOK, Store!TypeOK
    <3>3. IsPrefix(copy[t], acked[t])
      BY <2>3, <3>1 DEF PinnedInv, CopyTrue
    <3>4. /\ Len(Store!Rows(copy[t])) \in Nat /\ Len(Store!Rows(acked[t])) \in Nat
          /\ \/ Store!Rows(copy[t]) = Store!Rows(acked[t])
             \/ Len(Store!Rows(copy[t])) < Len(Store!Rows(acked[t]))
      BY <3>2, <3>3, PrefixRows
    <3>5. Len(Store!Rows(acked[t])) <= Len(Store!Rows(Store!DataOf(disk[t])))
      BY <3>1, Store!DataLength, StoreAssumption
    <3>6. Store!Rows(copy[t]) = Store!Rows(acked[t])
      BY <2>3, <3>1, <3>4, <3>5
    <3> QED
      BY <2>2, <2>3, <3>6
  <2>4. \A t \in response'.refs : response'.commits[t] = acked[t]
    BY <1>1, <1>2, AnswerOwn, ResponseStep DEF ResponseInv, Lasting, BaseInv, ServiceInv,
       Store!CommitmentError, Store!Inv, Store!CommitIsAcked, Store!Readable
  <2>5. DOMAIN check.pinned = {}
    <3>1. check = NotBegun(check.dir)
      BY <1>1, <2>1 DEF InOrder
    <3> QED
      BY <3>1 DEF NotBegun
  <2>6. acked' = acked /\ copy' = copy /\ check' = check
    BY <2>1 DEF storeVars
  <2> QED
    BY <2>1, <2>2, <2>3, <2>4, <2>5, <2>6 DEF AgreedInv, Agreeing, Shows, Covers
<1>3. CASE ~Answer
  <2>1. /\ UNCHANGED response /\ agreed \subseteq agreed'
        /\ Agreeing(response, acked') \subseteq agreed'
        /\ \A t \in Tables : \/ copy'[t] = copy[t]
                             \/ copy'[t] = disk[t].commit /\ UNCHANGED acked
    BY <1>3, AgreedGrows
  <2>2. ASSUME NEW t \in response.refs,
               Store!Rows(acked[t]) = Store!Rows(response.data[t])
        PROVE  t \in agreed'
    BY <2>1, <2>2 DEF AgreedInv, Agreeing
  <2>3. ASSUME NEW t \in response.refs PROVE Shows(t, response.commits[t])'
    BY <2>1, <2>3 DEF AgreedInv, Shows, Covers
  <2>4. ASSUME NEW t \in response.refs, copy'[t] \notin {Torn, Missing}
        PROVE  Shows(t, copy[t])'
    <3>1. t \in Tables
      BY <1>1 DEF TypeOK, IsResponse
    <3>2. CASE copy'[t] = copy[t]
      BY <2>1, <2>4, <3>2 DEF AgreedInv, Shows, Covers
    <3>3. CASE copy'[t] = disk[t].commit
      <4>1. copy'[t] = acked[t]
        BY <1>1, <2>4, <3>1, <3>3, ReadsAcked DEF BaseInv
      <4> QED
        BY <2>1, <2>2, <4>1 DEF Shows, Covers
    <3> QED
      BY <2>1, <3>1, <3>2, <3>3
  <2>5. ASSUME NEW t \in DOMAIN check'.pinned PROVE Shows(t, check.pinned[t])'
    <3>1. t \in response.refs /\ t \in Tables
      BY <1>1, PinnedFrom
    <3>2. CASE t \in DOMAIN check.pinned /\ check'.pinned[t] = check.pinned[t]
      BY <2>1, <3>2 DEF AgreedInv, Shows, Covers
    <3>3. CASE check'.pinned[t] = response.commits[t]
      BY <2>1, <2>3, <3>1, <3>3 DEF Shows
    <3>4. CASE check'.pinned[t] = FileOf(t) /\ FileOf(t) \notin {Torn, Missing}
      <4>1. CASE check.dir = "live"
        <5>1. check'.pinned[t] = acked[t]
          BY <1>1, <3>1, <3>4, <4>1, ReadsAcked DEF FileOf, BaseInv
        <5> QED
          BY <2>1, <2>2, <3>1, <5>1 DEF Shows, Covers
      <4>2. CASE check.dir # "live"
        <5>1. check'.pinned[t] = copy[t] /\ copy[t] \notin {Torn, Missing}
          BY <3>4, <4>2 DEF FileOf
        <5> QED
          BY <2>1, <3>1, <5>1 DEF AgreedInv, Shows, Covers
      <4> QED
        BY <4>1, <4>2
    <3> QED
      BY <1>1, <3>2, <3>3, <3>4, PinnedFrom
  <2> QED
    BY <2>1, <2>3, <2>4, <2>5 DEF AgreedInv
<1> QED
  BY <1>2, <1>3

---------------------------------------------------------------------------
\* A response is accepted only when each commitment read covers its table.
Verdict ==
    Accepted => /\ check.pc = "done" /\ check.left = {}
                /\ \A t \in response.refs : Covers(check.pinned[t], response.data[t])

\* Nothing is followed any further when the command has ended.
LEMMA DoneStays ==
    ASSUME InOrder, check.pc = "done", [Next]_vars
    PROVE  UNCHANGED vars
<1>1. response.made
  BY DEF InOrder
<1>2. ASSUME Serve PROVE FALSE
  BY <1>2 DEF Serve
<1>3. ASSUME Answer PROVE FALSE
  BY <1>1, <1>3 DEF Answer
<1>4. ASSUME NEW t \in Tables, Copy(t) \/ ReadPinned(t) PROVE FALSE
  BY <1>4 DEF Copy, ReadPinned
<1>5. ASSUME Begin \/ Check PROVE FALSE
  BY <1>5 DEF Begin, Check
<1> QED
  BY <1>2, <1>3, <1>4, <1>5 DEF Next, VerifyCommand

\* The verdict is given once, by Check.
LEMMA VerdictStep ==
    ASSUME BaseInv, Verdict, [Next]_vars
    PROVE  Verdict'
<1> SUFFICES ASSUME Accepted'
             PROVE  /\ check'.pc = "done" /\ check'.left = {}
                    /\ \A t \in response'.refs : Covers(check'.pinned[t], response'.data[t])
  BY DEF Verdict, Covers
<1>1. TypeOK /\ InOrder
  BY DEF BaseInv, StateInv
<1>2. CASE Accepted
  <2>1. check.pc = "done"
    BY <1>2 DEF Verdict
  <2>2. UNCHANGED <<response, check>>
    BY <1>1, <2>1, DoneStays DEF vars
  <2> QED
    BY <1>2, <2>2 DEF Verdict
<1>3. CASE ~Accepted
  <2>1. check'.result = "Ok" /\ check.result # "Ok"
    BY <1>3 DEF Accepted
  <2>2. Check
    <3>1. ASSUME Begin PROVE check'.result = check.result
      BY <1>1, <3>1, BeginOwn
    <3>2. ASSUME NEW t \in Tables, ReadPinned(t) PROVE check'.result # "Ok" \/ check'.result = check.result
      BY <1>1, <3>2, ReadOwn DEF Refuses
    <3>3. ASSUME Serve \/ Answer \/ (\E t \in Tables : Copy(t)) \/ UNCHANGED vars
          PROVE  check' = check
      BY <3>3 DEF Serve, Answer, Copy, vars
    <3> QED
      BY <2>1, <3>1, <3>2, <3>3 DEF Next, VerifyCommand
  <2>3. /\ check.pc = "check" /\ OnlyCheck /\ check'.pc = "done"
        /\ check'.left = check.left /\ check'.pinned = check.pinned
        /\ \A t \in response.refs : Covers(check.pinned[t], response.data[t])
    BY <1>1, <2>1, <2>2, CheckOwn DEF VerifyError
  <2>4. check.left = {}
    BY <1>1, <2>3 DEF InOrder
  <2> QED
    BY <2>3, <2>4 DEF OnlyCheck
<1> QED
  BY <1>2, <1>3

\* The command has read every commitment of a response it accepts.
LEMMA AcceptedReadAll ==
    ASSUME BaseInv, Verdict, Accepted
    PROVE  DOMAIN check.pinned = response.refs
BY DEF Verdict, BaseInv, StateInv, TypeOK, IsCheck, PerTable

\* There is none at the start.
LEMMA VerdictInit == Init => Verdict
BY DEF Init, NotBegun, Verdict, Accepted

(***************************************************************************)
(* verify accepts a response only if its proof is of exactly the rows that *)
(* were acknowledged, for each table at some moment since the response was *)
(* made, wherever the commitments came from and however old they are.      *)
(***************************************************************************)
THEOREM AcceptedWereCommitted == Spec => []AcceptedRowsWereCommitted
<1>1. Init => PinnedInv /\ AgreedInv /\ Verdict
  BY PinnedInit, AgreedInit, VerdictInit
<1>2. PinnedInv /\ AgreedInv /\ Verdict /\ [Next]_vars => PinnedInv' /\ AgreedInv' /\ Verdict'
  BY PinnedStep, AgreedStep, VerdictStep DEF PinnedInv
<1>3. PinnedInv /\ AgreedInv /\ Verdict => AcceptedRowsWereCommitted
  <2> SUFFICES ASSUME PinnedInv, AgreedInv, Verdict, Accepted, NEW t \in response.refs
               PROVE  t \in agreed
    BY DEF AcceptedRowsWereCommitted
  <2>1. t \in DOMAIN check.pinned
    BY AcceptedReadAll DEF PinnedInv
  <2>2. Covers(check.pinned[t], response.data[t])
    BY DEF Verdict
  <2> QED
    BY <2>1, <2>2 DEF AgreedInv, Shows
<1> QED
  BY <1>1, <1>2, <1>3, PTL DEF Spec

---------------------------------------------------------------------------
(***************************************************************************)
(* What the service's own directory shows: a commitment read from it is at *)
(* least of what was acknowledged when the response was made, and of more  *)
(* rows if the table had grown by the time the command began.              *)
(***************************************************************************)
More(t, commitment) == Len(Store!Rows(response.at[t])) < Len(Store!Rows(commitment))

\* Of every commitment read, and every table that grew.
LiveInv ==
    check.dir = "live" =>
        /\ \A t \in DOMAIN check.pinned : IsPrefix(response.at[t], check.pinned[t])
        /\ \A t \in check.grown : /\ t \in check.left => More(t, acked[t])
                                  /\ t \in DOMAIN check.pinned => More(t, check.pinned[t])

\* Nothing was read at the start.
LEMMA LiveInit == Init => LiveInv
<1> SUFFICES ASSUME Init PROVE LiveInv
  OBVIOUS
<1>1. DOMAIN check.pinned = {} /\ check.grown = {}
  BY DEF Init, NotBegun
<1> QED
  BY <1>1 DEF LiveInv

\* The command keeps to its directory, and counts what grew when it begins.
LEMMA CheckKeeps ==
    ASSUME BaseInv, [Next]_vars
    PROVE  /\ check'.dir = check.dir
           /\ \/ UNCHANGED response
              \/ UNCHANGED check /\ check.grown = {}
           /\ \/ Begin /\ check'.grown = {t \in response.refs : Grew(t)}
              \/ check'.grown = check.grown /\ check'.left \subseteq check.left
<1>1. TypeOK /\ InOrder
  BY DEF BaseInv, StateInv
<1>2. CASE Begin
  BY <1>1, <1>2, BeginOwn DEF OnlyCheck
<1>3. ASSUME NEW t \in Tables, ReadPinned(t)
      PROVE  /\ check'.dir = check.dir /\ UNCHANGED response
             /\ check'.grown = check.grown /\ check'.left \subseteq check.left
  BY <1>1, <1>3, ReadOwn DEF OnlyCheck, Refuses
<1>4. CASE Check
  BY <1>1, <1>4, CheckOwn DEF OnlyCheck
<1>5. CASE Answer
  <2>1. ~response.made /\ UNCHANGED check
    BY <1>5, AnswerOwn
  <2>2. check = NotBegun(check.dir)
    BY <1>1, <2>1 DEF InOrder
  <2>3. check.grown = {}
    BY <2>2 DEF NotBegun
  <2> QED
    BY <2>1, <2>3
<1>6. ASSUME Serve \/ (\E t \in Tables : Copy(t)) \/ UNCHANGED vars
      PROVE  UNCHANGED <<response, check>>
  BY <1>6 DEF Serve, Copy, vars
<1> QED
  BY <1>2, <1>3, <1>4, <1>5, <1>6 DEF Next, VerifyCommand

\* A table that grew has grown when its file is read.
LEMMA LiveStep ==
    ASSUME PinnedInv, LiveInv, [Next]_vars
    PROVE  LiveInv'
<1> SUFFICES ASSUME check'.dir = "live"
             PROVE  /\ \A t \in DOMAIN check'.pinned :
                          IsPrefix(response'.at[t], check'.pinned[t])
                    /\ \A t \in check'.grown :
                          /\ t \in check'.left => More(t, acked[t])'
                          /\ t \in DOMAIN check'.pinned => More(t, check.pinned[t])'
  BY DEF LiveInv, More
<1>1. BaseInv /\ TypeOK /\ InOrder /\ ResponseInv /\ ServiceInv
  BY DEF PinnedInv, BaseInv, StateInv
<1>2. check.dir = "live"
  BY <1>1, CheckKeeps
<1>3. /\ \A t \in DOMAIN check.pinned : IsPrefix(response.at[t], check.pinned[t])
      /\ \A t \in check.grown : /\ t \in check.left => More(t, acked[t])
                                /\ t \in DOMAIN check.pinned => More(t, check.pinned[t])
  BY <1>2 DEF LiveInv
<1>4. ASSUME NEW t \in DOMAIN check'.pinned
      PROVE  /\ UNCHANGED response
             /\ \/ t \in DOMAIN check.pinned /\ check'.pinned[t] = check.pinned[t]
                \/ /\ t \in check.left /\ ~Begin
                   /\ check'.pinned[t] = acked[t] /\ IsPrefix(response.at[t], acked[t])
  <2>1. /\ t \in response.refs /\ t \in Tables /\ UNCHANGED response
        /\ \/ t \in DOMAIN check.pinned /\ check'.pinned[t] = check.pinned[t]
           \/ /\ ReadPinned(t) /\ check'.pinned[t] = FileOf(t)
              /\ FileOf(t) \notin {Torn, Missing}
    BY <1>1, <1>2, PinnedFrom
  <2>2. ASSUME ReadPinned(t), check'.pinned[t] = FileOf(t), FileOf(t) \notin {Torn, Missing}
        PROVE  /\ t \in check.left /\ ~Begin
               /\ check'.pinned[t] = acked[t] /\ IsPrefix(response.at[t], acked[t])
    <3>1. disk[t].commit \notin {Torn, Missing} /\ check'.pinned[t] = disk[t].commit
      BY <1>2, <2>2 DEF FileOf
    <3>2. check'.pinned[t] = acked[t]
      BY <1>1, <2>1, <3>1, ReadsAcked
    <3>3. IsPrefix(response.at[t], acked[t])
      BY <1>1, <2>1 DEF ResponseInv, Lasting
    <3>4. t \in check.left /\ ~Begin
      BY <2>2 DEF ReadPinned, Begin
    <3> QED
      BY <3>2, <3>3, <3>4
  <2> QED
    BY <2>1, <2>2
<1>5. \A t \in DOMAIN check'.pinned : IsPrefix(response'.at[t], check'.pinned[t])
  BY <1>3, <1>4
<1>6. ASSUME NEW t \in check'.grown
      PROVE  /\ t \in Tables
             /\ t \in check'.left => More(t, acked[t])'
             /\ t \in DOMAIN check'.pinned => More(t, check.pinned[t])'
  <2>1. CASE Begin /\ check'.grown = {u \in response.refs : Grew(u)}
    <3>1. t \in response.refs /\ t \in Tables /\ Grew(t)
      BY <1>1, <2>1 DEF TypeOK, IsResponse
    <3>2. UNCHANGED <<response, acked>> /\ check.pc = "idle"
      BY <2>1 DEF Begin, storeVars
    <3>3. acked[t] \in Seq(Batches) /\ response.at[t] \in Seq(Batches)
      BY <1>1, <3>1 DEF TypeOK, Store!TypeOK, IsResponse, PerTable
    <3>4. Len(Store!Rows(acked[t])) \in Nat /\ Len(Store!Rows(response.at[t])) \in Nat
      BY <3>3, PrefixRows, PrefixReflexive
    <3>5. More(t, acked[t])'
      BY <3>1, <3>2, <3>4 DEF Grew, More
    <3>6. t \notin DOMAIN check'.pinned
      <4>1. check = NotBegun(check.dir)
        BY <1>1, <3>2 DEF InOrder
      <4>2. DOMAIN check.pinned = {}
        BY <4>1 DEF NotBegun
      <4> QED
        BY <1>4, <2>1, <4>2
    <3> QED
      BY <3>1, <3>5, <3>6
  <2>2. CASE check'.grown = check.grown /\ check'.left \subseteq check.left
    <3>1. t \in check.grown /\ t \in Tables /\ UNCHANGED response /\ t \in response.refs
      BY <1>1, <2>2, CheckKeeps DEF TypeOK, IsCheck, IsResponse
    <3>2. /\ acked[t] \in Seq(Batches) /\ acked'[t] \in Seq(Batches)
          /\ IsPrefix(acked[t], acked'[t])
          /\ response.at[t] \in Seq(Batches) /\ IsPrefix(response.at[t], response.at[t])
      BY <1>1, <3>1, ServiceStep, PrefixReflexive DEF Grows, TypeOK, IsResponse, PerTable
    <3>3. /\ Len(Store!Rows(acked[t])) \in Nat /\ Len(Store!Rows(acked'[t])) \in Nat
          /\ Len(Store!Rows(response.at[t])) \in Nat
          /\ Len(Store!Rows(acked[t])) <= Len(Store!Rows(acked'[t]))
      BY <3>2, PrefixRows
    <3>4. t \in check.left => More(t, acked'[t])
      BY <1>3, <3>1, <3>3 DEF More
    <3>5. t \in DOMAIN check'.pinned => More(t, check'.pinned[t])
      BY <1>3, <1>4, <3>1
    <3> QED
      BY <2>2, <3>1, <3>4, <3>5 DEF More
  <2> QED
    BY <1>1, <2>1, <2>2, CheckKeeps
<1> QED
  BY <1>5, <1>6

---------------------------------------------------------------------------
\* A refusal by the service's directory shows a change, at once and for good.
LEMMA RefusedStep ==
    ASSUME PinnedInv, LiveInv, RefusedOnlyIfChanged, [Next]_vars
    PROVE  RefusedOnlyIfChanged'
<1> DEFINE Changed(t) == \/ acked[t] # response.at[t]
                         \/ t \in interrupted
                         \/ ~Store!Settled(t)
<1>1. BaseInv /\ TypeOK /\ InOrder /\ ResponseInv /\ ServiceInv
  BY DEF PinnedInv, BaseInv, StateInv
<1>2. CASE check.pc = "done"
  <2>1. UNCHANGED vars
    BY <1>1, <1>2, DoneStays
  <2>2. UNCHANGED <<response, check, acked, interrupted, call>>
    BY <2>1 DEF vars
  <2>3. \A t : Store!Settled(t)' <=> Store!Settled(t)
    BY <2>2 DEF Store!Settled, Store!Running, Store!Dirty
  <2> QED
    BY <2>2, <2>3 DEF RefusedOnlyIfChanged, Refused, InPadding
<1>3. CASE check.pc # "done"
  <2> SUFFICES ASSUME check'.result \in CliError, check'.dir = "live",
                      check'.sql = "Proved",
                      \A t \in response'.refs : Len(response'.data[t]) <= Padded
               PROVE  \E t \in response'.refs : Changed(t)'
    BY DEF RefusedOnlyIfChanged, Refused, InPadding
  <2>1. check.result = "None" /\ "None" \notin CliError
    BY <1>1, <1>3 DEF InOrder, CliError, VerifyError
  <2>2. CASE Check
    <3>1. /\ check.pc = "check" /\ OnlyCheck
          /\ check'.pinned = check.pinned /\ check'.dir = check.dir
          /\ \E t \in response.refs : ~Covers(check.pinned[t], response.data[t])
      BY <1>1, <2>2, CheckOwn DEF CliError, VerifyError
    <3>2. PICK t \in response.refs : ~Covers(check.pinned[t], response.data[t])
      BY <3>1
    <3>3. UNCHANGED <<response, acked, interrupted, call>>
      BY <3>1 DEF OnlyCheck, storeVars
    <3>4. ASSUME acked[t] = response.at[t], t \notin interrupted PROVE FALSE
      <4>1. t \in DOMAIN check.pinned /\ check.pinned[t] \in Seq(Batches)
            /\ response.at[t] \in Seq(Batches)
        BY <1>1, <3>1 DEF InOrder, TypeOK, IsCheck, IsResponse, PerTable
      <4>2. IsPrefix(response.at[t], check.pinned[t])
        BY <3>1, <4>1 DEF LiveInv
      <4>3. IsPrefix(check.pinned[t], response.at[t])
        BY <3>4, <4>1 DEF PinnedInv, ReadTrue
      <4>4. Store!Rows(check.pinned[t]) = Store!Rows(response.at[t])
        BY <4>1, <4>2, <4>3, PrefixRows
      <4>5. Len(response.data[t]) <= Padded
        BY <3>3
      <4>6. response.data[t] = response.at[t]
        BY <1>1, <3>4, <4>5 DEF ResponseInv, Lasting
      <4> QED
        BY <3>2, <4>4, <4>6 DEF Covers
    <3> QED
      BY <3>3, <3>4
  <2>3. ASSUME NEW t \in Tables, ReadPinned(t) PROVE \E u \in response'.refs : Changed(u)'
    <3>1. check.pc = "read" /\ t \in check.left /\ OnlyCheck
      BY <1>1, <2>3, ReadOwn
    <3>2. FileOf(t) \in {Torn, Missing} /\ check'.dir = check.dir
      BY <1>1, <2>1, <2>3, ReadOwn DEF Refuses
    <3>3. t \in response.refs /\ disk[t].commit \in {Torn, Missing}
      BY <1>1, <3>1, <3>2 DEF FileOf, TypeOK, IsCheck
    <3>4. ASSUME t \notin interrupted, Store!Settled(t) PROVE FALSE
      <4>1. disk[t].dir
        BY <1>1, <3>3 DEF ResponseInv, Lasting
      <4>2. disk[t].commit = acked[t] /\ acked[t] \in Seq(Batches)
        BY <1>1, <3>4, <4>1 DEF ServiceInv, Store!Inv, Store!Undisturbed, Store!Intact,
           Store!TypeOK
      <4> QED
        BY <3>3, <4>2, StoreAssumption DEF Store!DbAssumption
    <3>5. UNCHANGED <<response, acked, interrupted, call>>
      BY <3>1 DEF OnlyCheck, storeVars
    <3>6. Store!Settled(t)' <=> Store!Settled(t)
      BY <3>5 DEF Store!Settled, Store!Running, Store!Dirty
    <3> QED
      BY <3>3, <3>4, <3>5, <3>6
  <2>4. ASSUME Begin PROVE FALSE
    BY <1>1, <2>1, <2>4, BeginOwn
  <2>5. ASSUME Serve \/ Answer \/ (\E t \in Tables : Copy(t)) \/ UNCHANGED vars PROVE FALSE
    BY <2>1, <2>5 DEF Serve, Answer, Copy, vars
  <2> QED
    BY <2>2, <2>3, <2>4, <2>5 DEF Next, VerifyCommand
<1> QED
  BY <1>2, <1>3

\* Nothing is refused at the start.
LEMMA RefusedInit == Init => RefusedOnlyIfChanged
<1> SUFFICES ASSUME Init PROVE ~Refused
  BY DEF RefusedOnlyIfChanged
<1> QED
  BY DEF Init, NotBegun, Refused, CliError, VerifyError

(***************************************************************************)
(* An honest response is refused by the service's directory only if a call *)
(* has changed one of its tables since, or failed on one, or is changing   *)
(* one while its commitment file is read.                                  *)
(***************************************************************************)
THEOREM RefusedWhenChanged == Spec => []RefusedOnlyIfChanged
<1>1. Init => PinnedInv /\ LiveInv /\ RefusedOnlyIfChanged
  BY PinnedInit, LiveInit, RefusedInit
<1>2. PinnedInv /\ LiveInv /\ RefusedOnlyIfChanged /\ [Next]_vars
         => PinnedInv' /\ LiveInv' /\ RefusedOnlyIfChanged'
  BY PinnedStep, LiveStep, RefusedStep
<1> QED
  BY <1>1, <1>2, PTL DEF Spec

(***************************************************************************)
(* A table that grew between the response and the command makes it refuse, *)
(* if no call failed on the tables: the proof is of as many rows as were   *)
(* acknowledged, the commitment of more.                                   *)
(***************************************************************************)
THEOREM StaleAreRefused == Spec => []StaleRefused
<1>1. Init => PinnedInv /\ LiveInv /\ Verdict
  BY PinnedInit, LiveInit, VerdictInit
<1>2. PinnedInv /\ LiveInv /\ Verdict /\ [Next]_vars => PinnedInv' /\ LiveInv' /\ Verdict'
  BY PinnedStep, LiveStep, VerdictStep DEF PinnedInv
<1>3. PinnedInv /\ LiveInv /\ Verdict => StaleRefused
  <2> SUFFICES ASSUME PinnedInv, LiveInv, Verdict, Accepted, check.dir = "live",
                      response.refs \cap interrupted = {}, NEW t \in check.grown
               PROVE  FALSE
    BY DEF StaleRefused
  <2>1. BaseInv /\ TypeOK /\ ResponseInv
    BY DEF PinnedInv, BaseInv, StateInv
  <2>2. t \in response.refs /\ t \notin interrupted
    BY <2>1 DEF TypeOK, IsCheck
  <2>3. t \in DOMAIN check.pinned
    BY <2>1, <2>2, AcceptedReadAll
  <2>4. Covers(check.pinned[t], response.data[t]) /\ More(t, check.pinned[t])
    BY <2>2, <2>3 DEF Verdict, LiveInv
  <2>5. Len(Store!Rows(response.data[t])) <= Len(Store!Rows(response.at[t]))
    BY <2>1, <2>2 DEF ResponseInv, Lasting
  <2>6. response.at[t] \in Seq(Batches) /\ response.data[t] \in Seq(Batches)
    BY <2>1, <2>2 DEF TypeOK, IsResponse, PerTable
  <2>7. /\ Len(Store!Rows(response.at[t])) \in Nat
        /\ Len(Store!Rows(response.data[t])) \in Nat
    BY <2>6, PrefixRows, PrefixReflexive
  <2> QED
    BY <2>4, <2>5, <2>7 DEF Covers, More
<1> QED
  BY <1>1, <1>2, <1>3, PTL DEF Spec
============================================================================
