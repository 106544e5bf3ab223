------------------------------- MODULE Audit -------------------------------
(***************************************************************************)
(* `sxt-enterprise verify` (src/cli.rs, src/verify.rs) beside a service    *)
(* that goes on writing.  A response of the service is saved; an auditor   *)
(* may copy the commitment files, one after the other, at any time; and    *)
(* one verify reads the pinned commitments, one file after the other,      *)
(* without the service's mutex, and checks the response's proof by them.   *)
(*                                                                         *)
(* The service is Db with one call at a time, as Api shows it is.          *)
(***************************************************************************)
EXTENDS SequencesExt

CONSTANTS
    Tables, Callers, Schemas, Committable, Batches, Capacities, Torn, Missing,
    MaxFiles, MaxFaults, Radix, Padded      \* as in Db and BatchNames

VARIABLES
    disk, call, powers, faults, acked, interrupted,     \* as in Db
    response,     \* the saved response of POST /query
    copy,         \* per table: the copied commitment file
    uncopied,     \* tables whose file the auditor has not copied
    check,        \* the verify command: where it is and what it has read
    agreed        \* history: tables whose acknowledged rows were, at some
                  \* moment since the response was made, those of its proof

\* The store, with what is proved of it.
Store == INSTANCE DbProofs

ASSUME StoreAssumption == Store!DbAssumption /\ Store!NamesAssumption

storeVars == <<disk, call, powers, faults, acked, interrupted>>
vars == <<disk, call, powers, faults, acked, interrupted,
          response, copy, uncopied, check, agreed>>

(***************************************************************************)
(* A response names its tables, and has a proof, which is about the        *)
(* tables' data, and the commitments read with it.  `at` is history: what  *)
(* was acknowledged when it was made.                                      *)
(***************************************************************************)
NoResponse == [made |-> FALSE, refs |-> {}, data |-> <<>>, commits |-> <<>>,
               at |-> <<>>]

(***************************************************************************)
(* The SQL verify is given, next to the response: the statement that was   *)
(* proved, another one over tables of the response, one that names a table *)
(* the response does not, or text that is not one statement.               *)
(***************************************************************************)
Sql == {"Proved", "Another", "Wider", "Several"}

(***************************************************************************)
(* Where the commitments are taken from: the service's data directory, the *)
(* auditor's copy, or, when there is no directory, the response itself.    *)
(***************************************************************************)
Dirs == {"live", "copy", "absent"}

VerifyError == {"StatementCount", "UnknownTable", "Plan", "Verify"}
CliError    == VerifyError \cup {"Io", "Decode"}

\* `grown` is history: the tables with more rows acknowledged when the command
\* began than when the response was made.
NotBegun(dir) == [pc |-> "idle", dir |-> dir, sql |-> "Proved", left |-> {},
                  pinned |-> <<>>, result |-> "None", grown |-> {}]

PerTable(f, tables) == DOMAIN f = tables /\ \A t \in tables : f[t] \in Seq(Batches)

IsResponse(r) ==
    /\ r.made \in BOOLEAN /\ r.refs \subseteq Tables
    /\ PerTable(r.data, r.refs) /\ PerTable(r.commits, r.refs) /\ PerTable(r.at, r.refs)

IsCheck(k) ==
    /\ DOMAIN k = DOMAIN NotBegun("live")
    /\ k.pc \in {"idle", "read", "check", "done"} /\ k.dir \in Dirs /\ k.sql \in Sql
    /\ k.left \subseteq response.refs /\ k.grown \subseteq response.refs
    /\ PerTable(k.pinned, IF k.pc = "idle" THEN {} ELSE response.refs \ k.left)
    /\ k.result \in CliError \cup {"None", "Ok"}

TypeOK ==
    /\ Store!TypeOK
    /\ IsResponse(response)
    /\ copy \in [Tables -> Seq(Batches) \cup {Torn, Missing}]
    /\ uncopied \subseteq Tables
    /\ IsCheck(check)
    /\ agreed \subseteq response.refs

Init ==
    /\ Store!Init
    /\ response = NoResponse
    /\ copy = [t \in Tables |-> Missing]
    /\ uncopied = Tables
    /\ \E dir \in Dirs : check = NotBegun(dir)
    /\ agreed = {}

---------------------------------------------------------------------------
\* The tables of the response r whose rows, as proved, are those of accounts.
Agreeing(r, accounts) ==
    {t \in r.refs : Store!Rows(accounts[t]) = Store!Rows(r.data[t])}

(***************************************************************************)
(* The service runs a call, except that one it turns away at once, which   *)
(* changes nothing, is left out.  It is followed as long as a file of its  *)
(* is still to be read: every property holds of what was read by then.     *)
(***************************************************************************)
Serve ==
    /\ \/ check.pc = "idle"
       \/ check.pc = "read" /\ check.dir = "live"
    /\ Store!Next
    /\ Store!Quiet => ~Store!Quiet' \/ faults' # faults
    /\ agreed' = agreed \cup Agreeing(response, acked')
    /\ UNCHANGED <<response, copy, uncopied, check>>

\* POST /query answers 200, under one hold of the mutex (see Api).
Answer ==
    /\ ~response.made
    /\ Store!Quiet
    /\ \E refs \in SUBSET Tables :
          /\ \A t \in refs :
                /\ Store!DataError(disk[t]) = "Ok"
                /\ Store!CommitmentError(disk[t]) = "Ok"
                /\ Len(Store!Rows(Store!DataOf(disk[t]))) <= powers
          /\ response' = [made    |-> TRUE,
                          refs    |-> refs,
                          data    |-> [t \in refs |-> Store!DataOf(disk[t])],
                          commits |-> [t \in refs |-> disk[t].commit],
                          at      |-> [t \in refs |-> acked[t]]]
    /\ agreed' = Agreeing(response', acked)
    /\ UNCHANGED <<storeVars, copy, uncopied, check>>

\* The auditor copies a commitment file, whatever is in it just then.
Copy(t) ==
    /\ check.pc = "idle" /\ check.dir = "copy"
    /\ t \in uncopied
    /\ copy' = [copy EXCEPT ![t] = disk[t].commit]
    /\ uncopied' = uncopied \ {t}
    /\ UNCHANGED <<storeVars, response, check, agreed>>

---------------------------------------------------------------------------
(***************************************************************************)
(* The verify command.                                                     *)
(***************************************************************************)
Ends(result) == check' = [check EXCEPT !.pc = "done", !.result = result]

\* Rows of t were acknowledged since the response was made.
Grew(t) == Len(Store!Rows(acked[t])) > Len(Store!Rows(response.at[t]))

Begin ==
    /\ check.pc = "idle"
    /\ response.made
    /\ LET own  == check.dir = "absent"
           left == IF own THEN {} ELSE response.refs
       IN  check' = [check EXCEPT !.pc = IF left = {} THEN "check" ELSE "read",
                                  !.left = left,
                                  !.pinned = IF own THEN response.commits ELSE <<>>,
                                  !.grown = {t \in response.refs : Grew(t)}]
    /\ UNCHANGED <<storeVars, response, copy, uncopied, agreed>>

\* Mistake: a commitment file is only looked for, and not decoded.
ReadPinned_Undecoded(t) ==
    LET file == IF check.dir = "live" THEN disk[t].commit ELSE copy[t] IN
    /\ check.pc = "read"
    /\ t \in check.left
    /\ file # Missing
    /\ check' = [check EXCEPT !.left = @ \ {t},
                             !.pinned = [u \in {t} \cup DOMAIN @ |->
                                            IF u = t THEN file ELSE @[u]],
                             !.pc = IF check.left = {t} THEN "check" ELSE "read"]
    /\ UNCHANGED <<storeVars, response, copy, uncopied, agreed>>

\* pinned_commitment, for the next table of the response, in any order.
ReadPinned(t) ==
    LET file == IF check.dir = "live" THEN disk[t].commit ELSE copy[t] IN
    /\ check.pc = "read"
    /\ t \in check.left
    /\ CASE file = Missing -> Ends("Io")
         [] file = Torn    -> Ends("Decode")
         [] OTHER          -> check' =
               [check EXCEPT !.left = @ \ {t},
                             !.pinned = [u \in {t} \cup DOMAIN @ |->
                                            IF u = t THEN file ELSE @[u]],
                             !.pc = IF check.left = {t} THEN "check" ELSE "read"]
    /\ UNCHANGED <<storeVars, response, copy, uncopied, agreed>>

\* Mistakes: a commitment to the leading rows of a table is enough, or one to
\* more rows than the proof is about.
Covers_Leading(pinned, data) == IsPrefix(Store!Rows(pinned), Store!Rows(data))
Covers_AtLeast(pinned, data) == IsPrefix(Store!Rows(data), Store!Rows(pinned))

\* The proof's rows are those the commitment is of.
Covers(pinned, data) == Store!Rows(pinned) = Store!Rows(data)

(***************************************************************************)
(* verify::verify.  Another statement than the proved one may have no plan *)
(* over the tables, and the proof is not a proof of it.                    *)
(***************************************************************************)
Verify(sql, pinned) ==
    CASE sql = "Several" -> {"StatementCount"}
      [] sql = "Wider"   -> {"UnknownTable"}
      [] sql = "Another" -> {"Plan", "Verify"}
      [] sql = "Proved"  ->
             IF \A t \in response.refs : Covers(pinned[t], response.data[t])
             THEN {"Ok"} ELSE {"Verify"}

\* The SQL the command was given, first looked at here.
Check ==
    /\ check.pc = "check"
    /\ \E sql \in Sql : \E result \in Verify(sql, check.pinned) :
          check' = [check EXCEPT !.pc = "done", !.sql = sql, !.result = result]
    /\ UNCHANGED <<storeVars, response, copy, uncopied, agreed>>

VerifyCommand == \/ Begin
                 \/ \E t \in Tables : ReadPinned(t)
                 \/ Check

Next == \/ Serve
        \/ Answer
        \/ \E t \in Tables : Copy(t)
        \/ VerifyCommand
        \/ check.pc = "done" /\ UNCHANGED vars

Spec == Init /\ [][Next]_vars

---------------------------------------------------------------------------
Accepted == check.result = "Ok"
Refused  == check.result \in CliError

(***************************************************************************)
(* A response is accepted only if its proof is about rows the service has  *)
(* acknowledged, all of them and no others, for every one of its tables at *)
(* some moment since it was made: whatever was written, half written or    *)
(* restarted between the proof and the reading of each commitment file,    *)
(* and however old a copy of them is.                                      *)
(***************************************************************************)
AcceptedRowsWereCommitted == Accepted => response.refs \subseteq agreed

\* The names' padding orders the files of the response's tables.
InPadding == \A t \in response.refs : Len(response.data[t]) <= Padded

(***************************************************************************)
(* An honest response is refused, with its own statement and by the        *)
(* service's own directory, only if one of its tables has changed since:   *)
(* a file caught while it is written belongs to a table that changes.      *)
(* (Of tables with no more files than the names' padding can order.)       *)
(***************************************************************************)
RefusedOnlyIfChanged ==
    Refused /\ check.dir = "live" /\ check.sql = "Proved" /\ InPadding
        => \E t \in response.refs : \/ acked[t] # response.at[t]
                                    \/ t \in interrupted
                                    \/ ~Store!Settled(t)

(***************************************************************************)
(* A commitment that was read or copied stays one to the leading batches   *)
(* of its table, whatever the service does afterwards.                     *)
(***************************************************************************)
PinnedStaysTrue ==
    /\ \A t \in DOMAIN check.pinned : IsPrefix(check.pinned[t], acked[t])
    /\ \A t \in Tables : copy[t] \notin {Torn, Missing} => IsPrefix(copy[t], acked[t])

(***************************************************************************)
(* A response proved before an insert is refused by the directory that has *)
(* grown since, if no failed call has touched its tables.                  *)
(***************************************************************************)
StaleRefused ==
    Accepted /\ check.dir = "live" /\ response.refs \cap interrupted = {}
        => check.grown = {}

(***************************************************************************)
(* What README.md says, without the exception: "A response proved before   *)
(* an insert will not verify against a commitments directory that has      *)
(* since grown".  Rows of an insert that failed are in the proof; when the *)
(* client repeats the insert, the commitment catches up with them.         *)
(***************************************************************************)
GrownRefuses ==
    Accepted /\ check.dir = "live" => check.grown = {}
===========================================================================
