------------------------------- MODULE Ledger -------------------------------
(***************************************************************************)
(* What the store of src/db.rs promises, with every call a single step: a  *)
(* table is made at once or abandoned half way, and a batch is appended to *)
(* the table's rows and to what its commitment covers together, or strays: *)
(* it joins the rows only, or damages the data, and the client is told     *)
(* that it failed.  No files, no steps of a call, no crashes.              *)
(*                                                                         *)
(* Nothing here takes a batch away or puts an old one elsewhere, and       *)
(* nothing but an append adds to what is covered.                          *)
(***************************************************************************)
EXTENDS Sequences

CONSTANTS
    Tables,       \* table references
    Batches,      \* record batches
    Damaged       \* what cannot be read of a table's data

VARIABLE ledger   \* per table: what became of it

(***************************************************************************)
(* made      the name is taken                                             *)
(* rows      the batches a query's data is made of, damaged ones included  *)
(* covered   the batches the commitment is of                              *)
(* open      the table takes batches                                       *)
(***************************************************************************)
Account == [made: BOOLEAN, rows: Seq(Batches \cup {Damaged}),
            covered: Seq(Batches), open: BOOLEAN]

Nothing == [made |-> FALSE, rows |-> <<>>, covered |-> <<>>, open |-> FALSE]

Init == ledger = [t \in Tables |-> Nothing]

Becomes(t, account) == ledger' = [ledger EXCEPT ![t] = account]

\* create_table answers Ok: the table has one batch, of no rows.
Create(t) ==
    /\ ~ledger[t].made
    /\ Becomes(t, [made |-> TRUE, rows |-> << <<>> >>, covered |-> << <<>> >>,
                   open |-> TRUE])

\* insert answers Ok.
Extend(t, new) ==
    /\ ledger[t].open
    /\ Becomes(t, [ledger[t] EXCEPT !.rows = Append(@, new),
                                    !.covered = Append(@, new)])

\* create_table fails after it took the name: the table never opens.
Abandon(t) ==
    /\ ~ledger[t].made
    /\ \E rows \in {<<>>, << <<>> >>, <<Damaged>>} :
          Becomes(t, [made |-> TRUE, rows |-> rows, covered |-> <<>>, open |-> FALSE])

(***************************************************************************)
(* insert fails after it changed the table: its rows are in the data and   *)
(* not covered, and the table may have closed, or the data is damaged.     *)
(***************************************************************************)
Stray(t, new) ==
    /\ ledger[t].open
    /\ \/ \E open \in BOOLEAN :
             Becomes(t, [ledger[t] EXCEPT !.rows = Append(@, new), !.open = open])
       \/ Becomes(t, [ledger[t] EXCEPT !.rows = Append(@, Damaged)])

Next == \E t \in Tables :
            /\ ledger'[t] # ledger[t]
            /\ \/ Create(t)
               \/ Abandon(t)
               \/ \E new \in Batches : Extend(t, new) \/ Stray(t, new)

Spec == Init /\ [][Next]_ledger
===========================================================================
