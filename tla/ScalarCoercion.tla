--------------------------- MODULE ScalarCoercion ---------------------------
(***************************************************************************)
(* The aggregates of a query (src/prove.rs).  The prover sums in a finite  *)
(* field, so a sum is never too large for it; coerce_scalars then brings   *)
(* every sum to the type its column is declared with, or fails the query.  *)
(* The field is that of the curve, so large that its ends are far from any *)
(* total the rows can have.                                                *)
(***************************************************************************)
EXTENDS Integers

CONSTANTS
    P,            \* the field's order, odd
    Columns,      \* the aggregate columns of a result
    Groups,       \* its rows, one per group
    Values,       \* what one row of a table adds to an aggregate
    Largest,      \* no value is larger than it, or smaller than its negation
    MaxRows,      \* bound: rows aggregated
    Fits          \* per integer type: the values it holds

Integer8to128 == {"Uint8", "TinyInt", "SmallInt", "Int", "BigInt", "Int128"}
Types == Integer8to128 \cup {"Decimal75", "Other"}

ASSUME FieldAssumption ==
    /\ P \in Nat /\ Largest \in Nat /\ MaxRows \in Nat
    /\ Values \subseteq -Largest .. Largest
    /\ 2 * (MaxRows * Largest) < P
    /\ Fits \in [Integer8to128 -> SUBSET Int]

VARIABLES
    fields,       \* per column: the type the plan declares
    sums,         \* per column and group: the sum in the field
    totals,       \* history, per column and group: the sum in the integers
    rows,         \* rows aggregated so far
    outcome       \* what coerce_scalars made of the sums

vars == <<fields, sums, totals, rows, outcome>>

Field == 0 .. P - 1

TypeOK ==
    /\ fields \in [Columns -> Types]
    /\ sums \in [Columns -> [Groups -> Field]]
    /\ totals \in [Columns -> [Groups -> Int]]
    /\ rows \in 0 .. MaxRows
    /\ outcome.status \in {"None", "Ok", "ScalarOverflow"}

Init ==
    /\ fields \in [Columns -> Types]
    /\ sums = [c \in Columns |-> [g \in Groups |-> 0]]
    /\ totals = [c \in Columns |-> [g \in Groups |-> 0]]
    /\ rows = 0
    /\ outcome = [status |-> "None", table |-> sums]

---------------------------------------------------------------------------
\* Mistake: a sum is not brought back into the field.
Plus_Unreduced(x, y) == x + y

\* The field element for an integer, and the field's addition.
Embed(v)   == IF v < 0 THEN P + v ELSE v
Plus(x, y) == IF x + y < P THEN x + y ELSE x + y - P

\* The row adds row[c] to column c's sum of its group.
Aggregate(g, row) ==
    /\ outcome.status = "None"
    /\ rows < MaxRows
    /\ rows' = rows + 1
    /\ sums' = [c \in Columns |-> [sums[c] EXCEPT ![g] = Plus(@, Embed(row[c]))]]
    /\ totals' = [c \in Columns |-> [totals[c] EXCEPT ![g] = @ + row[c]]]
    /\ UNCHANGED <<fields, outcome>>

---------------------------------------------------------------------------
\* Mistake: the field element is taken for the integer it is written as.
Convert_Unsigned(x) == x

\* The integer a field element stands for: the upper half are the negatives.
Convert(x) == IF 2 * x < P THEN x ELSE x - P

\* Mistake: only what is too large for the type is refused.
Coercible_Above(column, type) ==
    type \in Integer8to128 => \A g \in Groups : \E y \in Fits[type] : Convert(column[g]) <= y

(***************************************************************************)
(* coerce_scalar_column: each value of the column has to fit its type.     *)
(* Decimal75, and every type without a conversion, takes them all.         *)
(***************************************************************************)
Coercible(column, type) ==
    type \in Integer8to128 => \A g \in Groups : Convert(column[g]) \in Fits[type]

\* coerce_scalars: one column that cannot be coerced fails them all.
CoerceScalars ==
    /\ outcome.status = "None"
    /\ \/ /\ \A c \in Columns : Coercible(sums[c], fields[c])
          /\ outcome' = [status |-> "Ok",
                         table |-> [c \in Columns |-> [g \in Groups |-> Convert(sums[c][g])]]]
       \/ /\ \E c \in Columns : ~Coercible(sums[c], fields[c])
          /\ outcome' = [outcome EXCEPT !.status = "ScalarOverflow"]
    /\ UNCHANGED <<fields, sums, totals, rows>>

Next == \/ \E g \in Groups, row \in [Columns -> Values] : Aggregate(g, row)
        \/ CoerceScalars

Spec == Init /\ [][Next]_vars

---------------------------------------------------------------------------
(***************************************************************************)
(* What a query answers is the sum of its rows, in every group of every    *)
(* column, however far above or below zero the sum went on the way, and it *)
(* fits the column's type.                                                 *)
(***************************************************************************)
AnsweredExactly ==
    outcome.status = "Ok" =>
        \A c \in Columns, g \in Groups :
            /\ outcome.table[c][g] = totals[c][g]
            /\ fields[c] \in Integer8to128 => totals[c][g] \in Fits[fields[c]]

(***************************************************************************)
(* A query is refused as overflowing only if a total of it really does not *)
(* fit its column's type, and never for a decimal.                         *)
(***************************************************************************)
RefusedWhenTooLarge ==
    outcome.status = "ScalarOverflow" =>
        \E c \in Columns, g \in Groups :
            /\ fields[c] \in Integer8to128
            /\ totals[c][g] \notin Fits[fields[c]]
===========================================================================
