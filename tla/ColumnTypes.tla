---------------------------- MODULE ColumnTypes ----------------------------
(***************************************************************************)
(* The column types of the API (src/column.rs) and the way a table's       *)
(* columns take: POST /tables parses their SQL type names into a schema,   *)
(* the commitment keeps the schema in types of its own, and GET            *)
(* /tables/{table} names those again.                                      *)
(***************************************************************************)
EXTENDS Naturals, Sequences

CONSTANTS
    Names,        \* column names
    MaxColumns    \* bound: columns of a table

VARIABLE columns  \* the columns of a POST /tables body, as typed so far

(***************************************************************************)
(* A type as it is typed: a word and what follows it, a size in            *)
(* parentheses, UNSIGNED, or any other text.                               *)
(***************************************************************************)
Words == {"BOOLEAN", "BOOL", "TINYINT", "SMALLINT", "INT", "INTEGER", "BIGINT",
          "VARCHAR", "TEXT", "STRING", "FLOAT", "not a type"}
Tails == {"", "(10)", "UNSIGNED", "nonsense"}

Column == [name: Names, word: Words, tail: Tails]

NoColumns == columns = <<>>

AddColumn(column) ==
    /\ Len(columns) < MaxColumns
    /\ columns' = Append(columns, column)

---------------------------------------------------------------------------
Unsupported == "UnsupportedType"

(***************************************************************************)
(* sqlparser's parse_data_type takes the longest type the text starts with *)
(* and leaves the rest of the text alone.  Sizes are part of the type, and *)
(* so is UNSIGNED after an integer.                                        *)
(***************************************************************************)
IntegerWords == {"TINYINT", "SMALLINT", "INT", "INTEGER", "BIGINT"}

Parsed(column) ==
    IF column.word \in IntegerWords /\ column.tail = "UNSIGNED"
    THEN "unsigned integer" ELSE column.word

\* parse_column_type: a size is dropped.
ParseColumnType(column) ==
    LET parsed == Parsed(column) IN
    CASE parsed \in {"BOOLEAN", "BOOL"}            -> "Boolean"
      [] parsed = "TINYINT"                        -> "Int8"
      [] parsed = "SMALLINT"                       -> "Int16"
      [] parsed \in {"INT", "INTEGER"}             -> "Int32"
      [] parsed = "BIGINT"                         -> "Int64"
      [] parsed \in {"VARCHAR", "TEXT", "STRING"}  -> "Utf8"
      [] OTHER                                     -> Unsupported

\* Mistake: two integer types get each other's neighbour's name.
ColumnTypeName_Widened(type) ==
    CASE type = "Boolean" -> "BOOLEAN"
      [] type = "Int8"    -> "SMALLINT"
      [] type = "Int16"   -> "INT"
      [] type = "Int32"   -> "INT"
      [] type = "Int64"   -> "BIGINT"
      [] type = "Utf8"    -> "VARCHAR"
      [] OTHER            -> Unsupported

ColumnTypeName(type) ==
    CASE type = "Boolean" -> "BOOLEAN"
      [] type = "Int8"    -> "TINYINT"
      [] type = "Int16"   -> "SMALLINT"
      [] type = "Int32"   -> "INT"
      [] type = "Int64"   -> "BIGINT"
      [] type = "Utf8"    -> "VARCHAR"
      [] OTHER            -> Unsupported

---------------------------------------------------------------------------
\* create: every column's type has to be supported, or the answer is 400.
Accepted(body) == \A k \in DOMAIN body : ParseColumnType(body[k]) # Unsupported

Fields(body) ==
    [k \in DOMAIN body |-> [name |-> body[k].name, type |-> ParseColumnType(body[k])]]

\* Two columns of one name cannot be committed to: Db's Committable.
CanCommit(body) == \A j, k \in DOMAIN body : body[j].name = body[k].name => j = k

\* The commitment's column metadata: the prover's type for an arrow type, and
\* the arrow type for the prover's.
CommittedTypes == [Boolean |-> "Boolean", Int8 |-> "TinyInt", Int16 |-> "SmallInt",
                   Int32 |-> "Int", Int64 |-> "BigInt", Utf8 |-> "VarChar"]

DataTypeOf(committed) ==
    CHOOSE type \in DOMAIN CommittedTypes : CommittedTypes[type] = committed

Metadata(fields) ==
    [k \in DOMAIN fields |-> [name |-> fields[k].name,
                              type |-> CommittedTypes[fields[k].type]]]

\* show: the columns GET /tables/{table} answers for a table created by body.
Show(body) ==
    LET metadata == Metadata(Fields(body)) IN
    [k \in DOMAIN metadata |-> [name |-> metadata[k].name, tail |-> "",
                                word |-> ColumnTypeName(DataTypeOf(metadata[k].type))]]

---------------------------------------------------------------------------
(***************************************************************************)
(* A table can be made again from its own description: what GET            *)
(* /tables/{table} shows of a table that was created is accepted by POST   *)
(* /tables and gives the same fields in the same order, whichever of its   *)
(* names each type was created by.                                         *)
(***************************************************************************)
Recreatable ==
    Accepted(columns) /\ CanCommit(columns)
        => /\ Accepted(Show(columns))
           /\ Fields(Show(columns)) = Fields(columns)
===========================================================================
