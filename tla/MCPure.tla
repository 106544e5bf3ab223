------------------------------- MODULE MCPure -------------------------------
(***************************************************************************)
(* The parts of the program that keep no state, each over all inputs in    *)
(* its bounds: the order of file names, column types, aggregates.  A       *)
(* behaviour is about one of the three, its subject.                       *)
(*                                                                         *)
(* Names are padded to two digits of base 3.  The field is small, and the  *)
(* aggregates are two over two groups, of types with two to sixteen        *)
(* values, so that three rows can leave most of them at either end.        *)
(***************************************************************************)
EXTENDS PureProofs

VARIABLE subject

MCColumns == {"first", "second"}
MCGroups  == {1, 2}
MCValues  == {-3, 0, 1, 3}

MCFits == [type \in Integer8to128 |->
             CASE type = "Uint8"    -> 0 .. 3
               [] type = "TinyInt"  -> -2 .. 1
               [] type = "SmallInt" -> -4 .. 3
               [] OTHER             -> -8 .. 7]

PureInit ==
    /\ NoFiles
    /\ NoColumns
    /\ Init
    /\ \/ subject = "aggregates"
       \/ subject \in {"names", "columns"} /\ fields = [c \in MCColumns |-> "Other"]

PureNext ==
    /\ UNCHANGED subject
    /\ \/ /\ subject = "names"
          /\ AddFile \/ Compare
          /\ UNCHANGED <<columns, vars>>
       \/ /\ subject = "columns"
          /\ \E column \in Column : AddColumn(column)
          /\ UNCHANGED <<directory, vars>>
       \/ /\ subject = "aggregates"
          /\ Next
          /\ UNCHANGED <<directory, columns>>

PureSpec == PureInit /\ [][PureNext]_<<subject, directory, columns, vars>>
===========================================================================
