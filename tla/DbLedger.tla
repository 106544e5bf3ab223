------------------------------ MODULE DbLedger ------------------------------
(***************************************************************************)
(* The store of Db implements the ledger: seen from outside, a call that   *)
(* is interrupted anywhere has done one of the four things the ledger      *)
(* allows or nothing, and nothing else ever happens to a table.            *)
(*                                                                         *)
(* A call takes effect when it ends: until then its directory or its file  *)
(* is left out of the view.                                                *)
(***************************************************************************)
EXTENDS Db

\* The files of t that the call changing it, if there is one, found there.
FilesKept(t) ==
    IF Settled(t) THEN disk[t].files
    ELSE LET c == CHOOSE c \in Callers : Running(c) /\ call[c].t = t
         IN  SubSeq(disk[t].files, 1, call[c].n)

\* create_table is under way: it has made the directory, and no file is kept.
BeingMade(t) == ~Settled(t) /\ FilesKept(t) = <<>>

\* What a query finds in files.
Shown(files) == [k \in 1 .. Len(files) |-> IF files[k] = Torn THEN Torn ELSE files[k].batch]

View(t) ==
    [made    |-> disk[t].dir /\ ~BeingMade(t),
     rows    |-> Shown(FilesKept(t)),
     covered |-> IF Readable(disk[t]) THEN disk[t].commit ELSE acked[t],
     open    |-> /\ disk[t].dir /\ ~BeingMade(t)
                 /\ ~Settled(t) \/ Readable(disk[t])]

Abstract == INSTANCE Ledger WITH ledger <- [t \in Tables |-> View(t)], Damaged <- Torn

(***************************************************************************)
(* Every behaviour of the store's calls, each stopped at any file          *)
(* operation or run to its end, is one of the ledger: what was acknowledged*)
(* is in the rows and covered, a failure never touches anything but the    *)
(* batch or the table of the call that failed, and a table whose creation  *)
(* failed never takes a batch.                                             *)
(***************************************************************************)
ImplementsLedger == Abstract!Spec
===========================================================================
