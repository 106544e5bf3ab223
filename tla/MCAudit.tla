------------------------------ MODULE MCAudit ------------------------------
(***************************************************************************)
(* Finite instances of Audit: two tables of one schema, batches of no and  *)
(* one row, and one refused operation or restart.                          *)
(***************************************************************************)
EXTENDS AuditProofs, TLC

CONSTANTS t1, t2, c1, good, x

MCTables     == {t1, t2}
OneTable     == {t1}
MCCallers    == {c1}
MCSchemas    == {good}
MCBatches    == {<<>>, <<x>>}
MCCapacities == {2}

Symmetric == Permutations(MCTables)
===========================================================================
