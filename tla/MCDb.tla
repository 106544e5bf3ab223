------------------------------- MODULE MCDb -------------------------------
(***************************************************************************)
(* Finite instances of Db.  Two tables, two schemas a commitment can be    *)
(* built for and one it cannot, batches of no, one and two rows, and       *)
(* capacities of one and three rows: an insert can be the one that no      *)
(* longer fits, and a restart can bring the room or take it away.          *)
(***************************************************************************)
EXTENDS LedgerProofs

CONSTANTS t1, t2, c1, good, other, bad, x, y

MCTables      == {t1, t2}
MCCallers     == {c1}
MCSchemas     == {good, other, bad}
MCCommittable == {good, other}
MCBatches     == {<<>>, <<x>>, <<y, x>>}
MCCapacities  == {1, 3}

\* One table with one schema, to follow it through many inserts.
OneTable  == {t1}
OneSchema == {good}
OneRow    == {<<>>, <<x>>, <<y>>}
Ample     == {4}

\* Tables are alike, and so are the schemas a commitment can be built for.
Symmetric == Permutations(MCTables) \cup Permutations(MCCommittable)
===========================================================================
