------------------------------- MODULE MCApi -------------------------------
(***************************************************************************)
(* Finite instances of Api.  Requests differ only in what they ask for, so *)
(* they are symmetric; so are the two tables.                              *)
(***************************************************************************)
EXTENDS ApiProofs

CONSTANTS t1, t2, r1, r2, r3, good, bad, x, y

MCTables      == {t1, t2}
OneTable      == {t1}
MCSchemas     == {good, bad}
MCCommittable == {good}
MCBatches     == {<<>>, <<x>>, <<y>>}
MCCapacities  == {1, 2}

\* Everything a client may ask for, with rows that fit or do not fit a table.
AllBodies ==
         [kind: {"Create"}, t: MCTables, schema: MCSchemas]
    \cup [kind: {"Insert"}, t: MCTables, schema: MCSchemas, rows: {<<x>>}]
    \cup [kind: {"Query"}, refs: {{t1}, {t2}, MCTables}, sql: {"Fine"}]
    \cup [kind: {"Query"}, refs: {MCTables}, sql: {"Misnamed", "Unplannable", "Overflowing"}]
    \cup [kind: {"Show"}, refs: {{t1}, {t2}}]
    \cup [kind: {"List", "Health", "Refused"}]

\* One table, created, filled and read.
TableBodies ==
         [kind: {"Create"}, t: {t1}, schema: {good}]
    \cup [kind: {"Insert"}, t: {t1}, schema: {good}, rows: {<<x>>, <<y>>}]
    \cup [kind: {"Query"}, refs: {{t1}}, sql: {"Fine"}]

\* One table and a health check, for what must eventually happen.
LiveBodies ==
         [kind: {"Create"}, t: {t1}, schema: MCSchemas]
    \cup [kind: {"Insert"}, t: {t1}, schema: {good}, rows: {<<x>>}]
    \cup [kind: {"Query"}, refs: {{t1}}, sql: {"Fine"}]
    \cup [kind: {"List", "Health"}]

ThreeRequests == {r1, r2, r3}

SymmetricThree == Permutations(ThreeRequests) \cup Permutations(MCTables)
===========================================================================
