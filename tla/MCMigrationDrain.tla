-------------------------- MODULE MCMigrationDrain --------------------------
(* A small instance of MigrationDrain for TLC. *)
EXTENDS MigrationDrain, TLC

CONSTANTS r1, r2, r3, p1, p2, p3

MCReqs == {r1, r2, r3}
MCPuts == {p1, p2, p3}

\* Two calls close the gate, one opens it.
MCWanted == p1 :> TRUE @@ p2 :> FALSE @@ p3 :> TRUE
=============================================================================
