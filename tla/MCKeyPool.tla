----------------------------- MODULE MCKeyPool -----------------------------
(* Small instances of KeyPool for TLC. *)
EXTENDS KeyPool

CONSTANTS k1, k2, k3, r1, r2

MCKeys == {k1, k2, k3}
MCTwoKeys == <<k1, k2>>
MCReqs == {r1, r2}
MCChat == {r2}
MCAllOps == {"add", "remove", "reset", "activate", "removeProvider"}
=============================================================================
