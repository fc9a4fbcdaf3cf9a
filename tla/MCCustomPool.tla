---------------------------- MODULE MCCustomPool ----------------------------
(* A small instance of CustomPool for TLC. *)
EXTENDS CustomPool

CONSTANTS k1, k2, k3, r1, r2, d1, d2

MCKeys      == {k1, k2, k3}
MCReqs      == {r1, r2}
MCRemovers  == {d1, d2}
MCSavedKeys == <<k1, k2, k3>>

Symmetry == Permutations(MCReqs) \cup Permutations(MCRemovers)
=============================================================================
