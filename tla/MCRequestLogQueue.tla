------------------------ MODULE MCRequestLogQueue ------------------------
(* Small instances of RequestLogQueue for TLC. *)
EXTENDS RequestLogQueue, TLC

CONSTANTS e1, e2, p1, p2

MCEvents2 == {e1, e2}
MCProcs == {p1, p2}
MCOneProc == {p1}
MCNone == {}
MCBad == {e2}

\* The router processes are interchangeable.
ProcSymmetry == Permutations(MCProcs)
=============================================================================
