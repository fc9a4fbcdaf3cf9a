--------------------------- MODULE RequestJournal ---------------------------
(***************************************************************************)
(* What the request-log pipeline promises, without Redis, workers or       *)
(* batches: every finished call is an event that is logged once, waits in  *)
(* a queue and is stored for good.  A queued event is given up only when   *)
(* its payload cannot be decoded or when the bounded queue evicted it; an  *)
(* event not queued yet can be lost with its process.                      *)
(***************************************************************************)
CONSTANTS Events, Malformed

VARIABLES
    journal,    \* where each event stands
    evicted     \* events the bounded queue pushed out

vars == <<journal, evicted>>

State == {"unlogged", "logging", "queued", "stored", "dropped"}

\* A step of one event, evictions of the same step included.
Advance(e, from, to) ==
    \/ from = to
    \/ from = "unlogged" /\ to = "logging"
    \/ from = "logging" /\ to \in {"queued", "stored", "dropped"}
    \/ from = "queued" /\ to = "stored"
    \/ from = "queued" /\ to = "dropped" /\ e \in Malformed \cup evicted'

Init ==
    /\ journal = [e \in Events |-> "unlogged"]
    /\ evicted = {}

Next ==
    /\ evicted \subseteq evicted' /\ evicted' \subseteq Events
    /\ journal' \in [Events -> State]
    /\ \A e \in Events : Advance(e, journal[e], journal'[e])

Spec == Init /\ [][Next]_vars
=============================================================================
