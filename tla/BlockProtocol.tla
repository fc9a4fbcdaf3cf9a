--------------------------- MODULE BlockProtocol ---------------------------
(***************************************************************************)
(* The content-block protocol of an Anthropic message stream, as the       *)
(* comment that opens stream_as_anthropic states it: "only one content     *)
(* block may be open at a time, and once a block is stopped its index is   *)
(* never reused".  This is what a strict client accepts, whatever the      *)
(* translator does to get there.                                           *)
(***************************************************************************)
VARIABLES
    stage,      \* where the message is
    open,       \* indexes of the blocks started and not stopped
    kinds,      \* the kind of every block started so far, by index
    written     \* <<block, kind>> of the deltas of the last step

protocolVars == <<stage, open, kinds, written>>

Init ==
    /\ stage = "idle"
    /\ open = {} /\ kinds = <<>> /\ written = {}

\* message_start, once.
Begin ==
    /\ stage = "idle" /\ stage' = "body"
    /\ written' = {} /\ UNCHANGED <<open, kinds>>

\* A block that is open gets deltas of its own kind.
DeltasFit == written' \subseteq {<<b, kinds'[b]>> : b \in open'}

\* At most one block is started, under an index no block had, and the block
\* that was open is stopped before it.
Switch ==
    \E b \in open' :
        /\ open' = {b}
        /\ b \notin DOMAIN kinds
        /\ DOMAIN kinds' = DOMAIN kinds \cup {b}
        /\ \A x \in DOMAIN kinds : kinds'[x] = kinds[x]

Body ==
    /\ stage = "body" /\ stage' = "body"
    /\ \/ UNCHANGED <<open, kinds>>
       \/ open' = {} /\ UNCHANGED kinds
       \/ Switch
    /\ DeltasFit

\* message_stop: no block is left open.
Finish ==
    /\ stage = "body" /\ stage' = "done"
    /\ open' = {} /\ written' = {} /\ UNCHANGED kinds

\* An error event, or the end of the bytes without a message_stop.
Break ==
    /\ stage \in {"idle", "body"} /\ stage' \in {"errored", "cut"}
    /\ written' = {} /\ UNCHANGED <<open, kinds>>

Next == Begin \/ Body \/ Finish \/ Break

Spec == Init /\ [][Next]_protocolVars
=============================================================================
