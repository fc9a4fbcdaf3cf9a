--------------------------- MODULE MigrationDrain ---------------------------
(***************************************************************************)
(* The cutover gate of a router process: the middleware that admits an     *)
(* inference request or answers 503, the count of admitted requests the    *)
(* operator watches while draining, and PUT /api/operations/drain, which   *)
(* moves the gate in memory at once and in server_config afterwards.       *)
(***************************************************************************)
EXTENDS Naturals, FiniteSets

CONSTANTS
    Reqs,           \* inference requests
    Puts,           \* calls of PUT /api/operations/drain
    Wanted,         \* the value each of them sets
    MaxRestarts     \* bound: restarts

ASSUME DrainAssumption ==
    /\ IsFiniteSet(Reqs)
    /\ Wanted \in [Puts -> BOOLEAN]
    /\ MaxRestarts \in Nat

VARIABLES
    draining,   \* MIGRATION_DRAIN_ENABLED
    saved,      \* server_config.migration_drain_enabled
    active,     \* active_inference_requests
    at,         \* where each request is
    put,        \* where each PUT is
    raced,      \* history: in the life of this process two PUTs overlapped, or
                \* the write of one failed
    restarts    \* restarts so far

gateVars == <<draining, saved, put, raced>>
vars == <<gateVars, active, at, restarts>>

Where    == {"idle", "handling", "relaying", "done", "refused", "lost"}
PutState == {"idle", "saving", "answered", "failed", "lost"}

TypeOK ==
    /\ draining \in BOOLEAN /\ saved \in BOOLEAN /\ raced \in BOOLEAN
    /\ active \in Nat
    /\ at \in [Reqs -> Where]
    /\ put \in [Puts -> PutState]
    /\ restarts \in 0..MaxRestarts

\* A process that starts loads the gate from the database.
Init ==
    /\ saved \in BOOLEAN /\ draining = saved /\ raced = FALSE
    /\ active = 0
    /\ at = [r \in Reqs |-> "idle"]
    /\ put = [p \in Puts |-> "idle"]
    /\ restarts = 0

(***************************************************************************)
(* The middleware                                                          *)
(***************************************************************************)
InService(r) == at[r] \in {"handling", "relaying"}

\* Mutant: requests are admitted whatever the gate.
EnterUngated(r) ==
    /\ at[r] = "idle"
    /\ at' = [at EXCEPT ![r] = "handling"]
    /\ active' = active + 1
    /\ UNCHANGED <<gateVars, restarts>>

\* The gate is read and the request counted without an await in between.
Enter(r) ==
    /\ at[r] = "idle"
    /\ IF draining
       THEN /\ at' = [at EXCEPT ![r] = "refused"]
            /\ UNCHANGED active
       ELSE /\ at' = [at EXCEPT ![r] = "handling"]
            /\ active' = active + 1
    /\ UNCHANGED <<gateVars, restarts>>

\* Mutant: an exception of the handler is not counted down.
RaiseUncounted(r) ==
    /\ at[r] = "handling"
    /\ at' = [at EXCEPT ![r] = "done"]
    /\ UNCHANGED <<active, gateVars, restarts>>

Raise(r) ==
    /\ at[r] = "handling"
    /\ at' = [at EXCEPT ![r] = "done"]
    /\ active' = active - 1
    /\ UNCHANGED <<gateVars, restarts>>

\* call_next returned a response: its body is wrapped, streamed or not.
Respond(r) ==
    /\ at[r] = "handling"
    /\ at' = [at EXCEPT ![r] = "relaying"]
    /\ UNCHANGED <<active, gateVars, restarts>>

\* Mutant: a broken body is counted down where it breaks and in the finally.
BodyEndsTwice(r) ==
    /\ at[r] = "relaying"
    /\ at' = [at EXCEPT ![r] = "done"]
    /\ active' \in {active - 1, active - 2}
    /\ UNCHANGED <<gateVars, restarts>>

\* The finally of _tracked_body: the body ended, broke or was abandoned.
BodyEnds(r) ==
    /\ at[r] = "relaying"
    /\ at' = [at EXCEPT ![r] = "done"]
    /\ active' = active - 1
    /\ UNCHANGED <<gateVars, restarts>>

Request(r) == Enter(r) \/ Raise(r) \/ Respond(r) \/ BodyEnds(r)

(***************************************************************************)
(* set_migration_drain                                                     *)
(***************************************************************************)
\* Mutant: the gate moves in memory only.
SetDrainUnsaved(p) ==
    /\ put[p] = "idle"
    /\ draining' = Wanted[p]
    /\ put' = [put EXCEPT ![p] = "answered"]
    /\ UNCHANGED <<saved, raced, active, at, restarts>>

\* The assignment, up to the await of the upsert.
SetDrain(p) ==
    /\ put[p] = "idle"
    /\ draining' = Wanted[p]
    /\ put' = [put EXCEPT ![p] = "saving"]
    /\ raced' = (raced \/ \E q \in Puts : put[q] = "saving")
    /\ UNCHANGED <<saved, active, at, restarts>>

\* Upserts of two PUTs use two connections and commit in either order.
SaveDrain(p) ==
    /\ put[p] = "saving"
    /\ saved' = Wanted[p]
    /\ put' = [put EXCEPT ![p] = "answered"]
    /\ UNCHANGED <<draining, raced, active, at, restarts>>

\* Postgres failed, before or after committing; the operator gets a 500 and
\* the gate stays where the assignment put it.
SaveDrainFails(p) ==
    /\ put[p] = "saving"
    /\ saved' \in {saved, Wanted[p]}
    /\ put' = [put EXCEPT ![p] = "failed"]
    /\ raced' = TRUE
    /\ UNCHANGED <<draining, active, at, restarts>>

\* The process stops, with its requests and its PUTs, and init_state_from_db
\* loads the gate; an upsert on its way may have been committed.
Restart ==
    /\ restarts < MaxRestarts
    /\ restarts' = restarts + 1
    /\ saved' \in {saved} \cup {Wanted[p] : p \in {q \in Puts : put[q] = "saving"}}
    /\ draining' = saved'
    /\ raced' = FALSE
    /\ active' = 0
    /\ at' = [r \in Reqs |-> IF InService(r) THEN "lost" ELSE at[r]]
    /\ put' = [p \in Puts |-> IF put[p] = "saving" THEN "lost" ELSE put[p]]

Next ==
    \/ \E r \in Reqs : Request(r)
    \/ \E p \in Puts : SetDrain(p) \/ SaveDrain(p) \/ SaveDrainFails(p)
    \/ Restart

Spec == Init /\ [][Next]_vars

\* A handler returns or raises (its upstream calls have timeouts), and a
\* response body ends or its client leaves.
Fairness == \A r \in Reqs : WF_vars(Raise(r) \/ Respond(r) \/ BodyEnds(r))

FairSpec == Spec /\ Fairness

(***************************************************************************)
(* Properties                                                              *)
(***************************************************************************)
\* The count the operator watches is the number of requests in service, however
\* they end: zero means that nothing is left to wait for.
ActiveCountsInService == active = Cardinality({r \in Reqs : InService(r)})

\* While the gate stays closed the count only falls: a request whose handler
\* the middleware has not entered yet cannot slip in behind the operator's back.
DrainingOnlyShrinks == [][draining /\ draining' => active' <= active]_vars

\* "Persist a cutover gate so a restart cannot accidentally reopen writes": with
\* no PUT under way, and unless two overlapped or a write failed, a restart
\* finds the gate where it is.
GateIsSaved ==
    ~raced /\ (\A p \in Puts : put[p] # "saving") => saved = draining

\* A gate that stays closed drains the process in the end.
DrainCompletes == <>[]draining => <>[](active = 0)
=============================================================================
