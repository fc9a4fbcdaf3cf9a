----------------------------- MODULE CustomPool -----------------------------
(***************************************************************************)
(* One custom provider: its registration, its keys and the index they      *)
(* share, in memory and in the tables custom_providers and api_keys.       *)
(* Requests walk a snapshot of the keys (_dispatch_custom_provider and     *)
(* _dispatch_custom_openai) or make one attempt with the current key (the  *)
(* multimodal endpoints) while the operator adds and removes keys and the  *)
(* provider.  A step ends where the code awaits the upstream or Postgres.  *)
(***************************************************************************)
EXTENDS Naturals, FiniteSets, Bags, SequencesExt, KeyLists

CONSTANTS
    Keys,       \* keys an operator may add
    NoKey,      \* no key
    Reqs,       \* requests
    Removers,   \* calls of DELETE /api/providers that may overlap
    SavedKeys,  \* the keys of the provider when the process starts, if it exists
    MaxOps,     \* bound: operations of the operator
    MaxFaults   \* bound: writes that fail, and restarts

ASSUME CustomPoolAssumption ==
    /\ IsFiniteSet(Keys) /\ NoKey \notin Keys
    /\ SavedKeys \in Seq(Keys) /\ IsInjective(SavedKeys)
    /\ MaxOps \in Nat /\ MaxFaults \in Nat

VARIABLES
    registered, \* the prefix is in CUSTOM_PROVIDERS
    keys,       \* CUSTOM_PROVIDER_KEYS of the prefix
    idx,        \* custom_key_index of the prefix
    cooling,    \* custom_rate_limited_at is less than the cooldown ago
    adding,     \* add_custom_provider has inserted the row and not registered yet
    removing,   \* where each call of remove_provider is
    providerRow,\* the row of custom_providers
    keyRows,    \* keys in api_keys for the prefix, in the order of their ids
    writes,     \* the bag of background writes not performed yet
    phase,      \* where each request is
    plan,       \* the keys a request has snapshot, or the one it uses
    pos,        \* its position in them
    ops, faults,\* bounds
    alone,      \* history: requests nothing interfered with since they began
    disturbed,  \* history: a removal overlapped with another one, or the reply
                \* to the DELETE of its row was lost
    failed,     \* history: a write failed since the last start
    stray       \* history: keys whose row may disagree: one was written while
                \* another write for the key or its provider was under way

memory   == <<registered, keys, idx>>
tables   == <<providerRow, keyRows>>
reqVars  == <<phase, plan, pos>>
operator == <<adding, removing>>
history  == <<alone, disturbed, failed, stray>>
vars == <<memory, cooling, operator, tables, writes, reqVars, ops, faults, history>>

Held  == {keys[i] : i \in DOMAIN keys}
Saved == {keyRows[i] : i \in DOMAIN keyRows}
Write == [op : {"insert", "delete"}, key : Keys]

TypeOK ==
    /\ registered \in BOOLEAN /\ cooling \in BOOLEAN /\ adding \in BOOLEAN
    /\ keys \in Seq(Keys) /\ IsInjective(keys)
    /\ keyRows \in Seq(Keys) /\ IsInjective(keyRows)
    /\ idx \in Nat /\ (keys # <<>> => idx < Len(keys))
    /\ ~registered => keys = <<>>
    /\ removing \in [Removers -> {"idle", "keys", "provider"}]
    /\ IsABag(writes) /\ BagToSet(writes) \subseteq Write
    /\ phase \in [Reqs -> {"idle", "walk", "json", "multipart"}]
    /\ alone \subseteq Reqs

\* init_state_from_db: the process starts with what the tables hold.
Load ==
    /\ registered' = providerRow
    /\ keys' = IF providerRow THEN keyRows ELSE <<>>
    /\ idx' = 0

Init ==
    /\ providerRow \in BOOLEAN
    /\ keyRows = IF providerRow THEN SavedKeys ELSE <<>>
    /\ registered = providerRow /\ keys = keyRows /\ idx = 0
    /\ cooling = FALSE
    /\ adding = FALSE /\ removing = [d \in Removers |-> "idle"]
    /\ writes = EmptyBag
    /\ phase = [r \in Reqs |-> "idle"]
    /\ plan = [r \in Reqs |-> <<>>] /\ pos = [r \in Reqs |-> 0]
    /\ ops = 0 /\ faults = 0
    /\ alone = {} /\ disturbed = FALSE /\ failed = FALSE /\ stray = {}

(***************************************************************************)
(* The index                                                               *)
(***************************************************************************)
Current == IF keys = <<>> THEN NoKey ELSE keys[(idx % Len(keys)) + 1]

RotatedIndex(ks, i) == IF Len(ks) <= 1 THEN i ELSE (i + 1) % Len(ks)

\* rotate_custom_key.
Rotate == idx' = RotatedIndex(keys, idx)

(***************************************************************************)
(* Requests that walk the keys                                             *)
(***************************************************************************)
\* Mutant: the walk starts with the first key.
SnapshotFromFirst == keys

\* The keys, beginning with the current one.
Snapshot == [i \in 1..Len(keys) |-> keys[((idx + i - 1) % Len(keys)) + 1]]

Busy == {r \in Reqs : phase[r] # "idle"}

Start(r, kind, ks) ==
    /\ phase[r] = "idle" /\ registered /\ keys # <<>>
    /\ phase' = [phase EXCEPT ![r] = kind]
    /\ plan' = [plan EXCEPT ![r] = ks]
    /\ pos' = [pos EXCEPT ![r] = 1]
    /\ alone' = IF Busy = {} THEN {r} ELSE {}
    /\ UNCHANGED <<memory, cooling, operator, tables, writes, ops, faults, disturbed, failed, stray>>

Dispatch(r) == Start(r, "walk", Snapshot)

Finish(r) ==
    /\ phase' = [phase EXCEPT ![r] = "idle"]
    /\ plan' = [plan EXCEPT ![r] = <<>>]
    /\ pos' = [pos EXCEPT ![r] = 0]
    /\ alone' = alone \ {r}

\* The key answers, or fails with an error no other key would cure.
Settle(r) ==
    /\ phase[r] = "walk"
    /\ Finish(r)
    /\ UNCHANGED <<memory, cooling, operator, tables, writes, ops, faults, disturbed, failed, stray>>

\* The key fails, and another may not.
Retry(r) ==
    /\ phase[r] = "walk"
    /\ IF pos[r] < Len(plan[r])
       THEN Rotate /\ pos' = [pos EXCEPT ![r] = @ + 1] /\ UNCHANGED <<phase, plan, alone>>
       ELSE UNCHANGED idx /\ Finish(r)
    /\ UNCHANGED <<registered, keys, cooling, operator, tables, writes, ops, faults,
                   disturbed, failed, stray>>

(***************************************************************************)
(* Multimodal requests: one attempt with the current key                   *)
(***************************************************************************)
\* A JSON request is turned away while the pool cools down.
ForwardJson(r) == ~cooling /\ Start(r, "json", <<Current>>)

ForwardMultipart(r) == Start(r, "multipart", <<Current>>)

\* An answer, or an error another key would not cure.
Forwarded(r) ==
    /\ phase[r] \in {"json", "multipart"}
    /\ Finish(r)
    /\ UNCHANGED <<memory, cooling, operator, tables, writes, ops, faults, disturbed, failed, stray>>

\* A failure of the key: the next request gets another one, if the provider
\* is still there, and a rate limit (429, 503) of a JSON request starts the
\* cooldown of the whole pool.
ForwardFails(r, limited) ==
    /\ phase[r] \in {"json", "multipart"}
    /\ IF registered THEN Rotate ELSE UNCHANGED idx
    /\ cooling' = (cooling \/ (limited /\ registered /\ phase[r] = "json"))
    /\ Finish(r)
    /\ UNCHANGED <<registered, keys, operator, tables, writes, ops, faults, disturbed, failed, stray>>

CooldownEnds ==
    /\ cooling /\ cooling' = FALSE
    /\ UNCHANGED <<memory, operator, tables, writes, reqVars, ops, faults, history>>

(***************************************************************************)
(* Background writes                                                       *)
(***************************************************************************)
Insert(k) == [op |-> "insert", key |-> k]
Delete(k) == [op |-> "delete", key |-> k]

Pending(k) == {w \in BagToSet(writes) : w.key = k} # {}

\* key_value is unique; a statement that fails is printed and forgotten.
Perform(w) ==
    /\ w \in BagToSet(writes) /\ writes' = writes (-) SetToBag({w})
    /\ \/ /\ keyRows' = IF w.op = "delete" THEN Without(keyRows, w.key)
                        ELSE IF w.key \in Saved THEN keyRows
                        ELSE Append(keyRows, w.key)
          /\ UNCHANGED <<faults, failed>>
       \/ /\ faults < MaxFaults /\ faults' = faults + 1
          /\ failed' = TRUE
          /\ UNCHANGED keyRows
    /\ UNCHANGED <<memory, cooling, operator, providerRow, reqVars, ops, alone, disturbed, stray>>

(***************************************************************************)
(* The operator                                                            *)
(***************************************************************************)
Operate == ops < MaxOps /\ ops' = ops + 1

Removing == {d \in Removers : removing[d] # "idle"}

\* add_api_key.
AddApiKey(k) ==
    /\ Operate
    /\ registered /\ k \notin Held
    /\ keys' = Append(keys, k)
    /\ writes' = writes (+) SetToBag({Insert(k)})
    /\ stray' = IF Pending(k) \/ Removing # {} THEN stray \cup {k} ELSE stray
    /\ alone' = {}
    /\ UNCHANGED <<registered, idx, cooling, operator, tables, reqVars, faults, disturbed, failed>>

\* Mutant: the index is left where it was.
IndexAfterRemovalKept(ks, i, k) == i

\* remove_custom_key: modulo the shorter list, and on to the next key if the
\* current one goes.
IndexAfterRemoval(ks, i, k) ==
    LET left == Without(ks, k)
        at   == i % (IF left = <<>> THEN 1 ELSE Len(left))
    IN  IF ks[(i % Len(ks)) + 1] = k THEN RotatedIndex(left, at) ELSE at

\* Mutant: the row of the key stays.
RemoveCustomKeyUnsaved(k) ==
    /\ Operate
    /\ k \in Held
    /\ keys' = Without(keys, k)
    /\ idx' = IndexAfterRemoval(keys, idx, k)
    /\ alone' = {}
    /\ UNCHANGED <<stray, registered, cooling, operator, tables, writes, reqVars, faults, disturbed, failed>>

RemoveCustomKey(k) ==
    /\ Operate
    /\ k \in Held
    /\ keys' = Without(keys, k)
    /\ idx' = IndexAfterRemoval(keys, idx, k)
    /\ writes' = writes (+) SetToBag({Delete(k)})
    /\ stray' = IF Pending(k) THEN stray \cup {k} ELSE stray
    /\ alone' = {}
    /\ UNCHANGED <<registered, cooling, operator, tables, reqVars, faults, disturbed, failed>>

\* Mutant: the provider is registered before its row is inserted.
RegisterFirst ==
    /\ Operate
    /\ ~registered /\ ~adding /\ ~providerRow
    /\ registered' = TRUE /\ keys' = <<>> /\ idx' = 0 /\ adding' = TRUE
    /\ UNCHANGED <<cooling, removing, tables, writes, reqVars, faults, history>>

\* add_custom_provider up to its INSERT, which a row of that prefix refuses.
InsertProvider ==
    /\ Operate
    /\ ~registered /\ ~adding /\ ~providerRow
    /\ providerRow' = TRUE /\ adding' = TRUE
    /\ UNCHANGED <<memory, cooling, removing, keyRows, writes, reqVars, faults, history>>

RegisterProvider ==
    /\ adding /\ adding' = FALSE
    /\ registered' = TRUE /\ keys' = <<>> /\ idx' = 0
    /\ UNCHANGED <<cooling, removing, tables, writes, reqVars, ops, faults, history>>

\* The reply to the INSERT is lost: the row stays, the provider is not there.
AddProviderFails ==
    /\ adding /\ adding' = FALSE
    /\ faults < MaxFaults /\ faults' = faults + 1
    /\ failed' = TRUE
    /\ UNCHANGED <<memory, cooling, removing, tables, writes, reqVars, ops, alone, disturbed, stray>>

\* remove_provider deletes the keys' rows, then the provider's, and drops the
\* provider from memory last.
RemoveProvider(d) ==
    /\ Operate
    /\ registered /\ removing[d] = "idle"
    /\ removing' = [removing EXCEPT ![d] = "keys"]
    /\ disturbed' = (disturbed \/ Removing # {})
    /\ stray' = stray \cup {k \in Keys : Pending(k)}
    /\ alone' = {}
    /\ UNCHANGED <<memory, cooling, adding, tables, writes, reqVars, faults, failed>>

DeleteKeyRows(d) ==
    /\ removing[d] = "keys"
    /\ removing' = [removing EXCEPT ![d] = "provider"]
    /\ keyRows' = <<>>
    /\ UNCHANGED <<memory, cooling, adding, providerRow, writes, reqVars, ops, faults, history>>

DeleteProviderRow(d) ==
    /\ removing[d] = "provider"
    /\ removing' = [removing EXCEPT ![d] = "idle"]
    /\ providerRow' = FALSE
    /\ registered' = FALSE /\ keys' = <<>> /\ idx' = 0
    /\ alone' = {}
    /\ UNCHANGED <<cooling, adding, keyRows, writes, reqVars, ops, faults, disturbed, failed, stray>>

\* Postgres fails one of the two statements, or applies it and its reply is
\* lost: the call ends with an error and leaves memory as it is.
RemovalFails(d) ==
    /\ removing[d] # "idle"
    /\ faults < MaxFaults /\ faults' = faults + 1
    /\ removing' = [removing EXCEPT ![d] = "idle"]
    /\ \/ UNCHANGED <<tables, disturbed>>
       \/ removing[d] = "keys" /\ keyRows' = <<>> /\ UNCHANGED <<providerRow, disturbed>>
       \/ removing[d] = "provider" /\ providerRow' = FALSE /\ disturbed' = TRUE /\ UNCHANGED keyRows
    /\ failed' = TRUE
    /\ UNCHANGED <<memory, cooling, adding, writes, reqVars, ops, alone, stray>>

\* The process stops with all it was doing, and loads the tables.
Restart ==
    /\ faults < MaxFaults /\ faults' = faults + 1
    /\ Load
    /\ cooling' = FALSE /\ adding' = FALSE
    /\ removing' = [d \in Removers |-> "idle"]
    /\ writes' = EmptyBag
    /\ phase' = [r \in Reqs |-> "idle"]
    /\ plan' = [r \in Reqs |-> <<>>] /\ pos' = [r \in Reqs |-> 0]
    /\ alone' = {} /\ disturbed' = FALSE /\ failed' = FALSE
    /\ stray' = IF providerRow THEN {} ELSE Saved
    /\ UNCHANGED <<tables, ops>>

Serve(r) ==
    \/ Dispatch(r) \/ Settle(r) \/ Retry(r)
    \/ ForwardJson(r) \/ ForwardMultipart(r) \/ Forwarded(r)
    \/ \E limited \in BOOLEAN : ForwardFails(r, limited)

Operator ==
    \/ \E k \in Keys : AddApiKey(k) \/ RemoveCustomKey(k)
    \/ InsertProvider \/ RegisterProvider \/ AddProviderFails
    \/ \E d \in Removers :
        RemoveProvider(d) \/ DeleteKeyRows(d) \/ DeleteProviderRow(d) \/ RemovalFails(d)

Next ==
    \/ \E r \in Reqs : Serve(r)
    \/ CooldownEnds
    \/ \E w \in Write : Perform(w)
    \/ Operator
    \/ Restart

Spec == Init /\ [][Next]_vars

(***************************************************************************)
(* Properties                                                              *)
(***************************************************************************)
\* A request that nothing interferes with moves the shared index along with
\* its own walk over the snapshot: the key it is trying is the provider's
\* current key, so the key that answers it is where the next request begins.
LoneRequestLandsOnCurrent ==
    \A r \in alone : plan[r][pos[r]] = Current

\* A provider that requests can reach has its row, so that a restart finds
\* it, except while it is being removed, and except after two removals
\* overlapped or the last reply to one was lost: the later removal then deletes
\* the row of a provider that was added again in between, and the unanswered one
\* leaves a provider without its row.
RegisteredIsSaved ==
    registered /\ Removing = {} /\ ~disturbed => providerRow

\* Once every background write is done and no operation under way, memory and
\* api_keys hold the same keys, apart from keys whose writes ran side by side
\* with others for the same key or with the removal of the provider.
QuietTableMatchesMemory ==
    writes = EmptyBag /\ Removing = {} /\ ~failed /\ ~disturbed =>
        Saved \ stray = Held \ stray
=============================================================================
