------------------------------ MODULE KeyPool ------------------------------
(***************************************************************************)
(* The credential pool of one built-in provider (nry, dahl, marketku; bm   *)
(* differs only in falling back on a key from the environment) inside one  *)
(* router process: the list of keys, the rotation index the concurrent     *)
(* requests share, and the operator's key and provider operations.         *)
(*                                                                         *)
(* Two kinds of request loop over the pool: POST /v1/messages (with its    *)
(* three compaction levels) and POST /v1/chat/completions.  asyncio runs   *)
(* what lies between two awaits atomically, so an action spans from one    *)
(* await of the handler to the next.                                       *)
(***************************************************************************)
EXTENDS Naturals, FiniteSets, SequencesExt

CONSTANTS
    Keys,           \* credentials the operator may pool
    InitialKeys,    \* the pool loaded at start, in id order
    Reqs,           \* inference requests
    ChatReqs,       \* those on /v1/chat/completions; the others on /v1/messages
    NoKey,          \* the empty credential of an empty pool
    AdminOps,       \* operations the operator may use
    MaxOps          \* bound: operator operations

ASSUME PoolAssumption ==
    /\ InitialKeys \in Seq(Keys)
    /\ \A i, j \in 1..Len(InitialKeys) : InitialKeys[i] = InitialKeys[j] => i = j
    /\ NoKey \notin Keys
    /\ ChatReqs \subseteq Reqs
    /\ AdminOps \subseteq {"add", "remove", "reset", "activate", "removeProvider"}
    /\ MaxOps \in Nat

VARIABLES
    keys,       \* <PROVIDER>_API_KEYS
    idx,        \* current_<provider>_key_index, counted from 0
    status,     \* key_statuses, "none" for a key without an entry
    disabled,   \* the provider is in DISABLED_PROVIDERS
    removing,   \* remove_provider is awaiting its database writes
    wiped,      \* history: the provider has been removed at least once
    at,         \* where each request is
    attempt,    \* its loop variable
    budget,     \* len(api_keys_to_use) when its loop started
    level,      \* c_idx, the compaction level
    using,      \* the key it holds
    tried,      \* history: keys tried at this level
    alone,      \* history: nobody else moved the pool since it began
    ops         \* operator operations so far

poolVars == <<keys, idx, status, disabled, removing, wiped>>
reqVars  == <<at, attempt, budget, level, using>>
vars     == <<poolVars, reqVars, tried, alone, ops>>

LastLevel == 2      \* compact_levels = [None, 20, 6]
Status    == {"none", "Active", "Standby"}
Ended     == {"served", "rejected", "exhausted", "tooLong", "indexError", "refused"}
Where     == {"idle", "upstream", "broadcast"} \cup Ended

TypeOK ==
    /\ keys \in Seq(Keys)
    /\ idx \in Nat
    /\ status \in [Keys -> Status]
    /\ disabled \in BOOLEAN
    /\ removing \in BOOLEAN
    /\ wiped \in BOOLEAN
    /\ at \in [Reqs -> Where]
    /\ attempt \in [Reqs -> Nat]
    /\ budget \in [Reqs -> Nat]
    /\ level \in [Reqs -> 0..LastLevel]
    /\ using \in [Reqs -> Keys \cup {NoKey}]
    /\ tried \in [Reqs -> SUBSET (Keys \cup {NoKey})]
    /\ alone \in [Reqs -> BOOLEAN]
    /\ ops \in Nat

\* init_state_from_db marks the first key Active when no row says so.
Init ==
    /\ keys = InitialKeys
    /\ idx = 0
    /\ status = [k \in Keys |->
                    IF k \notin ToSet(InitialKeys) THEN "none"
                    ELSE IF k = InitialKeys[1] THEN "Active" ELSE "Standby"]
    /\ disabled = FALSE /\ removing = FALSE /\ wiped = FALSE
    /\ at = [r \in Reqs |-> "idle"]
    /\ attempt = [r \in Reqs |-> 0]
    /\ budget = [r \in Reqs |-> 0]
    /\ level = [r \in Reqs |-> 0]
    /\ using = [r \in Reqs |-> NoKey]
    /\ tried = [r \in Reqs |-> {}]
    /\ alone = [r \in Reqs |-> TRUE]
    /\ ops = 0

(***************************************************************************)
(* The pool: get_current_*_key and rotate_*_key                            *)
(***************************************************************************)
\* get_current_*_key indexes the list with the stored index.
HasCurrent == keys = <<>> \/ idx < Len(keys)

CurrentKey(ks, i) == IF ks = <<>> THEN NoKey ELSE ks[i + 1]

\* Mutant: rotation never reaches the last key.
RotatedOffByOne == IF Len(keys) <= 1 THEN idx ELSE (idx + 1) % (Len(keys) - 1)

RotatedIndex == IF Len(keys) <= 1 THEN idx ELSE (idx + 1) % Len(keys)

\* rotate_*_key: the new current key becomes Active, the old one stays as is;
\* a pool of at most one key does not rotate.
Rotate ==
    /\ idx' = RotatedIndex
    /\ status' = IF Len(keys) <= 1 THEN status
                 ELSE [status EXCEPT ![keys[RotatedIndex + 1]] = "Active"]
    /\ UNCHANGED <<keys, disabled, removing, wiped>>

\* Requests other than S notice that the pool moved under them.
Disturb(S) ==
    alone' = [r \in Reqs |->
                alone[r] /\ (r \in S \/ (keys' = keys /\ idx' = idx))]

(***************************************************************************)
(* The request loops                                                       *)
(***************************************************************************)
\* Loop iteration n at compaction level c with n below the bound b: take the
\* current key and go upstream; an index past the end of the list raises
\* IndexError outside the try block.
TryNext(r, n, b, c, seen, i) ==
    /\ attempt' = [attempt EXCEPT ![r] = n]
    /\ budget' = [budget EXCEPT ![r] = b]
    /\ level' = [level EXCEPT ![r] = c]
    /\ IF n >= b
       THEN /\ at' = [at EXCEPT ![r] = "exhausted"]
            /\ tried' = [tried EXCEPT ![r] = seen]
            /\ UNCHANGED using
       ELSE IF keys # <<>> /\ i >= Len(keys)
       THEN /\ at' = [at EXCEPT ![r] = "indexError"]
            /\ tried' = [tried EXCEPT ![r] = seen]
            /\ UNCHANGED using
       ELSE /\ at' = [at EXCEPT ![r] = "upstream"]
            /\ using' = [using EXCEPT ![r] = CurrentKey(keys, i)]
            /\ tried' = [tried EXCEPT ![r] = seen \cup {CurrentKey(keys, i)}]

Finish(r, outcome) ==
    /\ at' = [at EXCEPT ![r] = outcome]
    /\ UNCHANGED <<attempt, budget, level, using, tried>>

\* The provider gate and the empty-pool check, then the first iteration.
Begin(r) ==
    /\ at[r] = "idle"
    /\ IF disabled \/ keys = <<>>
       THEN Finish(r, "refused")
       ELSE TryNext(r, 0, Len(keys), 0, {}, idx)
    /\ alone' = [alone EXCEPT ![r] = TRUE]
    /\ UNCHANGED <<poolVars, ops>>

\* 200 within the slow-response threshold.
Succeed(r) ==
    /\ at[r] = "upstream"
    /\ Finish(r, "served")
    /\ UNCHANGED <<poolVars, alone, ops>>

\* 200, but slower than SLOW_RESPONSE_THRESHOLD_MS: /v1/messages rotates.
SucceedSlowly(r) ==
    /\ at[r] = "upstream" /\ r \notin ChatReqs
    /\ Len(keys) > 1
    /\ Rotate
    /\ Finish(r, "served")
    /\ Disturb({r})
    /\ UNCHANGED ops

\* A status that is neither 200 nor retryable, or a stream broken after its
\* first chunk was relayed.
Reject(r) ==
    /\ at[r] = "upstream"
    /\ Finish(r, "rejected")
    /\ UNCHANGED <<poolVars, alone, ops>>

\* /v1/messages, 401, 402, 403, 404, 429 or 5xx: rotate, even on the last
\* attempt, and broadcast the status before the next iteration.
MessagesRetryable(r) ==
    /\ at[r] = "upstream" /\ r \notin ChatReqs
    /\ Rotate
    /\ at' = [at EXCEPT ![r] = "broadcast"]
    /\ Disturb({r})
    /\ UNCHANGED <<attempt, budget, level, using, tried, ops>>

\* /v1/messages, exception before the first chunk: the last attempt gives up,
\* where "last" is measured against the pool as it is now.
MessagesException(r) ==
    /\ at[r] = "upstream" /\ r \notin ChatReqs
    /\ IF attempt[r] + 1 = Len(keys)
       THEN /\ Finish(r, "exhausted")
            /\ UNCHANGED <<poolVars, alone>>
       ELSE /\ Rotate
            /\ at' = [at EXCEPT ![r] = "broadcast"]
            /\ Disturb({r})
            /\ UNCHANGED <<attempt, budget, level, using, tried>>
    /\ UNCHANGED ops

\* Mutant: the next iteration does not count as an attempt.
ContinueSameAttempt(r) ==
    /\ at[r] = "broadcast"
    /\ TryNext(r, attempt[r], budget[r], level[r], tried[r], idx)
    /\ UNCHANGED <<poolVars, alone, ops>>

\* The broadcast after a rotation has been awaited: next iteration.
MessagesContinue(r) ==
    /\ at[r] = "broadcast"
    /\ TryNext(r, attempt[r] + 1, budget[r], level[r], tried[r], idx)
    /\ UNCHANGED <<poolVars, alone, ops>>

\* Mutant: the key loop of the next level goes on where the last one stopped.
ContextWindowKeepsAttempt(r) ==
    /\ at[r] = "upstream" /\ r \notin ChatReqs
    /\ IF level[r] < LastLevel
       THEN TryNext(r, attempt[r], budget[r], level[r] + 1, {}, idx)
       ELSE Finish(r, "tooLong")
    /\ alone' = [alone EXCEPT ![r] = TRUE]
    /\ UNCHANGED <<poolVars, ops>>

\* A context-window error compacts harder and starts the key loop anew, or
\* gives up after the last level; it never rotates.
MessagesContextWindow(r) ==
    /\ at[r] = "upstream" /\ r \notin ChatReqs
    /\ IF level[r] < LastLevel
       THEN TryNext(r, 0, Len(keys), level[r] + 1, {}, idx)
       ELSE Finish(r, "tooLong")
    /\ alone' = [alone EXCEPT ![r] = TRUE]
    /\ UNCHANGED <<poolVars, ops>>

\* /v1/chat/completions, retryable status or exception: rotate and take the
\* next key at once, unless this attempt is the last of the pool as it is now.
ChatRetryable(r) ==
    /\ at[r] = "upstream" /\ r \in ChatReqs
    /\ IF attempt[r] + 1 < Len(keys)
       THEN /\ Rotate
            /\ TryNext(r, attempt[r] + 1, budget[r], 0, tried[r], RotatedIndex)
            /\ Disturb({r})
       ELSE /\ Finish(r, "exhausted")
            /\ UNCHANGED <<poolVars, alone>>
    /\ UNCHANGED ops

Request(r) ==
    \/ Begin(r) \/ Succeed(r) \/ SucceedSlowly(r) \/ Reject(r)
    \/ MessagesRetryable(r) \/ MessagesException(r) \/ MessagesContinue(r)
    \/ MessagesContextWindow(r) \/ ChatRetryable(r)

(***************************************************************************)
(* The operator                                                            *)
(***************************************************************************)
Operate(op) == op \in AdminOps /\ ops < MaxOps /\ ops' = ops + 1

\* Mutant: no check that the pool already holds the key.
AddUnchecked(k) ==
    /\ Operate("add")
    /\ keys' = Append(keys, k)
    /\ status' = [status EXCEPT ![k] = "Standby"]
    /\ disabled' = FALSE
    /\ UNCHANGED <<idx, removing, wiped>>

\* add_api_key: append in Standby and lift the provider's disable.
AddApiKey(k) ==
    /\ Operate("add")
    /\ k \notin ToSet(keys)
    /\ keys' = Append(keys, k)
    /\ status' = [status EXCEPT ![k] = "Standby"]
    /\ disabled' = FALSE
    /\ UNCHANGED <<idx, removing, wiped>>

\* Mutants: the index is decremented; kept; compared with one key too few.
IndexDecremented(i) == i - 1
IndexKept(i) == i
IndexOffByOne(i) == IF i < Len(keys) - 2 THEN i ELSE 0

\* The index into the list that is about to lose a key, for the index i: the
\* same, unless it points past the end.
IndexAfterRemoval(i) == IF i < Len(keys) - 1 THEN i ELSE 0

\* remove_api_key: never the last key; the current one is rotated away first.
RemoveApiKey(p) ==
    LET k == keys[p]
        i == IF p = idx + 1 THEN RotatedIndex ELSE idx
    IN  /\ Operate("remove")
        /\ Len(keys) > 1 /\ HasCurrent
        /\ keys' = RemoveAt(keys, p)
        /\ idx' = IndexAfterRemoval(i)
        /\ status' = [(IF p = idx + 1
                       THEN [status EXCEPT ![keys[RotatedIndex + 1]] = "Active"]
                       ELSE status) EXCEPT ![k] = "none"]
        /\ UNCHANGED <<disabled, removing, wiped>>

\* reset_key_status: Standby, current or not.
ResetKeyStatus(k) ==
    /\ Operate("reset")
    /\ k \in ToSet(keys)
    /\ status' = [status EXCEPT ![k] = "Standby"]
    /\ UNCHANGED <<keys, idx, disabled, removing, wiped>>

\* set_active_key: demote every Active key, then point at the chosen one.
SetActiveKey(p) ==
    /\ Operate("activate")
    /\ idx' = p - 1
    /\ status' = [k \in Keys |->
                    IF k = keys[p] THEN "Active"
                    ELSE IF k \in ToSet(keys) /\ status[k] = "Active"
                         THEN "Standby" ELSE status[k]]
    /\ UNCHANGED <<keys, disabled, removing, wiped>>

\* remove_provider up to its first await: the list is emptied, the index kept.
RemoveProvider ==
    /\ Operate("removeProvider")
    /\ ~removing
    /\ keys' = <<>>
    /\ status' = [k \in Keys |-> IF k \in ToSet(keys) THEN "none" ELSE status[k]]
    /\ removing' = TRUE /\ wiped' = TRUE
    /\ UNCHANGED <<idx, disabled>>

\* Both database writes have been awaited.
RemoveProviderDone ==
    /\ removing
    /\ removing' = FALSE
    /\ disabled' = TRUE
    /\ UNCHANGED <<keys, idx, status, wiped, ops>>

Operator ==
    /\ \/ \E k \in Keys : AddApiKey(k) \/ ResetKeyStatus(k)
       \/ \E p \in 1..Len(keys) : RemoveApiKey(p) \/ SetActiveKey(p)
       \/ RemoveProvider
       \/ RemoveProviderDone
    /\ Disturb({})
    /\ UNCHANGED <<reqVars, tried>>

Next == (\E r \in Reqs : Request(r)) \/ Operator

Spec == Init /\ [][Next]_vars

\* Upstream answers or its timeout raises (httpx timeouts), and the event loop
\* resumes a handler whose broadcast has returned.
Fairness ==
    \A r \in Reqs : WF_vars(Request(r) /\ at[r] # "idle")

FairSpec == Spec /\ Fairness

(***************************************************************************)
(* Properties                                                              *)
(***************************************************************************)
\* Until the provider is removed the shared index names a pooled key, however
\* rotations of concurrent requests and the operator's additions and removals
\* interleave: no request dies of get_current_*_key's list index.
IndexStaysInRange == ~wiped => HasCurrent

\* "Re-adding a key for the provider clears the disable": the provider serves
\* again, so the index must name one of its keys.
IndexInRange == HasCurrent

\* The pool never holds a key twice, and exactly the pooled keys have a status:
\* rotating or removing never leaves a status behind for a key that is gone.
StatusMatchesPool ==
    /\ \A i, j \in 1..Len(keys) : keys[i] = keys[j] => i = j
    /\ \A k \in Keys : status[k] # "none" <=> k \in ToSet(keys)

\* A request nobody interferes with gives up only after every key of the pool
\* has failed it: rotation reaches each key once within the attempt budget.
ExhaustedMeansAllTried ==
    \A r \in Reqs :
        at[r] = "exhausted" /\ alone[r] => ToSet(keys) \subseteq tried[r]

\* A request nobody interferes with never asks the same key twice at one level.
NoKeyTriedTwice ==
    \A r \in Reqs :
        at[r] = "upstream" /\ alone[r] =>
            Cardinality(tried[r]) = attempt[r] + 1

\* Removing a key after the current one leaves the current key in use.
RemovalKeepsCurrent ==
    [][\A p \in 1..Len(keys) :
          p > idx + 1 /\ keys' = RemoveAt(keys, p)
              => CurrentKey(keys', idx') = CurrentKey(keys, idx)]_vars

\* Whatever the operator does to the pool meanwhile, a started request ends.
RequestsEnd == \A r \in Reqs : at[r] # "idle" ~> at[r] \in Ended
=============================================================================
