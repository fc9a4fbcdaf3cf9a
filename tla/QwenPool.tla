------------------------------ MODULE QwenPool ------------------------------
(***************************************************************************)
(* The Qwen Cloud credential pool.  Unlike the other built-in providers it *)
(* keeps one cursor per model, excludes key/model pairs whose quota is     *)
(* gone and keys upstream has rejected, and saves both so that they        *)
(* survive a restart.  The saves are background tasks (_bg) on a           *)
(* connection pool: nothing orders them, one that fails is printed and     *)
(* forgotten, and a process that stops loses those it has not performed.   *)
(***************************************************************************)
EXTENDS Naturals, FiniteSets, Bags, SequencesExt, KeyLists

CONSTANTS
    Keys,           \* credentials the operator may pool
    InitialKeys,    \* api_keys at the first start, in id order
    EnvKeys,        \* QWEN_CLOUD_API_KEYS, pooled again at every start
    Models,         \* upstream models
    Reqs,           \* inference requests
    ChatReqs,       \* those on /v1/chat/completions
    ImageReqs,      \* those on /v1/messages that name an image model
    NativeReqs,     \* those on the image, speech and video endpoints; all the
                    \* others are on /v1/messages
    ModelOf,        \* the model each request names
    NoKey,          \* no credential
    LastLevel,      \* the last compaction level: 2, compact_levels = [None, 20, 6]
    AdminOps,       \* operations the operator may use
    MaxRequests,    \* bound: requests begun
    MaxOps,         \* bound: operator operations
    MaxRestarts,    \* bound: restarts
    MaxDropped      \* bound: background writes that fail, in one life

ASSUME QwenAssumption ==
    /\ InitialKeys \in Seq(Keys) /\ EnvKeys \in Seq(Keys)
    /\ \A i, j \in 1..Len(InitialKeys) : InitialKeys[i] = InitialKeys[j] => i = j
    /\ \A i, j \in 1..Len(EnvKeys) : EnvKeys[i] = EnvKeys[j] => i = j
    /\ ToSet(EnvKeys) \subseteq ToSet(InitialKeys)
    /\ NoKey \notin Keys
    /\ ChatReqs \subseteq Reqs /\ ImageReqs \subseteq Reqs \ ChatReqs
    /\ NativeReqs \subseteq Reqs \ (ChatReqs \cup ImageReqs)
    /\ IsFiniteSet(Reqs) /\ MaxRequests \in Nat
    /\ ModelOf \in [Reqs -> Models]
    /\ AdminOps \subseteq {"add", "remove", "reset", "activate", "removeProvider"}
    /\ LastLevel \in Nat
    /\ MaxOps \in Nat /\ MaxRestarts \in Nat /\ MaxDropped \in Nat

VARIABLES
    keys,       \* QC_API_KEYS
    idx,        \* current_qc_key_index
    status,     \* key_statuses, "none" for a key without an entry
    failed,     \* qc_model_failures, as pairs
    cursor,     \* qc_model_key_index
    disabled,   \* the provider is in DISABLED_PROVIDERS
    removing,   \* what a call of remove_provider awaits, or "idle"
    rows,       \* api_keys: the qc keys in id order
    rowStatus,  \* api_keys.status
    rowFailed,  \* qc_model_exhaustions
    rowDisabled, \* the provider is in disabled_providers
    writes,     \* the bag of background writes not performed yet
    dropped,    \* history: background writes that failed in this life
    at,         \* where each request is
    attempt,    \* its loop variable
    budget,     \* len(api_keys_to_use) when its loop started
    level,      \* c_idx, the compaction level
    using,      \* the key it holds
    tried,      \* history: keys it tried at this level
    rejected,   \* history: keys upstream rejected, in the life of this
                \* process, since the operator last put them in service
    wiped,      \* history: the provider was removed in this life
    ops,        \* operator operations so far
    restarts    \* restarts so far

gate    == <<disabled, removing, wiped>>
memory  == <<keys, idx, status, failed, cursor, gate>>
tables  == <<rows, rowStatus, rowFailed, rowDisabled>>
reqVars == <<at, attempt, budget, level, using, tried>>
vars    == <<memory, tables, writes, dropped, reqVars, rejected, ops, restarts>>

Status    == {"none", "Active", "Standby", "Invalid"}
Ended     == {"served", "rejected", "failed", "exhausted", "tooLong", "refused", "raised", "lost"}
Where     == {"idle", "upstream", "between"} \cup Ended
Write     == [op : {"insert", "delete", "clear", "Active", "Standby", "Invalid"}, key : Keys]
             \cup [op : {"mark"}, key : Keys, model : Models]
             \cup [op : {"enable"}]

TypeOK ==
    /\ keys \in Seq(Keys) /\ rows \in Seq(Keys)
    /\ idx \in Nat
    /\ status \in [Keys -> Status] /\ rowStatus \in [Keys -> Status]
    /\ failed \subseteq Keys \X Models /\ rowFailed \subseteq Keys \X Models
    /\ cursor \in [Models -> Nat]
    /\ disabled \in BOOLEAN /\ rowDisabled \in BOOLEAN /\ wiped \in BOOLEAN
    /\ removing \in {"idle", "keys", "provider"}
    /\ IsABag(writes) /\ BagToSet(writes) \subseteq Write /\ dropped \subseteq Write
    /\ at \in [Reqs -> Where]
    /\ attempt \in [Reqs -> Nat] /\ budget \in [Reqs -> Nat]
    /\ level \in [Reqs -> 0..LastLevel]
    /\ using \in [Reqs -> Keys \cup {NoKey}]
    /\ tried \in [Reqs -> SUBSET Keys]
    /\ rejected \subseteq Keys
    /\ ops \in 0..MaxOps /\ restarts \in 0..MaxRestarts

(***************************************************************************)
(* Start: init_state_from_db                                               *)
(***************************************************************************)
\* The place of an environment key.
Place(k) == CHOOSE i \in 1..Len(EnvKeys) : EnvKeys[i] = k

\* The list a start loads: the keys of the table, then those of the environment
\* it lacks, in their order.
Loads(table, pool) ==
    /\ Len(pool) >= Len(table) /\ \A i \in 1..Len(table) : pool[i] = table[i]
    /\ IsInjective(pool)
    /\ ToSet(pool) = ToSet(table) \cup ToSet(EnvKeys)
    /\ \A i, j \in Len(table) + 1..Len(pool) : i < j => Place(pool[i]) < Place(pool[j])

LoadedStatus(table, saved) ==
    [k \in Keys |-> IF k \in ToSet(table) THEN saved[k]
                    ELSE IF k \in ToSet(EnvKeys) THEN "Standby" ELSE "none"]

\* The first Active key is current; failing one, the first key is made Active.
ActiveIndices(pool, st) == {i \in 1..Len(pool) : st[pool[i]] = "Active"}

StartIndex(pool, st) ==
    IF ActiveIndices(pool, st) = {} THEN 0 ELSE Min(ActiveIndices(pool, st)) - 1

StartStatus(pool, st) ==
    IF pool = <<>> \/ ActiveIndices(pool, st) # {} THEN st
    ELSE [st EXCEPT ![pool[1]] = "Active"]

\* A fresh database: the initial keys in Standby, then a first start.
Init ==
    LET st == [k \in Keys |-> IF k \in ToSet(InitialKeys) THEN "Standby" ELSE "none"]
    IN  /\ keys = InitialKeys /\ rows = InitialKeys
        /\ idx = 0
        /\ status = StartStatus(InitialKeys, st) /\ rowStatus = status
        /\ failed = {} /\ rowFailed = {}
        /\ cursor = [m \in Models |-> 0]
        /\ disabled = FALSE /\ removing = "idle" /\ wiped = FALSE /\ rowDisabled = FALSE
        /\ writes = EmptyBag /\ dropped = {}
        /\ at = [r \in Reqs |-> "idle"]
        /\ attempt = [r \in Reqs |-> 0] /\ budget = [r \in Reqs |-> 0]
        /\ level = [r \in Reqs |-> 0]
        /\ using = [r \in Reqs |-> NoKey]
        /\ tried = [r \in Reqs |-> {}]
        /\ rejected = {}
        /\ ops = 0 /\ restarts = 0

(***************************************************************************)
(* Background writes                                                       *)
(***************************************************************************)
Row(op, k) == [op |-> op, key |-> k]
Mark(k, m) == [op |-> "mark", key |-> k, model |-> m]
Enable == [op |-> "enable"]

\* _bg: the handler goes on without them.
Save(W) == writes' = writes (+) SetToBag(W)

\* The statement of a write on the tables: the plain INSERT fails on a key that
\* exists, a mark fails on one that does not (the foreign key), both with no
\* more than a log line; a delete cascades to the marks.
Execute(w) ==
    CASE w.op = "insert" ->
           /\ rows' = IF w.key \in ToSet(rows) THEN rows ELSE Append(rows, w.key)
           /\ rowStatus' = IF w.key \in ToSet(rows) THEN rowStatus
                           ELSE [rowStatus EXCEPT ![w.key] = "Standby"]
           /\ UNCHANGED <<rowFailed, rowDisabled>>
      [] w.op = "delete" ->
           /\ rows' = Without(rows, w.key)
           /\ rowStatus' = [rowStatus EXCEPT ![w.key] = "none"]
           /\ rowFailed' = {f \in rowFailed : f[1] # w.key}
           /\ UNCHANGED rowDisabled
      [] w.op = "mark" ->
           /\ rowFailed' = IF w.key \in ToSet(rows) THEN rowFailed \cup {<<w.key, w.model>>}
                           ELSE rowFailed
           /\ UNCHANGED <<rows, rowStatus, rowDisabled>>
      [] w.op = "clear" ->
           /\ rowFailed' = {f \in rowFailed : f[1] # w.key}
           /\ UNCHANGED <<rows, rowStatus, rowDisabled>>
      [] w.op = "enable" ->
           /\ rowDisabled' = FALSE
           /\ UNCHANGED <<rows, rowStatus, rowFailed>>
      [] OTHER ->
           /\ rowStatus' = IF w.key \in ToSet(rows) THEN [rowStatus EXCEPT ![w.key] = w.op]
                           ELSE rowStatus
           /\ UNCHANGED <<rows, rowFailed, rowDisabled>>

\* Any pending write may be the next to reach the database.
PerformWrite ==
    /\ \E w \in BagToSet(writes) : Execute(w) /\ writes' = writes (-) SetToBag({w})
    /\ UNCHANGED <<memory, dropped, reqVars, rejected, ops, restarts>>

\* Postgres is away, or no connection is free in time: _bg prints the error and
\* nobody tries again.  (One that failed after it was applied is PerformWrite.)
WriteFails ==
    /\ \E w \in BagToSet(writes) :
          /\ Cardinality(dropped \cup {w}) <= MaxDropped
          /\ dropped' = dropped \cup {w}
          /\ writes' = writes (-) SetToBag({w})
    /\ UNCHANGED <<memory, tables, reqVars, rejected, ops, restarts>>

(***************************************************************************)
(* The pool: get_current_qc_key_for_model, rotate_qc_key_for_model         *)
(***************************************************************************)
\* The keys neither Invalid nor exhausted for the model.
Usable(m, st, fl) == {k \in ToSet(keys) : st[k] # "Invalid" /\ <<k, m>> \notin fl}

\* The index of the first usable key met from distance d of index i, round the
\* ring; only applied when one is usable.
Scan(i, d, usable) ==
    LET At(o) == (i + o) % Len(keys)
        found == {o \in d..d + Len(keys) - 1 : keys[At(o) + 1] \in usable}
    IN  At(Min(found))

CursorIndex(m) == cursor[m] % Len(keys)

\* Mutant: rotation starts from the shared cursor, not from the key that failed.
RotatedFromCursor(m, k, usable) ==
    IF usable = {} THEN cursor
    ELSE [cursor EXCEPT ![m] = Scan(CursorIndex(m), 1, usable)]

\* rotate_qc_key_for_model(m, after_key = k): the cursor afterwards.
Rotated(m, k, usable) ==
    IF usable = {} THEN cursor
    ELSE LET from == IF k \in ToSet(keys)
                     THEN (CHOOSE i \in 1..Len(keys) : keys[i] = k) - 1
                     ELSE CursorIndex(m)
         IN  [cursor EXCEPT ![m] = Scan(from, 1, usable)]

\* What upstream says of the key: no more quota for the model (402, 429, or an
\* error that says so), a rejected credential (401 and 403 saying so), both, or
\* only that the request may be retried.
Verdict == SUBSET {"quota", "invalid"}

\* mark_qc_key_invalid does nothing for a key that left the pool meanwhile.
Quarantines(verdict, k) == "invalid" \in verdict /\ k \in ToSet(keys)

\* Mutant: a quarantine is not saved.
OnlyMarks(verdict, k, m) == IF "quota" \in verdict THEN {Mark(k, m)} ELSE {}

\* What is saved of a failure of key k for model m.
Saved(verdict, k, m) ==
    (IF "quota" \in verdict THEN {Mark(k, m)} ELSE {})
    \cup (IF Quarantines(verdict, k) THEN {Row("Invalid", k)} ELSE {})

\* Mutant: the pair is recorded the wrong way round.
LearntSwapped(verdict, k, m) ==
    /\ failed' = IF "quota" \in verdict THEN failed \cup {<<m, k>>} ELSE failed
    /\ Save(Saved(verdict, k, m))
    /\ UNCHANGED <<keys, idx, status, gate>>

\* What the process learns from a failure of key k for model m, and saves.
Learnt(verdict, k, m) ==
    /\ status' = IF Quarantines(verdict, k)
                 THEN [status EXCEPT ![k] = "Invalid"] ELSE status
    /\ failed' = IF "quota" \in verdict THEN failed \cup {<<k, m>>} ELSE failed
    /\ Save(Saved(verdict, k, m))
    /\ UNCHANGED <<keys, idx, gate>>

Observed(verdict, k) ==
    rejected' = IF "invalid" \in verdict THEN rejected \cup {k} ELSE rejected

(***************************************************************************)
(* The request loops                                                       *)
(***************************************************************************)
\* Iteration n at compaction level c, with cursors cur and the given usable
\* keys: stop at the bound b, give up when no key is usable, else take the
\* first usable key from the cursor on, which it moves there.
TryNext(r, n, b, c, seen, cur, usable) ==
    LET m == ModelOf[r]
    IN  /\ attempt' = [attempt EXCEPT ![r] = n]
        /\ budget' = [budget EXCEPT ![r] = b]
        /\ level' = [level EXCEPT ![r] = c]
        /\ IF n >= b \/ usable = {}
           THEN /\ at' = [at EXCEPT ![r] = IF n >= b THEN "failed" ELSE "exhausted"]
                /\ tried' = [tried EXCEPT ![r] = seen]
                /\ cursor' = cur
                /\ UNCHANGED using
           ELSE LET i == Scan(cur[m] % Len(keys), 0, usable)
                IN  /\ at' = [at EXCEPT ![r] = "upstream"]
                    /\ cursor' = [cur EXCEPT ![m] = i]
                    /\ using' = [using EXCEPT ![r] = keys[i + 1]]
                    /\ tried' = [tried EXCEPT ![r] = seen \cup {keys[i + 1]}]

Finish(r, outcome) ==
    /\ at' = [at EXCEPT ![r] = outcome]
    /\ UNCHANGED <<attempt, budget, level, using, tried, cursor>>

LearnNothing == UNCHANGED <<keys, idx, status, failed, gate, writes>>

Begin(r) ==
    /\ at[r] = "idle"
    /\ Cardinality({q \in Reqs : at[q] # "idle"}) < MaxRequests
    /\ IF disabled \/ keys = <<>> THEN Finish(r, "refused")
       ELSE TryNext(r, 0, Len(keys), 0, {}, cursor, Usable(ModelOf[r], status, failed))
    /\ LearnNothing
    /\ UNCHANGED <<tables, rejected, ops, restarts>>

\* 200, or a status that is not retryable.
Answer(r) ==
    /\ at[r] = "upstream"
    /\ \E outcome \in {"served", "rejected"} : Finish(r, outcome)
    /\ LearnNothing
    /\ UNCHANGED <<tables, rejected, ops, restarts>>

MessageReqs == Reqs \ (ChatReqs \cup ImageReqs \cup NativeReqs)

\* /v1/messages: learn and rotate, even on the last attempt, and await either
\* the end of the upstream response or a broadcast before the next iteration.
MessagesRetryable(r) ==
    /\ at[r] = "upstream" /\ r \in MessageReqs
    /\ \E verdict \in Verdict :
          /\ Learnt(verdict, using[r], ModelOf[r])
          /\ Observed(verdict, using[r])
    /\ cursor' = Rotated(ModelOf[r], using[r], Usable(ModelOf[r], status', failed'))
    /\ at' = [at EXCEPT ![r] = "between"]
    /\ UNCHANGED <<attempt, budget, level, using, tried, tables, ops, restarts>>

\* /v1/messages, exception: the last attempt, measured against the pool as it
\* is now, gives up; the others rotate and learn nothing.
MessagesException(r) ==
    /\ at[r] = "upstream" /\ r \in MessageReqs
    /\ IF attempt[r] + 1 = Len(keys)
       THEN Finish(r, "failed")
       ELSE /\ cursor' = Rotated(ModelOf[r], using[r], Usable(ModelOf[r], status, failed))
            /\ at' = [at EXCEPT ![r] = "between"]
            /\ UNCHANGED <<attempt, budget, level, using, tried>>
    /\ LearnNothing
    /\ UNCHANGED <<tables, rejected, ops, restarts>>

MessagesContinue(r) ==
    /\ at[r] = "between"
    /\ TryNext(r, attempt[r] + 1, budget[r], level[r], tried[r], cursor,
               Usable(ModelOf[r], status, failed))
    /\ LearnNothing
    /\ UNCHANGED <<tables, rejected, ops, restarts>>

\* /v1/messages, context window exceeded: compact harder and start the key loop
\* anew, or give up after the last level.
MessagesContextWindow(r) ==
    /\ at[r] = "upstream" /\ r \in MessageReqs
    /\ IF level[r] < LastLevel
       THEN TryNext(r, 0, Len(keys), level[r] + 1, {}, cursor,
                    Usable(ModelOf[r], status, failed))
       ELSE Finish(r, "tooLong")
    /\ LearnNothing
    /\ UNCHANGED <<tables, rejected, ops, restarts>>

\* /v1/chat/completions: the last attempt of the pool as it is now neither
\* learns nor rotates; the others learn, rotate and take the next key at once.
ChatRetryable(r) ==
    /\ at[r] = "upstream" /\ r \in ChatReqs
    /\ \E verdict \in Verdict :
          /\ Observed(verdict, using[r])
          /\ IF attempt[r] + 1 < Len(keys)
             THEN LET usable == Usable(ModelOf[r], status', failed')
                  IN  /\ Learnt(verdict, using[r], ModelOf[r])
                      /\ TryNext(r, attempt[r] + 1, budget[r], 0, tried[r],
                                 Rotated(ModelOf[r], using[r], usable), usable)
             ELSE Finish(r, "failed") /\ LearnNothing
    /\ UNCHANGED <<tables, ops, restarts>>

\* An image model on /v1/messages: every failure is learnt from; the next key
\* is taken at once, or the loop ends when none is usable.
ImageRetryable(r) ==
    /\ at[r] = "upstream" /\ r \in ImageReqs
    /\ \E verdict \in Verdict :
          /\ Observed(verdict, using[r])
          /\ Learnt(verdict, using[r], ModelOf[r])
    /\ LET usable == Usable(ModelOf[r], status', failed')
       IN  IF usable = {} THEN Finish(r, "failed")
           ELSE TryNext(r, attempt[r] + 1, budget[r], 0, tried[r],
                        Rotated(ModelOf[r], using[r], usable), usable)
    /\ UNCHANGED <<tables, ops, restarts>>

\* Its connection fails: the exception leaves the handler.
ImageException(r) ==
    /\ at[r] = "upstream" /\ r \in ImageReqs
    /\ Finish(r, "raised")
    /\ LearnNothing
    /\ UNCHANGED <<tables, rejected, ops, restarts>>

\* The image, speech and video endpoints make one attempt with the model's
\* key; a failure, of the connection too, rotates and teaches nothing.
NativeFails(r) ==
    /\ at[r] = "upstream" /\ r \in NativeReqs
    /\ at' = [at EXCEPT ![r] = "failed"]
    /\ cursor' = Rotated(ModelOf[r], using[r], Usable(ModelOf[r], status, failed))
    /\ LearnNothing
    /\ UNCHANGED <<attempt, budget, level, using, tried, tables, rejected, ops, restarts>>

Request(r) ==
    /\ \/ Begin(r) \/ Answer(r)
       \/ MessagesRetryable(r) \/ MessagesException(r) \/ MessagesContinue(r)
       \/ MessagesContextWindow(r) \/ ChatRetryable(r)
       \/ ImageRetryable(r) \/ ImageException(r) \/ NativeFails(r)
    /\ UNCHANGED dropped

(***************************************************************************)
(* The operator                                                            *)
(***************************************************************************)
Operate(op) == op \in AdminOps /\ ops < MaxOps /\ ops' = ops + 1

\* add_api_key: append in Standby and lift the provider's disable.
AddApiKey(k) ==
    /\ Operate("add")
    /\ k \notin ToSet(keys)
    /\ keys' = Append(keys, k)
    /\ status' = [status EXCEPT ![k] = "Standby"]
    /\ disabled' = FALSE
    /\ Save({Row("insert", k)} \cup (IF disabled THEN {Enable} ELSE {}))
    /\ rejected' = rejected \ {k}
    /\ UNCHANGED <<idx, failed, cursor, removing, wiped, tables>>

\* Mutant: the index is kept.
IndexKept(i) == i

\* The index into the list that is about to lose a key, for the index i: the
\* same, unless it points past the end.
IndexAfterRemoval(i) == IF i < Len(keys) - 1 THEN i ELSE 0

\* remove_api_key: never the last key; when it is the current key of the whole
\* pool, rotate_qc_key first makes the next one Active, whatever its status.
\* The failures recorded for the key stay in memory.  An index past the end
\* raises before anything changes.
RemoveApiKey(p) ==
    LET k == keys[p]
        current == p = idx + 1
        next == (idx + 1) % Len(keys)
        i == IF current THEN next ELSE idx
    IN  /\ Operate("remove")
        /\ Len(keys) > 1 /\ idx < Len(keys)
        /\ keys' = RemoveAt(keys, p)
        /\ idx' = IndexAfterRemoval(i)
        /\ status' = [(IF current THEN [status EXCEPT ![keys[next + 1]] = "Active"]
                       ELSE status) EXCEPT ![k] = "none"]
        /\ Save({Row("delete", k)}
                \cup (IF current THEN {Row("Active", keys[next + 1])} ELSE {}))
        /\ rejected' = rejected \ (IF current THEN {k, keys[next + 1]} ELSE {k})
        /\ UNCHANGED <<failed, cursor, gate, tables>>

\* reset_key_status and reset_qc_model_failures.
ResetKeyStatus(k) ==
    /\ Operate("reset")
    /\ k \in ToSet(keys)
    /\ status' = [status EXCEPT ![k] = "Standby"]
    /\ failed' = {f \in failed : f[1] # k}
    /\ cursor' = [m \in Models |-> IF keys[CursorIndex(m) + 1] = k THEN 0 ELSE cursor[m]]
    /\ Save({Row("clear", k), Row("Standby", k)})
    /\ rejected' = rejected \ {k}
    /\ UNCHANGED <<keys, idx, gate, tables>>

\* Mutant: every key is demoted, whatever its status.
EveryKey == ToSet(keys)

\* The keys set_active_key demotes to Standby.
Demoted == {l \in ToSet(keys) : status[l] = "Active"}

\* set_active_key: the keys marked Active go back to Standby; the cursors of
\* the models do not move.
SetActiveKey(p) ==
    LET k == keys[p]
    IN  /\ Operate("activate")
        /\ idx' = p - 1
        /\ status' = [l \in Keys |-> IF l = k THEN "Active"
                                     ELSE IF l \in Demoted THEN "Standby"
                                     ELSE status[l]]
        /\ Save({Row("Standby", l) : l \in Demoted} \cup {Row("Active", k)})
        /\ rejected' = rejected \ {k}
        /\ UNCHANGED <<keys, failed, cursor, gate, tables>>

\* remove_provider up to its first await: the list is emptied and the statuses
\* go; the index, the cursors and the recorded failures stay.
RemoveProvider ==
    /\ Operate("removeProvider")
    /\ removing = "idle"
    /\ keys' = <<>>
    /\ status' = [k \in Keys |-> IF k \in ToSet(keys) THEN "none" ELSE status[k]]
    /\ removing' = "keys" /\ wiped' = TRUE
    /\ UNCHANGED <<idx, failed, cursor, disabled, writes, tables, rejected>>

\* DELETE FROM api_keys: every row that is there by now.
DeleteKeyRows ==
    /\ removing = "keys"
    /\ removing' = "provider"
    /\ rows' = <<>> /\ rowStatus' = [k \in Keys |-> "none"] /\ rowFailed' = {}
    /\ UNCHANGED <<keys, idx, status, failed, cursor, disabled, wiped, writes,
                   rowDisabled, rejected, ops>>

\* The disable is saved and takes effect, for keys added meanwhile too.
DisableProvider ==
    /\ removing = "provider"
    /\ removing' = "idle"
    /\ disabled' = TRUE /\ rowDisabled' = TRUE
    /\ UNCHANGED <<keys, idx, status, failed, cursor, wiped, writes,
                   rows, rowStatus, rowFailed, rejected, ops>>

\* Postgres fails under the call, which ends.
RemovalFails ==
    /\ removing # "idle"
    /\ removing' = "idle"
    /\ UNCHANGED <<keys, idx, status, failed, cursor, disabled, wiped, writes,
                   tables, rejected, ops>>

Operator ==
    /\ \/ \E k \in Keys : AddApiKey(k) \/ ResetKeyStatus(k)
       \/ \E p \in 1..Len(keys) : RemoveApiKey(p) \/ SetActiveKey(p)
       \/ RemoveProvider \/ DeleteKeyRows \/ DisableProvider \/ RemovalFails
    /\ UNCHANGED <<dropped, reqVars, restarts>>

\* The process stops, with its requests and its background writes, and loads
\* the tables again; what the start itself saves, it awaits.
Restart ==
    /\ restarts < MaxRestarts
    /\ restarts' = restarts + 1
    /\ \E pool \in BoundedSeq(Keys, Len(rows) + Len(EnvKeys)) :
          LET st == LoadedStatus(rows, rowStatus)
          IN  /\ Loads(rows, pool)
              /\ keys' = pool /\ rows' = pool
              /\ status' = StartStatus(pool, st) /\ rowStatus' = status'
              /\ idx' = StartIndex(pool, st)
    /\ failed' = rowFailed
    /\ cursor' = [m \in Models |-> 0]
    /\ disabled' = rowDisabled /\ removing' = "idle" /\ wiped' = FALSE
    /\ writes' = EmptyBag /\ dropped' = {}
    /\ rejected' = {}
    /\ at' = [r \in Reqs |-> IF at[r] \in {"upstream", "between"} THEN "lost" ELSE at[r]]
    /\ UNCHANGED <<rowFailed, rowDisabled, attempt, budget, level, using, tried, ops>>

Next ==
    \/ \E r \in Reqs : Request(r)
    \/ Operator
    \/ PerformWrite \/ WriteFails
    \/ Restart

Spec == Init /\ [][Next]_vars

(***************************************************************************)
(* Properties                                                              *)
(***************************************************************************)
\* A chat request, and one for an image, gives up only when each key of the pool
\* either failed it or is excluded by now, although the cursor it follows is
\* shared: rotation is relative to the key that failed, whatever other requests
\* did to the cursor and whichever keys they excluded.  An operator who changes the pool under
\* the request voids this.
ChatTriesEveryKey ==
    [][\A r \in ChatReqs \cup ImageReqs :
          at[r] # at'[r] /\ at'[r] \in {"failed", "exhausted"} /\ ops = 0 =>
              \A k \in ToSet(keys) \ tried[r] :
                  status'[k] = "Invalid" \/ <<k, ModelOf[r]>> \in failed']_vars

\* What the process excludes, it has saved or is about to, unless that very
\* write failed: whatever the order of the background writes and of the requests
\* that cause them, a restart that lets them finish forgets only exclusions
\* whose own write _bg has dropped.
ExclusionsAreSaved ==
    /\ \A f \in failed :
          \/ f \in rowFailed
          \/ Mark(f[1], f[2]) \in BagToSet(writes) \cup dropped
    /\ \A k \in ToSet(keys) :
          status[k] = "Invalid" =>
              rowStatus[k] = "Invalid" \/ Row("Invalid", k) \in BagToSet(writes) \cup dropped

\* The index of the whole pool names a key, through removals and restarts, until
\* the provider is removed.
IndexInRange == wiped \/ keys = <<>> \/ idx < Len(keys)

\* "Quarantine a DashScope credential explicitly rejected by upstream": while the
\* process runs, a pooled key that upstream rejected for a /v1/messages request
\* stays out of service, whatever races with it, until the operator adds, resets
\* or activates that key, or removes the current key right before it.
RejectedIsQuarantined ==
    \A k \in rejected \cap ToSet(keys) : status[k] = "Invalid"

\* "Admin reset/add-key flows can make it eligible again": a restart that lost
\* no write does not.
RestartKeepsQuarantine ==
    [][restarts' # restarts /\ writes = EmptyBag /\ dropped = {} =>
          \A k \in ToSet(keys) \cap ToSet(keys') :
              status[k] = "Invalid" => status'[k] = "Invalid"]_vars
=============================================================================
