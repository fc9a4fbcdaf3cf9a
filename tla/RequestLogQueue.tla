-------------------------- MODULE RequestLogQueue --------------------------
(***************************************************************************)
(* The request-log pipeline of custorouter: every finished inference call  *)
(* leaves one telemetry event, which a background task appends to a Redis  *)
(* stream (or, when Redis fails, inserts straight into Postgres) and which *)
(* the request-log worker of some router process later moves from the      *)
(* stream's consumer group into the table request_logs.                    *)
(*                                                                         *)
(* An event that reached the stream is named by its event; entryId[e] is   *)
(* the stream id XADD gave it (0: none), so ids order the entries.  The    *)
(* consumer group is the set `delivered` (at or below last-delivered-id)   *)
(* and the set `pending` (the group's pending-entries list).               *)
(***************************************************************************)
EXTENDS Naturals, FiniteSets

CONSTANTS
    Events,      \* telemetry events, one per finished inference call
    Procs,       \* router processes, each with handlers and one log worker
    BatchSize,   \* _BATCH_SIZE
    MaxLen,      \* REQUEST_LOG_STREAM_MAXLEN
    Malformed,   \* events whose stored payload _decode rejects
    Refused,     \* events whose row Postgres rejects (model over 100 chars)
    LoseAddReply,\* whether the reply of an applied XADD may be lost
    MaxFaults    \* bound: backend errors, lost replies and crashes

ASSUME QueueAssumption ==
    /\ BatchSize \in Nat \ {0}
    /\ MaxLen \in Nat \ {0}
    /\ MaxFaults \in Nat
    /\ LoseAddReply \in BOOLEAN
    /\ Malformed \subseteq Events
    /\ Refused \subseteq Events \ Malformed

VARIABLES
    task,       \* what the background task of each event is doing
    owner,      \* the process whose task it is
    entryId,    \* stream id of the event's entry, 0 when it has none
    lastId,     \* the last id the stream handed out
    stream,     \* entries the stream still holds
    trimmed,    \* entries MAXLEN removed from the stream
    delivered,  \* entries the consumer group has handed to some consumer
    pending,    \* the group's pending-entries list
    stale,      \* pending entries idle for at least min_idle_ms
    acked,      \* entries some XACK has named
    keyed,      \* number of request_logs rows carrying the entry's event_id
    direct,     \* events with a row written by the fallback, event_id NULL
    pc,         \* where each process's log worker is
    batch,      \* the entries that worker holds
    reclaimDue, \* now >= next_reclaim
    faults      \* how many faults have happened

appVars    == <<task, owner>>
streamVars == <<entryId, lastId, stream, trimmed>>
groupVars  == <<delivered, pending, stale, acked>>
tableVars  == <<keyed, direct>>
workerVars == <<pc, batch, reclaimDue>>
vars == <<appVars, streamVars, groupVars, tableVars, workerVars, faults>>

TaskState   == {"none", "enqueue", "fallback", "done", "lost"}
\* "start": the worker's task has not joined the consumer group yet; "ended":
\* the task is over while its process goes on; "down": the process is.
WorkerState == {"start", "poll", "read", "write", "ack", "backoff", "ended", "down"}

TypeOK ==
    /\ task \in [Events -> TaskState]
    /\ owner \in [Events -> Procs]
    /\ entryId \in [Events -> Nat]
    /\ lastId \in Nat
    /\ stream \subseteq Events
    /\ trimmed \subseteq Events
    /\ delivered \subseteq Events
    /\ pending \subseteq Events
    /\ stale \subseteq Events
    /\ acked \subseteq Events
    /\ keyed \in [Events -> Nat]
    /\ direct \subseteq Events
    /\ pc \in [Procs -> WorkerState]
    /\ batch \in [Procs -> SUBSET Events]
    /\ reclaimDue \in [Procs -> BOOLEAN]
    /\ faults \in Nat

Init ==
    /\ task = [e \in Events |-> "none"]
    /\ owner \in [Events -> Procs]
    /\ entryId = [e \in Events |-> 0]
    /\ lastId = 0
    /\ stream = {} /\ trimmed = {}
    /\ delivered = {} /\ pending = {} /\ stale = {} /\ acked = {}
    /\ keyed = [e \in Events |-> 0]
    /\ direct = {}
    /\ pc = [p \in Procs |-> "start"]
    /\ batch = [p \in Procs |-> {}]
    /\ reclaimDue = [p \in Procs |-> TRUE]
    /\ faults = 0

(***************************************************************************)
(* Operators                                                               *)
(***************************************************************************)
\* The first n entries of S in stream order: what a COUNT n argument returns.
FirstOf(S, n) ==
    {x \in S : Cardinality({y \in S : entryId[y] < entryId[x]}) < n}

\* Rows request_logs holds for an event, keyed by its stream id or not.
RowCount(e) == keyed[e] + (IF e \in direct THEN 1 ELSE 0)

Stored(e) == keyed[e] > 0 \/ e \in direct

\* _decode: the rows of a batch; a malformed entry yields none.
Decoded(S) == S \ Malformed

\* One more backend error, lost reply or crash, within the bound.
Fault == faults < MaxFaults /\ faults' = faults + 1

(***************************************************************************)
(* The handlers' side: add_request_log and _persist_request_log_off_path   *)
(***************************************************************************)
\* A handler of a running process finishes and spawns the background task.
AddRequestLog(e) ==
    /\ task[e] = "none"
    /\ pc[owner[e]] # "down"
    /\ task' = [task EXCEPT ![e] = "enqueue"]
    /\ UNCHANGED <<owner, streamVars, groupVars, tableVars, workerVars, faults>>

\* XADD with an approximate MAXLEN: the new entry goes in under the next id
\* and the server may drop the oldest entries, never below MaxLen of them.
XAdd(e) ==
    /\ lastId' = lastId + 1
    /\ entryId' = [entryId EXCEPT ![e] = lastId + 1]
    /\ \E k \in 0..Cardinality(stream) :
          /\ k = 0 \/ (Cardinality(stream) + 1) - k >= MaxLen
          /\ stream' = (stream \ FirstOf(stream, k)) \cup {e}
          /\ trimmed' = trimmed \cup FirstOf(stream, k)
    /\ UNCHANGED <<groupVars, tableVars, workerVars>>

\* Mutant: the direct INSERT also follows an XADD that succeeded.
EnqueueAndPersist(e) ==
    /\ task[e] = "enqueue"
    /\ XAdd(e)
    /\ task' = [task EXCEPT ![e] = "fallback"]
    /\ UNCHANGED <<owner, faults>>

EnqueueRequestLog(e) ==
    /\ task[e] = "enqueue"
    /\ XAdd(e)
    /\ task' = [task EXCEPT ![e] = "done"]
    /\ UNCHANGED <<owner, faults>>

\* XADD was applied but its reply did not arrive (socket_timeout).
EnqueueReplyLost(e) ==
    /\ LoseAddReply
    /\ task[e] = "enqueue"
    /\ XAdd(e)
    /\ task' = [task EXCEPT ![e] = "fallback"]
    /\ Fault
    /\ UNCHANGED owner

EnqueueFails(e) ==
    /\ task[e] = "enqueue"
    /\ task' = [task EXCEPT ![e] = "fallback"]
    /\ Fault
    /\ UNCHANGED <<owner, streamVars, groupVars, tableVars, workerVars>>

\* The except branch: a direct INSERT, without an event_id.
PersistRequestLog(e) ==
    /\ task[e] = "fallback"
    /\ IF e \in Refused
       THEN /\ task' = [task EXCEPT ![e] = "lost"]
            /\ UNCHANGED tableVars
       ELSE /\ task' = [task EXCEPT ![e] = "done"]
            /\ direct' = direct \cup {e}
            /\ UNCHANGED keyed
    /\ UNCHANGED <<owner, streamVars, groupVars, workerVars, faults>>

\* Both backends are down: _bg prints the error and the event is gone.
PersistRequestLogFails(e) ==
    /\ task[e] = "fallback"
    /\ task' = [task EXCEPT ![e] = "lost"]
    /\ Fault
    /\ UNCHANGED <<owner, streamVars, groupVars, tableVars, workerVars>>

(***************************************************************************)
(* run_request_log_worker, one action per awaited call                     *)
(***************************************************************************)
\* ensure_request_log_consumer_group: the lifespan has made the group, so the
\* XGROUP of the worker finds it there (BUSYGROUP) and the loop begins.
JoinGroup(p) ==
    /\ pc[p] = "start"
    /\ pc' = [pc EXCEPT ![p] = "poll"]
    /\ UNCHANGED <<appVars, streamVars, groupVars, tableVars, batch,
                   reclaimDue, faults>>

\* This call is outside the loop's try, and nothing awaits the task or starts
\* it again: a Redis error here ends the worker, the process serves on.
JoinGroupFails(p) ==
    /\ pc[p] = "start"
    /\ pc' = [pc EXCEPT ![p] = "ended"]
    /\ Fault
    /\ UNCHANGED <<appVars, streamVars, groupVars, tableVars, batch, reclaimDue>>

\* XAUTOCLAIM from 0-0: takes over the first stale entries, resets their idle
\* time, and forgets stale entries whose stream entry has been trimmed.
Claimed == FirstOf(stale \cap stream, BatchSize)

\* Mutant: the claim takes the entries out of the pending list.
XAutoClaimForgets ==
    /\ stale' = stale \cap (stream \ Claimed)
    /\ pending' = pending \ ((stale \ stream) \cup Claimed)
    /\ UNCHANGED <<delivered, acked>>

XAutoClaim ==
    /\ stale' = stale \cap (stream \ Claimed)
    /\ pending' = pending \ (stale \ stream)
    /\ UNCHANGED <<delivered, acked>>

\* Mutant: the entries read next replace the claimed ones.
ClaimOverwritten(p) ==
    /\ pc[p] = "poll" /\ reclaimDue[p]
    /\ XAutoClaim
    /\ pc' = [pc EXCEPT ![p] = "read"]
    /\ reclaimDue' = [reclaimDue EXCEPT ![p] = FALSE]
    /\ UNCHANGED <<appVars, streamVars, tableVars, batch, faults>>

ClaimStale(p) ==
    /\ pc[p] = "poll" /\ reclaimDue[p]
    /\ XAutoClaim
    /\ batch' = [batch EXCEPT ![p] = Claimed]
    /\ pc' = [pc EXCEPT ![p] = IF Claimed = {} THEN "read" ELSE "write"]
    /\ reclaimDue' = [reclaimDue EXCEPT ![p] = FALSE]
    /\ UNCHANGED <<appVars, streamVars, tableVars, faults>>

\* The call raised, before or after the server applied it; next_reclaim keeps
\* its value.
ClaimStaleFails(p) ==
    /\ pc[p] = "poll" /\ reclaimDue[p]
    /\ XAutoClaim \/ UNCHANGED groupVars
    /\ pc' = [pc EXCEPT ![p] = "backoff"]
    /\ Fault
    /\ UNCHANGED <<appVars, streamVars, tableVars, batch, reclaimDue>>

SkipClaim(p) ==
    /\ pc[p] = "poll" /\ ~reclaimDue[p]
    /\ pc' = [pc EXCEPT ![p] = "read"]
    /\ UNCHANGED <<appVars, streamVars, groupVars, tableVars, batch,
                   reclaimDue, faults>>

\* XREADGROUP >: the next undelivered entries become pending.
Fresh == FirstOf(stream \ delivered, BatchSize)

\* Mutant: XREADGROUP with NOACK.
XReadGroupNoAck ==
    /\ delivered' = delivered \cup Fresh
    /\ UNCHANGED <<pending, stale, acked>>

XReadGroup ==
    /\ delivered' = delivered \cup Fresh
    /\ pending' = pending \cup Fresh
    /\ UNCHANGED <<stale, acked>>

ReadBatch(p) ==
    /\ pc[p] = "read"
    /\ XReadGroup
    /\ batch' = [batch EXCEPT ![p] = Fresh]
    /\ pc' = [pc EXCEPT ![p] = IF Fresh = {} THEN "poll" ELSE "write"]
    /\ UNCHANGED <<appVars, streamVars, tableVars, reclaimDue, faults>>

\* Mutant: an error of XREADGROUP is caught by no handler of the loop.
ReadErrorEscapes(p) ==
    /\ pc[p] = "read"
    /\ XReadGroup \/ UNCHANGED groupVars
    /\ pc' = [pc EXCEPT ![p] = "raised"]
    /\ Fault
    /\ UNCHANGED <<appVars, streamVars, tableVars, batch, reclaimDue>>

ReadBatchFails(p) ==
    /\ pc[p] = "read"
    /\ XReadGroup \/ UNCHANGED groupVars
    /\ pc' = [pc EXCEPT ![p] = "backoff"]
    /\ Fault
    /\ UNCHANGED <<appVars, streamVars, tableVars, batch, reclaimDue>>

\* Mutant: a plain INSERT.
InsertAgain(S) ==
    keyed' = [e \in Events |-> IF e \in S THEN keyed[e] + 1 ELSE keyed[e]]

\* INSERT ... ON CONFLICT (event_id) DO NOTHING for every row of the batch.
InsertRows(S) ==
    keyed' = [e \in Events |-> IF e \in S /\ keyed[e] = 0 THEN 1 ELSE keyed[e]]

\* executemany is one transaction: a row Postgres refuses fails all of them.
PersistBatch(p) ==
    /\ pc[p] = "write"
    /\ IF Decoded(batch[p]) \cap Refused = {}
       THEN /\ InsertRows(Decoded(batch[p]))
            /\ pc' = [pc EXCEPT ![p] = "ack"]
            /\ UNCHANGED batch
       ELSE /\ pc' = [pc EXCEPT ![p] = "backoff"]
            /\ batch' = [batch EXCEPT ![p] = {}]
            /\ UNCHANGED keyed
    /\ UNCHANGED <<appVars, streamVars, groupVars, direct, reclaimDue, faults>>

\* Mutant: a failed INSERT is logged and the batch acknowledged.
PersistErrorIgnored(p) ==
    /\ pc[p] = "write"
    /\ pc' = [pc EXCEPT ![p] = "ack"]
    /\ Fault
    /\ UNCHANGED <<appVars, streamVars, groupVars, tableVars, batch, reclaimDue>>

\* Postgres was unreachable, or committed and the answer was lost.
PersistBatchFails(p) ==
    /\ pc[p] = "write"
    /\ \/ UNCHANGED keyed
       \/ Decoded(batch[p]) \cap Refused = {} /\ InsertRows(Decoded(batch[p]))
    /\ pc' = [pc EXCEPT ![p] = "backoff"]
    /\ batch' = [batch EXCEPT ![p] = {}]
    /\ Fault
    /\ UNCHANGED <<appVars, streamVars, groupVars, direct, reclaimDue>>

\* XACK is group-wide: it removes an entry from the pending list whoever the
\* group believes to own it.  The entry stays in the stream.
XAck(S) ==
    /\ pending' = pending \ S
    /\ stale' = stale \ S
    /\ acked' = acked \cup S
    /\ UNCHANGED delivered

\* Mutant: only the entries that became rows are acknowledged.
AckDecoded(p) ==
    /\ pc[p] = "ack"
    /\ XAck(Decoded(batch[p]))
    /\ batch' = [batch EXCEPT ![p] = {}]
    /\ pc' = [pc EXCEPT ![p] = "poll"]
    /\ UNCHANGED <<appVars, streamVars, tableVars, reclaimDue, faults>>

AckBatch(p) ==
    /\ pc[p] = "ack"
    /\ XAck(batch[p])
    /\ batch' = [batch EXCEPT ![p] = {}]
    /\ pc' = [pc EXCEPT ![p] = "poll"]
    /\ UNCHANGED <<appVars, streamVars, tableVars, reclaimDue, faults>>

AckBatchFails(p) ==
    /\ pc[p] = "ack"
    /\ XAck(batch[p]) \/ UNCHANGED groupVars
    /\ batch' = [batch EXCEPT ![p] = {}]
    /\ pc' = [pc EXCEPT ![p] = "backoff"]
    /\ Fault
    /\ UNCHANGED <<appVars, streamVars, tableVars, reclaimDue>>

\* asyncio.sleep(1) is over; the local list of entries is rebuilt.
BackoffOver(p) ==
    /\ pc[p] = "backoff"
    /\ pc' = [pc EXCEPT ![p] = "poll"]
    /\ UNCHANGED <<appVars, streamVars, groupVars, tableVars, batch,
                   reclaimDue, faults>>

(***************************************************************************)
(* Time, crashes and restarts                                              *)
(***************************************************************************)
\* The interval is a local of the loop, so it only passes while the loop runs.
ReclaimIntervalOver(p) ==
    /\ pc[p] # "down"
    /\ ~reclaimDue[p]
    /\ reclaimDue' = [reclaimDue EXCEPT ![p] = TRUE]
    /\ UNCHANGED <<appVars, streamVars, groupVars, tableVars, pc, batch, faults>>

\* A pending entry has been idle for min_idle_ms, its holder dead or slow.
IdleTooLong(e) ==
    /\ e \in pending \ stale
    /\ stale' = stale \cup {e}
    /\ UNCHANGED <<appVars, streamVars, delivered, pending, acked, tableVars,
                   workerVars, faults>>

\* The process ends, by a crash or by the lifespan's task cancellation: its
\* worker and its background tasks vanish, Redis and Postgres keep theirs.
Crash(p) ==
    /\ pc[p] # "down"
    /\ pc' = [pc EXCEPT ![p] = "down"]
    /\ batch' = [batch EXCEPT ![p] = {}]
    /\ task' = [e \in Events |->
                  IF owner[e] = p /\ task[e] \in {"enqueue", "fallback"}
                  THEN "lost" ELSE task[e]]
    /\ reclaimDue' = [reclaimDue EXCEPT ![p] = TRUE]
    /\ Fault
    /\ UNCHANGED <<owner, streamVars, groupVars, tableVars>>

Restart(p) ==
    /\ pc[p] = "down"
    /\ pc' = [pc EXCEPT ![p] = "start"]
    /\ UNCHANGED <<appVars, streamVars, groupVars, tableVars, batch, reclaimDue,
                   faults>>

Handler(e) ==
    \/ AddRequestLog(e)
    \/ EnqueueRequestLog(e) \/ EnqueueReplyLost(e) \/ EnqueueFails(e)
    \/ PersistRequestLog(e) \/ PersistRequestLogFails(e)

\* What the worker does when nothing fails.
WorkerStep(p) ==
    \/ JoinGroup(p)
    \/ ClaimStale(p) \/ SkipClaim(p) \/ ReadBatch(p) \/ PersistBatch(p)
    \/ AckBatch(p) \/ BackoffOver(p)

WorkerFails(p) ==
    \/ JoinGroupFails(p)
    \/ ClaimStaleFails(p) \/ ReadBatchFails(p) \/ PersistBatchFails(p)
    \/ AckBatchFails(p)

Next ==
    \/ \E e \in Events : Handler(e) \/ IdleTooLong(e)
    \/ \E p \in Procs :
          \/ WorkerStep(p) \/ WorkerFails(p)
          \/ ReclaimIntervalOver(p) \/ Crash(p) \/ Restart(p)

Spec == Init /\ [][Next]_vars

\* The event loop runs a ready worker and a ready task, time passes, and a
\* stopped process is started again (restart: unless-stopped).
Fairness ==
    /\ \A p \in Procs :
          /\ WF_vars(WorkerStep(p))
          /\ WF_vars(ReclaimIntervalOver(p))
          /\ WF_vars(Restart(p))
    /\ \A e \in Events :
          /\ WF_vars(EnqueueRequestLog(e) \/ PersistRequestLog(e))
          /\ WF_vars(IdleTooLong(e))

FairSpec == Spec /\ Fairness

(***************************************************************************)
(* Properties                                                              *)
(***************************************************************************)
\* A worker acknowledges an entry only after Postgres has accepted it: every
\* acknowledged well-formed entry has its row, whatever crashed or failed in
\* between (request_log_worker.py: "acknowledges it only after Postgres has
\* accepted the whole batch").
AckedImpliesStored == \A e \in acked \ Malformed : keyed[e] > 0

\* Nothing but the stream's length bound loses an entry: a well-formed entry
\* without a row is still in the stream, undelivered or pending, unless MAXLEN
\* trimmed it.
UnstoredIsRecoverable ==
    \A e \in Events \ Malformed :
        (entryId[e] # 0 /\ keyed[e] = 0 /\ e \notin trimmed)
            => e \in stream /\ (e \in delivered => e \in pending)

\* Delivery is at-least-once and two workers may write the same entry, yet one
\* entry never has two rows.
OneRowPerEntry == \A e \in Events : keyed[e] <= 1

\* One finished call never counts twice in the journal that feeds the lifetime
\* totals: at most one row, keyed or direct (while XADD replies are not lost).
OneRowPerEvent == \A e \in Events : RowCount(e) <= 1

\* The worker of some process has not ended: it polls, or its process is down
\* and will be started again.
SomeWorkerLeft == \E p \in Procs : pc[p] # "ended"

\* Every well-formed entry the stream accepted reaches Postgres or is trimmed:
\* crashes, backend errors and abandoned batches only delay it, and so does
\* the end of every worker but one.  When all of them have failed to join the
\* group, and no process restarts, nothing is promised.
EntryEventuallyStored ==
    []<>SomeWorkerLeft =>
        \A e \in Events \ (Malformed \cup Refused) :
            entryId[e] # 0 ~> (Stored(e) \/ e \in trimmed)

\* "A malformed record must not poison the queue forever": every delivered
\* entry leaves the pending list in the end, as long as a worker is left.
PendingEventuallyCleared ==
    []<>SomeWorkerLeft =>
        \A e \in Events : e \in pending ~> e \notin pending

(***************************************************************************)
(* Refinement of the abstract journal                                      *)
(***************************************************************************)
\* Some step of the code can still store an entry that has no row.
Recoverable(e) ==
    \/ e \in stream /\ entryId[e] # 0 /\ (e \in delivered => e \in pending)
    \/ \E p \in Procs : pc[p] = "write" /\ e \in batch[p]

JournalState(e) ==
    IF Stored(e) THEN "stored"
    ELSE IF task[e] = "none" THEN "unlogged"
    ELSE IF task[e] \in {"enqueue", "fallback"} THEN "logging"
    ELSE IF Recoverable(e) THEN "queued" ELSE "dropped"

Journal == INSTANCE RequestJournal WITH
    journal <- [e \in Events |-> JournalState(e)],
    evicted <- trimmed

\* The pipeline keeps the journal's promise: a stored event stays stored, a
\* queued one is dropped only if malformed or evicted, and a dropped one never
\* comes back.
JournalSpec == Journal!Spec
=============================================================================
