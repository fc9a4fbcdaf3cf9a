----------------------- MODULE RequestLogQueueProofs -----------------------
(***************************************************************************)
(* Proofs about RequestLogQueue, for any number of events and processes,   *)
(* any batch size, stream bound and number of faults.                      *)
(***************************************************************************)
EXTENDS RequestLogQueue, TLAPS

\* A task that has not tried XADD yet has no entry, and the stream and the
\* group only know entries XADD created.
IdsWellFormed ==
    /\ \A e \in Events : task[e] \in {"none", "enqueue"} => entryId[e] = 0
    /\ \A e \in stream \cup delivered : entryId[e] # 0

\* A worker about to acknowledge has stored its batch.
AckingIsStored ==
    \A p \in Procs : pc[p] = "ack" =>
        \A e \in batch[p] \ Malformed : keyed[e] > 0

\* The inductive invariant.
IInv ==
    /\ TypeOK
    /\ IdsWellFormed
    /\ AckingIsStored
    /\ AckedImpliesStored
    /\ UnstoredIsRecoverable
    /\ OneRowPerEntry

\* The COUNT-limited prefix of a set of entries is a subset of it.
LEMMA FirstOfSubset == ASSUME NEW S, NEW n PROVE FirstOf(S, n) \subseteq S
BY DEF FirstOf

\* Before the first event nothing is delivered, acknowledged or stored.
LEMMA InitIInv == Init => IInv
BY QueueAssumption
   DEF Init, IInv, TypeOK, IdsWellFormed, AckingIsStored, AckedImpliesStored,
       UnstoredIsRecoverable, OneRowPerEntry, TaskState, WorkerState

\* What an XADD, whatever its reply, does to the entries.
LEMMA XAddPreserves ==
    ASSUME IInv, NEW e \in Events, task[e] = "enqueue", XAdd(e),
           task' \in [Events -> TaskState], task'[e] \notin {"none", "enqueue"},
           \A f \in Events \ {e} : task'[f] = task[f],
           owner' = owner, faults' \in Nat
    PROVE  IInv'
<1> USE DEF IInv
<1> DEFINE id == lastId + 1
<1>1. PICK k \in 0..Cardinality(stream) :
          /\ stream' = (stream \ FirstOf(stream, k)) \cup {e}
          /\ trimmed' = trimmed \cup FirstOf(stream, k)
  BY DEF XAdd
<1>2. FirstOf(stream, k) \subseteq stream
  BY FirstOfSubset
<1>3. /\ id \in Nat /\ id # 0
      /\ lastId' = id /\ entryId' = [entryId EXCEPT ![e] = id]
      /\ UNCHANGED <<groupVars, tableVars, workerVars>>
  BY DEF XAdd, TypeOK
<1>4. entryId[e] = 0 /\ e \notin delivered
  BY DEF IdsWellFormed
<1>5. TypeOK'
  BY <1>1, <1>2, <1>3 DEF TypeOK, groupVars, tableVars, workerVars
<1>6. IdsWellFormed'
  BY <1>1, <1>2, <1>3, <1>5 DEF IdsWellFormed, TypeOK, groupVars
<1>7. AckingIsStored' /\ AckedImpliesStored' /\ OneRowPerEntry'
  BY <1>3 DEF AckingIsStored, AckedImpliesStored, OneRowPerEntry,
              groupVars, tableVars, workerVars
<1>8. UnstoredIsRecoverable'
  BY <1>1, <1>2, <1>3, <1>4 DEF UnstoredIsRecoverable, TypeOK, groupVars, tableVars
<1> QED BY <1>5, <1>6, <1>7, <1>8

\* A handler's background task preserves the invariant.
LEMMA HandlerPreserves == ASSUME IInv, NEW e \in Events, Handler(e) PROVE IInv'
<1> USE DEF IInv
<1>1. CASE AddRequestLog(e)
  BY <1>1 DEF AddRequestLog, TypeOK, TaskState, IdsWellFormed, AckingIsStored,
     AckedImpliesStored, UnstoredIsRecoverable, OneRowPerEntry, streamVars,
     groupVars, tableVars, workerVars
<1>2. CASE EnqueueRequestLog(e)
  BY <1>2, XAddPreserves DEF EnqueueRequestLog, TypeOK, TaskState
<1>3. CASE EnqueueReplyLost(e)
  BY <1>3, XAddPreserves DEF EnqueueReplyLost, TypeOK, TaskState, Fault
<1>4. CASE EnqueueFails(e)
  BY <1>4 DEF EnqueueFails, Fault, TypeOK, TaskState, IdsWellFormed,
     AckingIsStored, AckedImpliesStored, UnstoredIsRecoverable, OneRowPerEntry,
     streamVars, groupVars, tableVars, workerVars
<1>5. CASE PersistRequestLog(e)
  <2>1. TypeOK'
    BY <1>5 DEF PersistRequestLog, TypeOK, TaskState, streamVars, groupVars,
       tableVars, workerVars
  <2>2. IdsWellFormed'
    BY <1>5 DEF PersistRequestLog, TypeOK, IdsWellFormed, streamVars, groupVars
  <2>3. UNCHANGED <<keyed, streamVars, groupVars, workerVars>>
    BY <1>5 DEF PersistRequestLog, tableVars
  <2> QED
    BY <2>1, <2>2, <2>3 DEF AckingIsStored, AckedImpliesStored,
       UnstoredIsRecoverable, OneRowPerEntry, streamVars, groupVars, workerVars
<1>6. CASE PersistRequestLogFails(e)
  BY <1>6 DEF PersistRequestLogFails, Fault, TypeOK, TaskState, IdsWellFormed,
     AckingIsStored, AckedImpliesStored, UnstoredIsRecoverable, OneRowPerEntry,
     streamVars, groupVars, tableVars, workerVars
<1> QED BY <1>1, <1>2, <1>3, <1>4, <1>5, <1>6 DEF Handler

\* Claiming only touches the pending list, and only removes trimmed entries.
LEMMA XAutoClaimPreserves ==
    ASSUME IInv, XAutoClaim, UNCHANGED <<appVars, streamVars, tableVars>>,
           NEW p \in Procs, batch' \in [Procs -> SUBSET Events],
           \A q \in Procs \ {p} : batch'[q] = batch[q],
           NEW st \in WorkerState \ {"ack"}, pc' = [pc EXCEPT ![p] = st],
           reclaimDue' \in [Procs -> BOOLEAN], faults' \in Nat
    PROVE  IInv'
<1> USE DEF IInv
<1>1. TypeOK'
  BY DEF XAutoClaim, TypeOK, appVars, streamVars, tableVars
<1>2. IdsWellFormed' /\ AckedImpliesStored' /\ OneRowPerEntry'
  BY DEF XAutoClaim, IdsWellFormed, AckedImpliesStored, OneRowPerEntry,
         appVars, streamVars, tableVars
<1>3. AckingIsStored'
  BY DEF AckingIsStored, TypeOK, tableVars
<1>4. UnstoredIsRecoverable'
  BY DEF XAutoClaim, UnstoredIsRecoverable, streamVars, tableVars
<1> QED BY <1>1, <1>2, <1>3, <1>4

\* XREADGROUP hands out undelivered entries of the stream and makes each of
\* them pending.
LEMMA XReadGroupPreserves ==
    ASSUME IInv, XReadGroup, UNCHANGED <<appVars, streamVars, tableVars>>,
           NEW p \in Procs,
           batch' = [batch EXCEPT ![p] = Fresh] \/ UNCHANGED batch,
           NEW st \in WorkerState \ {"ack"}, pc' = [pc EXCEPT ![p] = st],
           reclaimDue' = reclaimDue, faults' \in Nat
    PROVE  IInv'
<1> USE DEF IInv
<1>1. Fresh \subseteq stream
  BY FirstOfSubset DEF Fresh
<1>2. TypeOK'
  BY <1>1 DEF XReadGroup, TypeOK, appVars, streamVars, tableVars
<1>3. IdsWellFormed' /\ AckedImpliesStored' /\ OneRowPerEntry'
  BY <1>1 DEF XReadGroup, IdsWellFormed, AckedImpliesStored, OneRowPerEntry,
         appVars, streamVars, tableVars
<1>4. AckingIsStored'
  BY DEF AckingIsStored, TypeOK, tableVars
<1>5. UnstoredIsRecoverable'
  BY DEF XReadGroup, UnstoredIsRecoverable, streamVars, tableVars
<1> QED BY <1>2, <1>3, <1>4, <1>5

\* Writing rows only adds rows, one at most per entry.
LEMMA InsertRowsFacts ==
    ASSUME TypeOK, OneRowPerEntry, NEW S \in SUBSET Events, InsertRows(S)
    PROVE  /\ keyed' \in [Events -> Nat]
           /\ OneRowPerEntry'
           /\ \A e \in Events : keyed[e] > 0 => keyed'[e] > 0
           /\ \A e \in S : keyed'[e] > 0
BY DEF InsertRows, TypeOK, OneRowPerEntry

\* Acknowledging a stored batch removes only stored entries from pending.
LEMMA XAckPreserves ==
    ASSUME IInv, NEW p \in Procs, pc[p] = "ack", XAck(batch[p]),
           UNCHANGED <<appVars, streamVars, tableVars>>,
           batch' = [batch EXCEPT ![p] = {}],
           NEW st \in WorkerState \ {"ack"}, pc' = [pc EXCEPT ![p] = st],
           reclaimDue' = reclaimDue, faults' \in Nat
    PROVE  IInv'
<1> USE DEF IInv
<1>1. \A e \in batch[p] \ Malformed : e \in Events /\ keyed[e] > 0
  BY DEF AckingIsStored, TypeOK
<1>2. TypeOK'
  BY DEF XAck, TypeOK, appVars, streamVars, tableVars
<1>3. IdsWellFormed' /\ OneRowPerEntry'
  BY DEF XAck, IdsWellFormed, OneRowPerEntry, appVars, streamVars, tableVars
<1>4. AckedImpliesStored'
  BY <1>1 DEF XAck, AckedImpliesStored, tableVars
<1>5. AckingIsStored'
  BY DEF AckingIsStored, TypeOK, tableVars
<1>6. UnstoredIsRecoverable'
  BY <1>1 DEF XAck, UnstoredIsRecoverable, TypeOK, streamVars, tableVars
<1> QED BY <1>2, <1>3, <1>4, <1>5, <1>6

\* Steps of the worker, successful or not, preserve the invariant.
LEMMA WorkerPreserves ==
    ASSUME IInv, NEW p \in Procs, WorkerStep(p) \/ WorkerFails(p)
    PROVE  IInv'
<1> USE DEF IInv
\* Steps that only move one worker, to a point that is not its XACK.
<1>0. ASSUME UNCHANGED appVars, UNCHANGED streamVars, UNCHANGED groupVars,
             UNCHANGED tableVars, faults' \in Nat, reclaimDue' = reclaimDue,
             batch' = [batch EXCEPT ![p] = {}] \/ UNCHANGED batch,
             \/ pc' = [pc EXCEPT ![p] = "read"]
             \/ pc' = [pc EXCEPT ![p] = "poll"]
             \/ pc' = [pc EXCEPT ![p] = "backoff"]
             \/ pc' = [pc EXCEPT ![p] = "ended"]
      PROVE  IInv'
  BY <1>0 DEF TypeOK, WorkerState, IdsWellFormed, AckingIsStored, AckedImpliesStored,
     UnstoredIsRecoverable, OneRowPerEntry, appVars, streamVars, groupVars,
     tableVars
<1>1. CASE ClaimStale(p)
  <2>1. Claimed \subseteq Events
    BY FirstOfSubset DEF Claimed, TypeOK
  <2>2. PICK st \in {"read", "write"} : pc' = [pc EXCEPT ![p] = st]
    BY <1>1 DEF ClaimStale
  <2> QED
    BY <1>1, <2>1, <2>2, XAutoClaimPreserves DEF ClaimStale, TypeOK, WorkerState
<1>2. CASE ClaimStaleFails(p)
  <2>1. CASE XAutoClaim
    <3>1. /\ UNCHANGED <<appVars, streamVars, tableVars>> /\ faults' \in Nat
          /\ pc' = [pc EXCEPT ![p] = "backoff"] /\ reclaimDue' = reclaimDue
          /\ batch' = batch
      BY <1>2 DEF ClaimStaleFails, Fault, TypeOK
    <3> QED BY <2>1, <3>1, XAutoClaimPreserves DEF TypeOK, WorkerState
  <2>2. CASE UNCHANGED groupVars
    BY <1>2, <2>2, <1>0 DEF ClaimStaleFails, Fault, TypeOK, WorkerState
  <2> QED BY <1>2, <2>1, <2>2 DEF ClaimStaleFails
<1>3. CASE SkipClaim(p)
  BY <1>3, <1>0 DEF SkipClaim, TypeOK, WorkerState
<1>4. CASE ReadBatch(p)
  <2>1. PICK st \in {"poll", "write"} : pc' = [pc EXCEPT ![p] = st]
    BY <1>4 DEF ReadBatch
  <2> QED BY <1>4, <2>1, XReadGroupPreserves DEF ReadBatch, TypeOK, WorkerState
<1>5. CASE ReadBatchFails(p)
  <2>1. CASE XReadGroup
    <3>1. /\ UNCHANGED <<appVars, streamVars, tableVars>> /\ faults' \in Nat
          /\ pc' = [pc EXCEPT ![p] = "backoff"] /\ reclaimDue' = reclaimDue
          /\ batch' = batch
      BY <1>5 DEF ReadBatchFails, Fault, TypeOK
    <3> QED BY <2>1, <3>1, XReadGroupPreserves DEF TypeOK, WorkerState
  <2>2. CASE UNCHANGED groupVars
    BY <1>5, <2>2, <1>0 DEF ReadBatchFails, Fault, TypeOK, WorkerState
  <2> QED BY <1>5, <2>1, <2>2 DEF ReadBatchFails
<1>6. CASE PersistBatch(p)
  <2>1. CASE Decoded(batch[p]) \cap Refused = {}
    <3>1. Decoded(batch[p]) \in SUBSET Events /\ batch[p] \subseteq Events
      BY DEF Decoded, TypeOK
    <3>2. /\ InsertRows(Decoded(batch[p])) /\ pc' = [pc EXCEPT ![p] = "ack"]
          /\ UNCHANGED <<appVars, streamVars, groupVars, direct, batch,
                         reclaimDue, faults>>
      BY <1>6, <2>1 DEF PersistBatch
    <3>3. /\ keyed' \in [Events -> Nat] /\ OneRowPerEntry'
          /\ \A e \in Events : keyed[e] > 0 => keyed'[e] > 0
          /\ \A e \in Decoded(batch[p]) : keyed'[e] > 0
      BY <3>1, <3>2, InsertRowsFacts
    <3>4. TypeOK' /\ IdsWellFormed'
      BY <3>2, <3>3 DEF TypeOK, WorkerState, IdsWellFormed, appVars, streamVars,
         groupVars
    <3>5. AckingIsStored'
      BY <3>1, <3>2, <3>3 DEF AckingIsStored, Decoded, TypeOK
    <3>6. AckedImpliesStored' /\ UnstoredIsRecoverable'
      BY <3>2, <3>3 DEF AckedImpliesStored, UnstoredIsRecoverable, TypeOK,
         streamVars, groupVars
    <3> QED BY <3>3, <3>4, <3>5, <3>6
  <2>2. CASE Decoded(batch[p]) \cap Refused # {}
    BY <1>6, <2>2, <1>0 DEF PersistBatch, TypeOK, WorkerState, tableVars
  <2> QED BY <2>1, <2>2
<1>7. CASE PersistBatchFails(p)
  <2>1. CASE UNCHANGED keyed
    BY <1>7, <2>1, <1>0 DEF PersistBatchFails, Fault, TypeOK, WorkerState, tableVars
  <2>2. CASE InsertRows(Decoded(batch[p]))
    <3>1. Decoded(batch[p]) \in SUBSET Events
      BY DEF Decoded, TypeOK
    <3>2. /\ keyed' \in [Events -> Nat] /\ OneRowPerEntry'
          /\ \A e \in Events : keyed[e] > 0 => keyed'[e] > 0
      BY <3>1, <2>2, InsertRowsFacts
    <3>3. /\ pc' = [pc EXCEPT ![p] = "backoff"] /\ faults' \in Nat
          /\ batch' = [batch EXCEPT ![p] = {}]
          /\ UNCHANGED <<appVars, streamVars, groupVars, direct, reclaimDue>>
      BY <1>7 DEF PersistBatchFails, Fault, TypeOK
    <3>4. TypeOK' /\ IdsWellFormed'
      BY <3>2, <3>3 DEF TypeOK, WorkerState, IdsWellFormed, appVars, streamVars,
         groupVars
    <3>5. AckingIsStored'
      BY <3>2, <3>3 DEF AckingIsStored, TypeOK
    <3>6. AckedImpliesStored' /\ UnstoredIsRecoverable'
      BY <3>2, <3>3 DEF AckedImpliesStored, UnstoredIsRecoverable, TypeOK,
         streamVars, groupVars
    <3> QED BY <3>2, <3>4, <3>5, <3>6
  <2> QED BY <1>7, <2>1, <2>2 DEF PersistBatchFails
<1>8. CASE AckBatch(p)
  BY <1>8, XAckPreserves DEF AckBatch, TypeOK, WorkerState
<1>9. CASE AckBatchFails(p)
  <2>1. CASE XAck(batch[p])
    <3>1. /\ UNCHANGED <<appVars, streamVars, tableVars>> /\ faults' \in Nat
          /\ pc' = [pc EXCEPT ![p] = "backoff"] /\ reclaimDue' = reclaimDue
          /\ batch' = [batch EXCEPT ![p] = {}] /\ pc[p] = "ack"
      BY <1>9 DEF AckBatchFails, Fault, TypeOK
    <3> QED BY <2>1, <3>1, XAckPreserves DEF TypeOK, WorkerState
  <2>2. CASE UNCHANGED groupVars
    BY <1>9, <2>2, <1>0 DEF AckBatchFails, Fault, TypeOK, WorkerState
  <2> QED BY <1>9, <2>1, <2>2 DEF AckBatchFails
<1>10. CASE BackoffOver(p)
  BY <1>10, <1>0 DEF BackoffOver, TypeOK, WorkerState
<1>11. CASE JoinGroup(p)
  BY <1>11, <1>0 DEF JoinGroup, TypeOK, WorkerState
<1>12. CASE JoinGroupFails(p)
  BY <1>12, <1>0 DEF JoinGroupFails, Fault, TypeOK, WorkerState
<1> QED
  BY <1>11, <1>12, <1>1, <1>2, <1>3, <1>4, <1>5, <1>6, <1>7, <1>8, <1>9, <1>10
  DEF WorkerStep, WorkerFails

\* Every step of the pipeline preserves the invariant.
LEMMA NextIInv == IInv /\ [Next]_vars => IInv'
<1> SUFFICES ASSUME IInv, [Next]_vars PROVE IInv'
  OBVIOUS
<1> USE DEF IInv
<1>1. ASSUME NEW e \in Events, Handler(e) PROVE IInv'
  BY <1>1, HandlerPreserves
<1>2. ASSUME NEW p \in Procs, WorkerStep(p) \/ WorkerFails(p) PROVE IInv'
  BY <1>2, WorkerPreserves
<1>3. ASSUME NEW e \in Events, IdleTooLong(e) PROVE IInv'
  BY <1>3 DEF IdleTooLong, TypeOK, IdsWellFormed, AckingIsStored,
     AckedImpliesStored, UnstoredIsRecoverable, OneRowPerEntry, appVars,
     streamVars, tableVars, workerVars
<1>4. ASSUME NEW p \in Procs, ReclaimIntervalOver(p) PROVE IInv'
  BY <1>4 DEF ReclaimIntervalOver, TypeOK, IdsWellFormed, AckingIsStored,
     AckedImpliesStored, UnstoredIsRecoverable, OneRowPerEntry, appVars,
     streamVars, groupVars, tableVars
<1>5. ASSUME NEW p \in Procs, Crash(p) PROVE IInv'
  <2>1. TypeOK'
    BY <1>5 DEF Crash, Fault, TypeOK, TaskState, WorkerState, streamVars,
       groupVars, tableVars
  <2>2. IdsWellFormed'
    BY <1>5 DEF Crash, TypeOK, IdsWellFormed, streamVars, groupVars
  <2>3. AckingIsStored' /\ AckedImpliesStored' /\ UnstoredIsRecoverable'
        /\ OneRowPerEntry'
    BY <1>5 DEF Crash, TypeOK, AckingIsStored, AckedImpliesStored,
       UnstoredIsRecoverable, OneRowPerEntry, streamVars, groupVars, tableVars
  <2> QED BY <2>1, <2>2, <2>3
<1>6. ASSUME NEW p \in Procs, Restart(p) PROVE IInv'
  BY <1>6 DEF Restart, TypeOK, WorkerState, IdsWellFormed, AckingIsStored,
     AckedImpliesStored, UnstoredIsRecoverable, OneRowPerEntry, appVars,
     streamVars, groupVars, tableVars
<1>7. CASE UNCHANGED vars
  BY <1>7 DEF vars, TypeOK, IdsWellFormed, AckingIsStored, AckedImpliesStored,
     UnstoredIsRecoverable, OneRowPerEntry, appVars, streamVars, groupVars,
     tableVars, workerVars
<1> QED BY <1>1, <1>2, <1>3, <1>4, <1>5, <1>6, <1>7 DEF Next

\* The strengthened invariant holds in every reachable state of the pipeline.
THEOREM InductiveInvariant == Spec => []IInv
<1>1. Init => IInv
  BY InitIInv
<1>2. IInv /\ [Next]_vars => IInv'
  BY NextIInv
<1> QED BY <1>1, <1>2, PTL DEF Spec

\* The worker's variables always have their types.
THEOREM TypeCorrect == Spec => []TypeOK
BY InductiveInvariant, PTL DEF IInv

\* run_request_log_worker acknowledges an entry only once its row is stored.
THEOREM AckedStored == Spec => []AckedImpliesStored
BY InductiveInvariant, PTL DEF IInv

\* Only MAXLEN trimming can lose an entry the stream accepted.
THEOREM NothingForgotten == Spec => []UnstoredIsRecoverable
BY InductiveInvariant, PTL DEF IInv

\* The event_id index keeps a redelivered entry from being counted twice.
THEOREM EntryStoredOnce == Spec => []OneRowPerEntry
BY InductiveInvariant, PTL DEF IInv

(***************************************************************************)
(* The abstract journal                                                    *)
(***************************************************************************)
\* Rows and batches are of entries that exist, no event has a direct row
\* before its task has tried XADD, and what is stale is pending.
JournalInv ==
    /\ \A e \in Events : task[e] \in {"none", "enqueue"} => e \notin direct
    /\ \A e \in Events : keyed[e] > 0 => entryId[e] # 0
    /\ \A p \in Procs : \A e \in batch[p] : entryId[e] # 0
    /\ stale \subseteq pending

\* An XADD adds one entry that had none.
LEMMA XAddFacts ==
    ASSUME IInv, NEW e \in Events, task[e] = "enqueue", XAdd(e)
    PROVE  /\ UNCHANGED <<groupVars, tableVars, workerVars>>
           /\ entryId'[e] # 0 /\ \A f \in Events \ {e} : entryId'[f] = entryId[f]
           /\ trimmed \subseteq trimmed' /\ trimmed' \subseteq Events
           /\ stream' \subseteq stream \cup {e}
<1>1. PICK k \in 0..Cardinality(stream) :
          /\ stream' = (stream \ FirstOf(stream, k)) \cup {e}
          /\ trimmed' = trimmed \cup FirstOf(stream, k)
  BY DEF XAdd
<1>2. FirstOf(stream, k) \subseteq stream
  BY FirstOfSubset
<1>3. /\ lastId + 1 # 0 /\ entryId' = [entryId EXCEPT ![e] = lastId + 1]
      /\ UNCHANGED <<groupVars, tableVars, workerVars>>
  BY DEF XAdd, IInv, TypeOK
<1> QED BY <1>1, <1>2, <1>3 DEF IInv, TypeOK

\* The steps of an event's background task, one by one.
LEMMA HandlerCases ==
    ASSUME IInv, NEW e \in Events, Handler(e)
    PROVE  /\ UNCHANGED <<owner, groupVars, workerVars, keyed>>
           /\ \E x \in TaskState : task' = [task EXCEPT ![e] = x]
           /\ \/ /\ task[e] = "none" /\ task'[e] = "enqueue"
                 /\ UNCHANGED <<streamVars, direct>>
              \/ /\ task[e] = "enqueue" /\ XAdd(e) /\ task'[e] = "done"
                 /\ UNCHANGED direct
              \/ /\ task[e] = "enqueue" /\ XAdd(e) /\ task'[e] = "fallback" /\ LoseAddReply
                 /\ UNCHANGED direct
              \/ /\ task[e] = "enqueue" /\ task'[e] = "fallback"
                 /\ UNCHANGED <<streamVars, direct>>
              \/ /\ task[e] = "fallback" /\ task'[e] = "done" /\ direct' = direct \cup {e}
                 /\ UNCHANGED streamVars
              \/ /\ task[e] = "fallback" /\ task'[e] = "lost"
                 /\ UNCHANGED <<streamVars, direct>>
<1> USE DEF IInv, TypeOK, TaskState, tableVars, workerVars
<1>1. CASE AddRequestLog(e)
  BY <1>1 DEF AddRequestLog
<1>2. CASE EnqueueRequestLog(e)
  BY <1>2 DEF EnqueueRequestLog, XAdd
<1>3. CASE EnqueueReplyLost(e)
  BY <1>3 DEF EnqueueReplyLost, XAdd
<1>4. CASE EnqueueFails(e)
  BY <1>4 DEF EnqueueFails
<1>5. CASE PersistRequestLog(e)
  BY <1>5 DEF PersistRequestLog
<1>6. CASE PersistRequestLogFails(e)
  BY <1>6 DEF PersistRequestLogFails
<1> QED BY <1>1, <1>2, <1>3, <1>4, <1>5, <1>6 DEF Handler

\* What a worker's step does to the group, the table and its own batch.
LEMMA WorkerCases ==
    ASSUME IInv, NEW p \in Procs, WorkerStep(p) \/ WorkerFails(p)
    PROVE  /\ UNCHANGED <<appVars, streamVars, direct>>
           /\ \E x \in WorkerState : pc' = [pc EXCEPT ![p] = x]
           /\ \/ /\ XAutoClaim /\ UNCHANGED keyed
                 /\ batch' = batch \/ batch' = [batch EXCEPT ![p] = Claimed]
                 /\ pc'[p] = "write" => batch' = [batch EXCEPT ![p] = Claimed]
              \/ /\ XReadGroup /\ UNCHANGED keyed
                 /\ batch' = batch \/ batch' = [batch EXCEPT ![p] = Fresh]
                 /\ pc'[p] = "write" => batch' = [batch EXCEPT ![p] = Fresh]
              \/ /\ pc[p] = "write" /\ InsertRows(Decoded(batch[p])) /\ pc'[p] # "write"
                 /\ UNCHANGED groupVars
                 /\ batch' = batch \/ batch' = [batch EXCEPT ![p] = {}]
              \/ /\ XAck(batch[p]) /\ UNCHANGED keyed /\ pc'[p] # "write"
                 /\ batch' = [batch EXCEPT ![p] = {}]
              \/ /\ UNCHANGED <<groupVars, keyed>> /\ pc'[p] # "write"
                 /\ batch' = batch \/ batch' = [batch EXCEPT ![p] = {}]
<1> USE DEF IInv, TypeOK, WorkerState, tableVars
<1>1. CASE ClaimStale(p) \/ ClaimStaleFails(p)
  BY <1>1 DEF ClaimStale, ClaimStaleFails
<1>2. CASE SkipClaim(p) \/ BackoffOver(p) \/ JoinGroup(p) \/ JoinGroupFails(p)
  BY <1>2 DEF SkipClaim, BackoffOver, JoinGroup, JoinGroupFails
<1>3. CASE ReadBatch(p) \/ ReadBatchFails(p)
  BY <1>3 DEF ReadBatch, ReadBatchFails
<1>4. CASE PersistBatch(p) \/ PersistBatchFails(p)
  BY <1>4 DEF PersistBatch, PersistBatchFails
<1>5. CASE AckBatch(p) \/ AckBatchFails(p)
  BY <1>5 DEF AckBatch, AckBatchFails
<1> QED BY <1>1, <1>2, <1>3, <1>4, <1>5 DEF WorkerStep, WorkerFails

\* The remaining steps: idle time, the reclaim interval, crashes and restarts.
LEMMA OtherCases ==
    ASSUME IInv, [Next]_vars,
           \A e \in Events : ~Handler(e),
           \A p \in Procs : ~(WorkerStep(p) \/ WorkerFails(p))
    PROVE  /\ UNCHANGED <<streamVars, tableVars, delivered, pending, acked, owner>>
           /\ stale' = stale \/ \E e \in pending : stale' = stale \cup {e}
           /\ task' = task \/ \E p \in Procs :
                 task' = [e \in Events |->
                            IF owner[e] = p /\ task[e] \in {"enqueue", "fallback"}
                            THEN "lost" ELSE task[e]]
           /\ \/ UNCHANGED <<pc, batch>>
              \/ \E p \in Procs :
                    /\ \E x \in {"down", "start"} : pc' = [pc EXCEPT ![p] = x]
                    /\ batch' = batch \/ batch' = [batch EXCEPT ![p] = {}]
<1>1. \/ \E e \in Events : IdleTooLong(e)
      \/ \E p \in Procs : ReclaimIntervalOver(p)
      \/ \E p \in Procs : Crash(p)
      \/ \E p \in Procs : Restart(p)
      \/ UNCHANGED vars
  BY DEF Next
<1> USE DEF appVars, streamVars, groupVars, tableVars, workerVars
<1>2. CASE \E e \in Events : IdleTooLong(e)
  BY <1>2 DEF IdleTooLong
<1>3. CASE \E p \in Procs : ReclaimIntervalOver(p)
  BY <1>3 DEF ReclaimIntervalOver
<1>4. CASE \E p \in Procs : Crash(p)
  BY <1>4 DEF Crash
<1>5. CASE \E p \in Procs : Restart(p)
  BY <1>5 DEF Restart
<1>6. CASE UNCHANGED vars
  BY <1>6 DEF vars
<1> QED BY <1>1, <1>2, <1>3, <1>4, <1>5, <1>6

LEMMA JournalInvKept ==
    ASSUME IInv, JournalInv, [Next]_vars
    PROVE  JournalInv'
<1> USE DEF IInv, TypeOK, JournalInv
<1>1. ASSUME NEW e \in Events, Handler(e) PROVE JournalInv'
  <2>1. PICK x \in TaskState : task' = [task EXCEPT ![e] = x]
    BY <1>1, HandlerCases
  <2>2. CASE XAdd(e) /\ task[e] = "enqueue" /\ x \notin {"none", "enqueue"} /\ direct' = direct
    BY <2>1, <2>2, XAddFacts DEF groupVars, tableVars, workerVars
  <2>3. CASE UNCHANGED <<streamVars, groupVars, workerVars, keyed, direct>> /\ x # "none"
             /\ (task[e] = "none" \/ x # "enqueue")
    BY <2>1, <2>3 DEF streamVars, groupVars, workerVars
  <2>4. CASE /\ UNCHANGED <<streamVars, groupVars, workerVars, keyed>>
             /\ x = "done" /\ direct' = direct \cup {e}
    BY <2>1, <2>4 DEF streamVars, groupVars, workerVars
  <2>5. task'[e] = x
    BY <2>1
  <2> QED BY <1>1, <2>2, <2>3, <2>4, <2>5, HandlerCases
<1>2. ASSUME NEW p \in Procs, WorkerStep(p) \/ WorkerFails(p) PROVE JournalInv'
  <2>1. UNCHANGED <<appVars, streamVars, direct>>
    BY <1>2, WorkerCases
  <2>2. \A e \in Claimed \cup Fresh : e \in stream /\ entryId[e] # 0
    BY FirstOfSubset DEF Claimed, Fresh, IdsWellFormed
  <2>3. /\ batch' \in {batch, [batch EXCEPT ![p] = Claimed], [batch EXCEPT ![p] = Fresh],
                       [batch EXCEPT ![p] = {}]}
    BY <1>2, WorkerCases
  <2>4. \A q \in Procs : \A e \in batch'[q] : entryId'[e] # 0
    BY <2>1, <2>2, <2>3 DEF streamVars
  <2>5. \/ keyed' = keyed
        \/ InsertRows(Decoded(batch[p]))
    BY <1>2, WorkerCases
  <2>6. \A e \in Events : keyed'[e] > 0 => entryId'[e] # 0
    BY <2>1, <2>5 DEF InsertRows, Decoded, streamVars
  <2>7. XAutoClaim \/ XReadGroup \/ XAck(batch[p]) \/ UNCHANGED groupVars
    BY <1>2, WorkerCases
  <2>8. stale' \subseteq pending'
    BY <2>7 DEF XAutoClaim, XReadGroup, XAck, groupVars
  <2> QED BY <2>1, <2>4, <2>6, <2>8 DEF appVars
<1>3. ASSUME \A e \in Events : ~Handler(e), \A p \in Procs : ~(WorkerStep(p) \/ WorkerFails(p))
      PROVE JournalInv'
  BY <1>3, OtherCases DEF streamVars, tableVars
<1> QED BY <1>1, <1>2, <1>3

\* A stored event stays stored.
LEMMA StoredStays ==
    ASSUME IInv, [Next]_vars, NEW e \in Events, Stored(e)
    PROVE  Stored(e)'
<1> USE DEF Stored
<1>1. ASSUME NEW f \in Events, Handler(f) PROVE keyed' = keyed /\ direct \subseteq direct'
  BY <1>1, HandlerCases
<1>2. ASSUME NEW p \in Procs, WorkerStep(p) \/ WorkerFails(p)
      PROVE  direct' = direct /\ (keyed[e] > 0 => keyed'[e] > 0)
  <2>1. direct' = direct /\ (keyed' = keyed \/ InsertRows(Decoded(batch[p])))
    BY <1>2, WorkerCases
  <2> QED BY <2>1 DEF InsertRows
<1>3. ASSUME \A f \in Events : ~Handler(f), \A p \in Procs : ~(WorkerStep(p) \/ WorkerFails(p))
      PROVE  keyed' = keyed /\ direct' = direct
  BY <1>3, OtherCases DEF tableVars
<1> QED BY <1>1, <1>2, <1>3

\* A task moves forward only.
LEMMA TaskSteps ==
    ASSUME IInv, [Next]_vars, NEW e \in Events
    PROVE  \/ task'[e] = task[e]
           \/ task[e] = "none" /\ task'[e] = "enqueue"
           \/ task[e] \in {"enqueue", "fallback"} /\ task'[e] \notin {"none", "enqueue"}
<1> USE DEF IInv, TypeOK
<1>1. ASSUME NEW f \in Events, Handler(f)
      PROVE  \/ task'[e] = task[e]
             \/ task[e] = "none" /\ task'[e] = "enqueue"
             \/ task[e] \in {"enqueue", "fallback"} /\ task'[e] \notin {"none", "enqueue"}
  <2>1. CASE e = f
    BY <1>1, <2>1, HandlerCases
  <2>2. CASE e # f
    BY <1>1, <2>2, HandlerCases
  <2> QED BY <2>1, <2>2
<1>2. ASSUME NEW p \in Procs, WorkerStep(p) \/ WorkerFails(p) PROVE task' = task
  BY <1>2, WorkerCases DEF appVars
<1>3. ASSUME \A f \in Events : ~Handler(f), \A p \in Procs : ~(WorkerStep(p) \/ WorkerFails(p))
      PROVE  task'[e] = task[e] \/ (task[e] \in {"enqueue", "fallback"} /\ task'[e] = "lost")
  BY <1>3, OtherCases
<1> QED BY <1>1, <1>2, <1>3

\* Nothing brings back an event whose task is over and that no step of the code
\* can store any more.
LEMMA DroppedStays ==
    ASSUME IInv, JournalInv, [Next]_vars, NEW e \in Events,
           task[e] \in {"done", "lost"}, ~Stored(e), ~Recoverable(e)
    PROVE  ~Stored(e)' /\ ~Recoverable(e)'
<1> USE DEF IInv, TypeOK, JournalInv, Stored, Recoverable
<1>1. ASSUME NEW f \in Events, Handler(f) PROVE ~Stored(e)' /\ ~Recoverable(e)'
  <2>1. /\ UNCHANGED <<groupVars, workerVars, keyed>> /\ e \notin direct'
        /\ \/ UNCHANGED streamVars
           \/ f # e /\ task[f] = "enqueue" /\ XAdd(f)
    <3>1. task[f] \in {"none", "enqueue", "fallback"}
      BY <1>1, HandlerCases
    <3>2. f # e
      BY <3>1
    <3> QED BY <1>1, <3>1, <3>2, HandlerCases
  <2>2. (e \in stream' => e \in stream) /\ entryId'[e] = entryId[e]
    BY <2>1, XAddFacts DEF streamVars
  <2> QED BY <2>1, <2>2 DEF groupVars, workerVars
<1>2. ASSUME NEW p \in Procs, WorkerStep(p) \/ WorkerFails(p) PROVE ~Stored(e)' /\ ~Recoverable(e)'
  <2>1. UNCHANGED <<appVars, streamVars, direct>>
    BY <1>2, WorkerCases
  <2>2. e \notin Claimed /\ e \notin Fresh
    <3>1. Claimed \subseteq stale \cap stream /\ Fresh \subseteq stream \ delivered
      BY FirstOfSubset DEF Claimed, Fresh
    <3> QED BY <3>1 DEF IdsWellFormed
  <2>3. keyed[e] = 0 /\ keyed'[e] = 0
    <3>1. keyed' = keyed \/ (pc[p] = "write" /\ InsertRows(Decoded(batch[p])))
      BY <1>2, WorkerCases
    <3> QED BY <3>1 DEF InsertRows, Decoded
  <2>4. \A q \in Procs : ~(pc'[q] = "write" /\ e \in batch'[q])
    <3>1. \A q \in Procs \ {p} : pc'[q] = pc[q] /\ batch'[q] = batch[q]
      BY <1>2, WorkerCases
    <3>2. pc'[p] = "write" => batch'[p] \in {Claimed, Fresh}
      BY <1>2, WorkerCases
    <3> QED BY <2>2, <3>1, <3>2
  <2>5. ~(e \in stream' /\ entryId'[e] # 0 /\ (e \in delivered' => e \in pending'))
    <3>1. XAutoClaim \/ XReadGroup \/ XAck(batch[p]) \/ UNCHANGED groupVars
      BY <1>2, WorkerCases
    <3> QED BY <2>1, <2>2, <3>1 DEF streamVars, groupVars, XAutoClaim, XReadGroup, XAck
  <2> QED BY <2>1, <2>3, <2>4, <2>5
<1>3. ASSUME \A f \in Events : ~Handler(f), \A p \in Procs : ~(WorkerStep(p) \/ WorkerFails(p))
      PROVE  ~Stored(e)' /\ ~Recoverable(e)'
  <2>1. UNCHANGED <<streamVars, tableVars, delivered, pending>>
    BY <1>3, OtherCases
  <2>2. \A q \in Procs : pc'[q] = "write" /\ e \in batch'[q] => pc[q] = "write" /\ e \in batch[q]
    BY <1>3, OtherCases
  <2> QED BY <2>1, <2>2 DEF streamVars, tableVars
<1> QED BY <1>1, <1>2, <1>3

\* An entry keeps its id, and what was evicted stays evicted.
LEMMA EntryIdStays ==
    ASSUME IInv, [Next]_vars
    PROVE  /\ \A e \in Events : entryId[e] # 0 => entryId'[e] # 0
           /\ trimmed \subseteq trimmed'
<1> USE DEF IInv, TypeOK
<1>1. ASSUME NEW f \in Events, Handler(f)
      PROVE  /\ \A e \in Events : entryId[e] # 0 => entryId'[e] # 0
             /\ trimmed \subseteq trimmed'
  BY <1>1, HandlerCases, XAddFacts DEF streamVars
<1>2. ASSUME NEW p \in Procs, WorkerStep(p) \/ WorkerFails(p) PROVE UNCHANGED streamVars
  BY <1>2, WorkerCases
<1>3. ASSUME \A f \in Events : ~Handler(f), \A p \in Procs : ~(WorkerStep(p) \/ WorkerFails(p))
      PROVE  UNCHANGED streamVars
  BY <1>3, OtherCases
<1> QED BY <1>1, <1>2, <1>3 DEF streamVars

\* A step of the pipeline is, for each event, a step of the abstract journal.
LEMMA StepAdvances ==
    ASSUME IInv, JournalInv, IInv', JournalInv', [Next]_vars, NEW e \in Events
    PROVE  Journal!Advance(e, JournalState(e), JournalState(e)')
<1> USE DEF Journal!Advance
<1>1. CASE Stored(e)
  <2>1. JournalState(e) = "stored" /\ JournalState(e)' = "stored"
    BY <1>1, StoredStays DEF JournalState
  <2> QED BY <2>1
<1>2. CASE ~Stored(e) /\ task[e] = "none"
  <2>1. JournalState(e) = "unlogged"
    BY <1>2 DEF JournalState
  <2>2. task'[e] \in {"none", "enqueue"}
    BY <1>2, TaskSteps
  <2>3. ~Stored(e)'
    BY <2>2 DEF Stored, IInv, JournalInv, IdsWellFormed, TypeOK
  <2>4. JournalState(e)' \in {"unlogged", "logging"}
    BY <2>2, <2>3 DEF JournalState
  <2> QED BY <2>1, <2>4
<1>3. CASE ~Stored(e) /\ task[e] \in {"enqueue", "fallback"}
  <2>1. JournalState(e) = "logging"
    BY <1>3 DEF JournalState
  <2>2. task'[e] # "none"
    BY <1>3, TaskSteps
  <2>3. JournalState(e)' \in {"logging", "queued", "stored", "dropped"}
    BY <2>2 DEF JournalState
  <2> QED BY <2>1, <2>3
<1>4. CASE ~Stored(e) /\ task[e] \in {"done", "lost"}
  <2>1. task'[e] = task[e]
    BY <1>4, TaskSteps
  <2>2. CASE ~Recoverable(e)
    <3>1. JournalState(e) = "dropped"
      BY <1>4, <2>2 DEF JournalState
    <3>2. JournalState(e)' = "dropped"
      BY <1>4, <2>1, <2>2, DroppedStays DEF JournalState
    <3> QED BY <3>1, <3>2
  <2>3. CASE Recoverable(e)
    <3>1. JournalState(e) = "queued"
      BY <1>4, <2>3 DEF JournalState
    <3>2. JournalState(e)' \in {"stored", "queued", "dropped"}
      BY <1>4, <2>1 DEF JournalState
    <3>3. JournalState(e)' = "dropped" => e \in Malformed \cup trimmed'
      <4>1. SUFFICES ASSUME ~Stored(e)', ~Recoverable(e)', e \notin Malformed
                     PROVE  e \in trimmed'
        BY <1>4, <2>1 DEF JournalState
      <4>2. entryId'[e] # 0
        BY <1>4, <2>3, EntryIdStays DEF Recoverable, JournalInv
      <4>3. keyed'[e] = 0
        BY <4>1 DEF Stored, IInv, TypeOK
      <4> QED BY <4>1, <4>2, <4>3 DEF Recoverable, IInv, UnstoredIsRecoverable
    <3> QED BY <3>1, <3>2, <3>3
  <2> QED BY <2>2, <2>3
<1>5. task[e] \in TaskState
  BY DEF IInv, TypeOK
<1> QED BY <1>1, <1>2, <1>3, <1>4, <1>5 DEF TaskState

\* The pipeline implements the abstract journal: a stored event stays stored, a
\* queued one is given up only when malformed or evicted, and a dropped one
\* never comes back, whatever crashes, fails or is delivered twice.
THEOREM JournalImplemented == Spec => JournalSpec
<1>1. Init => JournalInv
  BY DEF Init, JournalInv
<1>2. IInv /\ JournalInv /\ [Next]_vars => JournalInv'
  BY JournalInvKept
<1>3. Init => Journal!Init
  BY DEF Init, Journal!Init, JournalState, Stored
<1>4. IInv /\ JournalInv /\ IInv' /\ JournalInv' /\ [Next]_vars => [Journal!Next]_(Journal!vars)
  <2> SUFFICES ASSUME IInv, JournalInv, IInv', JournalInv', [Next]_vars PROVE Journal!Next
    OBVIOUS
  <2>1. trimmed \subseteq trimmed' /\ trimmed' \subseteq Events
    BY EntryIdStays DEF IInv, TypeOK
  <2>2. \A e \in Events : JournalState(e)' \in Journal!State
    BY DEF JournalState, Journal!State
  <2>3. \A e \in Events : Journal!Advance(e, JournalState(e), JournalState(e)')
    BY StepAdvances
  <2> QED BY <2>1, <2>2, <2>3 DEF Journal!Next
<1> QED BY <1>1, <1>2, <1>3, <1>4, InductiveInvariant, PTL DEF Spec, JournalSpec, Journal!Spec

(***************************************************************************)
(* One row per event                                                       *)
(***************************************************************************)
\* While no reply of an XADD is lost, a task that falls back has no entry and
\* no direct row yet, and an event with a direct row has no entry.
FallbackInv ==
    /\ \A e \in Events : task[e] = "fallback" => entryId[e] = 0 /\ e \notin direct
    /\ \A e \in direct : entryId[e] = 0 /\ task[e] = "done"

LEMMA FallbackKept ==
    ASSUME LoseAddReply = FALSE, IInv, JournalInv, FallbackInv, [Next]_vars
    PROVE  FallbackInv'
<1> USE DEF IInv, TypeOK, FallbackInv
<1>1. ASSUME NEW e \in Events, Handler(e) PROVE FallbackInv'
  <2>1. PICK x \in TaskState : task' = [task EXCEPT ![e] = x]
    BY <1>1, HandlerCases
  <2>2. e \notin direct
    BY <1>1, HandlerCases DEF JournalInv
  <2>3. CASE task[e] = "enqueue" /\ XAdd(e) /\ x = "done" /\ direct' = direct
    BY <2>1, <2>2, <2>3, XAddFacts
  <2>4. CASE /\ x # "done" /\ UNCHANGED <<streamVars, direct>>
             /\ x = "fallback" => task[e] = "enqueue"
    BY <2>1, <2>2, <2>4 DEF streamVars, JournalInv, IdsWellFormed
  <2>5. CASE task[e] = "fallback" /\ x = "done" /\ direct' = direct \cup {e} /\ UNCHANGED streamVars
    BY <2>1, <2>5 DEF streamVars
  <2>6. task'[e] = x
    BY <2>1
  <2> QED BY <1>1, <2>3, <2>4, <2>5, <2>6, HandlerCases
<1>2. ASSUME NEW p \in Procs, WorkerStep(p) \/ WorkerFails(p) PROVE FallbackInv'
  BY <1>2, WorkerCases DEF appVars, streamVars
<1>3. ASSUME \A e \in Events : ~Handler(e), \A p \in Procs : ~(WorkerStep(p) \/ WorkerFails(p))
      PROVE FallbackInv'
  BY <1>3, OtherCases DEF streamVars, tableVars
<1> QED BY <1>1, <1>2, <1>3

\* One finished call has at most one row, keyed or direct, as long as no XADD
\* that was applied loses its reply.
THEOREM EventStoredOnce ==
    ASSUME LoseAddReply = FALSE
    PROVE  Spec => []OneRowPerEvent
<1>1. Init => JournalInv /\ FallbackInv
  BY DEF Init, JournalInv, FallbackInv
<1>2. IInv /\ JournalInv /\ FallbackInv /\ [Next]_vars => JournalInv' /\ FallbackInv'
  BY JournalInvKept, FallbackKept
<1>3. IInv /\ JournalInv /\ FallbackInv => OneRowPerEvent
  BY DEF IInv, TypeOK, JournalInv, FallbackInv, OneRowPerEntry, OneRowPerEvent, RowCount
<1> QED BY <1>1, <1>2, <1>3, InductiveInvariant, PTL DEF Spec
=============================================================================
