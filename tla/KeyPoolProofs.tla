---------------------------- MODULE KeyPoolProofs ---------------------------
(***************************************************************************)
(* Proofs about KeyPool, for any set of credentials, any number of         *)
(* requests of either kind and any number of operator operations.          *)
(***************************************************************************)
EXTENDS KeyPool, SequenceLemmas, SequenceTheorems, FiniteSetTheorems, TLAPS

\* Before any removal of the provider an empty pool is one that never had a key,
\* and its index is still 0, so that the first key added is in range.
IndexStarts == wiped \/ (keys = <<>> /\ idx = 0) \/ idx < Len(keys)

\* The inductive invariant of every history.
PoolInv == TypeOK /\ StatusMatchesPool

\* Its strengthening for the index.
IndexInv == PoolInv /\ IndexStarts

\* The part of the invariants that the request loops write.
RequestsTyped ==
    /\ at \in [Reqs -> Where]
    /\ attempt \in [Reqs -> Nat]
    /\ budget \in [Reqs -> Nat]
    /\ level \in [Reqs -> 0..LastLevel]
    /\ using \in [Reqs -> Keys \cup {NoKey}]
    /\ tried \in [Reqs -> SUBSET (Keys \cup {NoKey})]

\* The part the pool's operations write.
PoolTyped ==
    /\ keys \in Seq(Keys)
    /\ idx \in Nat
    /\ status \in [Keys -> Status]
    /\ disabled \in BOOLEAN
    /\ removing \in BOOLEAN
    /\ wiped \in BOOLEAN

\* The two parts, with the histories, are the type invariant.
LEMMA TypeParts ==
    /\ TypeOK <=> PoolTyped /\ RequestsTyped /\ alone \in [Reqs -> BOOLEAN] /\ ops \in Nat
    /\ TypeOK' <=> PoolTyped' /\ RequestsTyped' /\ (alone \in [Reqs -> BOOLEAN])' /\ (ops \in Nat)'
BY DEF TypeOK, PoolTyped, RequestsTyped

\* rotate_*_key stays in the list, keeps the keys and marks only a pooled key.
LEMMA RotateFacts ==
    ASSUME PoolInv, Rotate
    PROVE  /\ PoolTyped' /\ StatusMatchesPool'
           /\ IndexStarts => IndexStarts'
           /\ RotatedIndex \in Nat
<1> USE DEF PoolInv
<1>1. /\ keys \in Seq(Keys) /\ Len(keys) \in Nat /\ idx \in Nat
      /\ DOMAIN keys = 1..Len(keys)
      /\ \A i \in 1..Len(keys) : keys[i] \in Keys
  BY LenProperties, ElementOfSeq DEF TypeOK
<1>2. /\ keys' = keys /\ disabled' = disabled /\ removing' = removing /\ wiped' = wiped
      /\ idx' = RotatedIndex
  BY DEF Rotate
<1>3. CASE Len(keys) <= 1
  BY <1>1, <1>2, <1>3
     DEF Rotate, RotatedIndex, TypeOK, PoolTyped, StatusMatchesPool, IndexStarts
<1>4. CASE ~(Len(keys) <= 1)
  <2> DEFINE k == keys[RotatedIndex + 1]
  <2>1. RotatedIndex \in Nat /\ RotatedIndex < Len(keys)
    BY <1>1, <1>4 DEF RotatedIndex
  <2>2. RotatedIndex + 1 \in 1..Len(keys)
    BY <2>1, <1>1
  <2>3. k \in Keys /\ k \in ToSet(keys)
    BY <2>2, <1>1 DEF ToSet
  <2>4. status' = [status EXCEPT ![k] = "Active"]
    BY <1>4 DEF Rotate
  <2>5. PoolTyped'
    BY <1>2, <2>1, <2>3, <2>4 DEF TypeOK, PoolTyped, Status
  <2>6. StatusMatchesPool'
    <3> HIDE DEF k
    <3> QED BY <1>2, <2>3, <2>4 DEF TypeOK, StatusMatchesPool
  <2> QED BY <2>1, <2>5, <2>6, <1>2 DEF IndexStarts
<1> QED BY <1>3, <1>4, <1>1

\* One iteration of a loop, from any index, keeps the types.
LEMMA TryNextTyped ==
    ASSUME TypeOK, NEW r \in Reqs, NEW n \in Nat, NEW b \in Nat,
           NEW c \in 0..LastLevel, NEW seen \in SUBSET (Keys \cup {NoKey}),
           NEW i \in Nat, TryNext(r, n, b, c, seen, i)
    PROVE  RequestsTyped'
<1>1. /\ attempt' = [attempt EXCEPT ![r] = n]
      /\ budget' = [budget EXCEPT ![r] = b]
      /\ level' = [level EXCEPT ![r] = c]
  BY DEF TryNext
<1>2. /\ at' \in [Reqs -> Where]
      /\ using' \in [Reqs -> Keys \cup {NoKey}]
      /\ tried' \in [Reqs -> SUBSET (Keys \cup {NoKey})]
  <2>1. CASE n >= b
    BY <2>1 DEF TryNext, TypeOK, Where, Ended
  <2>2. CASE ~(n >= b) /\ keys # <<>> /\ i >= Len(keys)
    BY <2>2 DEF TryNext, TypeOK, Where, Ended
  <2>3. CASE ~(n >= b) /\ ~(keys # <<>> /\ i >= Len(keys))
    <3>1. CurrentKey(keys, i) \in Keys \cup {NoKey}
      <4>1. CASE keys = <<>>
        BY <4>1 DEF CurrentKey
      <4>2. CASE keys # <<>>
        <5>1. i + 1 \in 1..Len(keys)
          BY <4>2, <2>3, LenProperties DEF TypeOK
        <5> QED BY <5>1, <4>2, ElementOfSeq DEF CurrentKey, TypeOK
      <4> QED BY <4>1, <4>2
    <3>2. /\ at' = [at EXCEPT ![r] = "upstream"]
          /\ using' = [using EXCEPT ![r] = CurrentKey(keys, i)]
          /\ tried' = [tried EXCEPT ![r] = seen \cup {CurrentKey(keys, i)}]
      BY <2>3 DEF TryNext
    <3> HIDE DEF CurrentKey
    <3> QED BY <3>1, <3>2 DEF TypeOK, Where
  <2> QED BY <2>1, <2>2, <2>3
<1> QED BY <1>1, <1>2 DEF RequestsTyped, TypeOK

\* Every step of a request keeps the invariant, and the index in range.
LEMMA RequestPreserves ==
    ASSUME PoolInv, NEW r \in Reqs, Request(r)
    PROVE  PoolInv' /\ (IndexStarts => IndexStarts')
<1> USE DEF PoolInv
<1>1. Len(keys) \in Nat
  BY LenProperties DEF TypeOK
<1>2. ASSUME UNCHANGED poolVars
      PROVE  PoolTyped' /\ StatusMatchesPool' /\ (IndexStarts => IndexStarts')
  BY <1>2 DEF poolVars, TypeOK, PoolTyped, StatusMatchesPool, IndexStarts
<1>3. ASSUME NEW outcome \in Ended, Finish(r, outcome) PROVE RequestsTyped'
  BY <1>3 DEF Finish, RequestsTyped, TypeOK, Where
<1>4. ASSUME at' = [at EXCEPT ![r] = "broadcast"],
             UNCHANGED <<attempt, budget, level, using, tried>>
      PROVE  RequestsTyped'
  BY <1>4 DEF RequestsTyped, TypeOK, Where
<1>5. ASSUME NEW S, Disturb(S) PROVE alone' \in [Reqs -> BOOLEAN]
  BY <1>5 DEF Disturb, TypeOK
<1>6. {"served", "rejected", "exhausted", "tooLong", "refused"} \subseteq Ended
  BY DEF Ended
<1>7. CASE Begin(r)
  <2>1. RequestsTyped'
    BY <1>7, <1>1, <1>3, <1>6, TryNextTyped DEF Begin, LastLevel, TypeOK
  <2> QED BY <1>7, <1>2, <2>1, TypeParts DEF Begin, TypeOK
<1>8. CASE Succeed(r) \/ Reject(r)
  BY <1>8, <1>2, <1>3, <1>6, TypeParts DEF Succeed, Reject, TypeOK
<1>9. CASE SucceedSlowly(r)
  BY <1>9, RotateFacts, <1>3, <1>5, <1>6, TypeParts DEF SucceedSlowly, TypeOK
<1>10. CASE MessagesRetryable(r)
  BY <1>10, RotateFacts, <1>4, <1>5, TypeParts DEF MessagesRetryable, TypeOK
<1>11. CASE MessagesException(r)
  BY <1>11, RotateFacts, <1>2, <1>3, <1>4, <1>5, <1>6, TypeParts
     DEF MessagesException, TypeOK
<1>12. CASE MessagesContinue(r)
  <2>1. RequestsTyped'
    BY <1>12, TryNextTyped DEF MessagesContinue, TypeOK
  <2> QED BY <1>12, <1>2, <2>1, TypeParts DEF MessagesContinue, TypeOK
<1>13. CASE MessagesContextWindow(r)
  <2>1. RequestsTyped'
    <3>1. CASE level[r] < LastLevel
      <4>1. level[r] + 1 \in 0..LastLevel
        <5>1. level[r] \in 0..2
          BY DEF TypeOK, LastLevel
        <5> QED BY <3>1, <5>1 DEF LastLevel
      <4>2. TryNext(r, 0, Len(keys), level[r] + 1, {}, idx)
        BY <1>13, <3>1 DEF MessagesContextWindow
      <4>3. idx \in Nat /\ 0 \in Nat /\ {} \in SUBSET (Keys \cup {NoKey})
        BY DEF TypeOK
      <4> DEFINE c == level[r] + 1
      <4> HIDE DEF c
      <4>4. c \in 0..LastLevel /\ TryNext(r, 0, Len(keys), c, {}, idx)
        BY <4>1, <4>2 DEF c
      <4> QED BY <4>3, <4>4, <1>1, TryNextTyped
    <3>2. CASE ~(level[r] < LastLevel)
      BY <1>13, <3>2, <1>3, <1>6 DEF MessagesContextWindow
    <3> QED BY <3>1, <3>2
  <2> QED BY <1>13, <1>2, <2>1, TypeParts DEF MessagesContextWindow, TypeOK
<1>14. CASE ChatRetryable(r)
  <2>1. CASE attempt[r] + 1 < Len(keys)
    <3>1. Rotate /\ Disturb({r}) /\ ops' = ops
          /\ TryNext(r, attempt[r] + 1, budget[r], 0, tried[r], RotatedIndex)
      BY <1>14, <2>1 DEF ChatRetryable
    <3>2. RequestsTyped'
      BY <3>1, RotateFacts, TryNextTyped DEF TypeOK, LastLevel
    <3> QED BY <3>1, <3>2, RotateFacts, <1>5, TypeParts DEF TypeOK
  <2>2. CASE ~(attempt[r] + 1 < Len(keys))
    BY <1>14, <2>2, <1>2, <1>3, <1>6, TypeParts DEF ChatRetryable, TypeOK
  <2> QED BY <2>1, <2>2
<1> QED BY <1>7, <1>8, <1>9, <1>10, <1>11, <1>12, <1>13, <1>14 DEF Request

\* The initial pool satisfies the invariants.
LEMMA InitPool == Init => PoolInv /\ IndexStarts
<1> SUFFICES ASSUME Init PROVE PoolInv /\ IndexStarts
  OBVIOUS
<1>1. /\ keys \in Seq(Keys) /\ Len(keys) \in Nat
      /\ DOMAIN keys = 1..Len(keys)
      /\ keys = InitialKeys /\ idx = 0
  BY PoolAssumption, LenProperties DEF Init
<1>2. IndexStarts
  BY <1>1, EmptySeq DEF IndexStarts
<1>3. \A k \in Keys : status[k] # "none" <=> k \in ToSet(keys)
  BY <1>1 DEF Init
<1>4. StatusMatchesPool
  BY <1>1, <1>3, PoolAssumption DEF StatusMatchesPool
<1>5. status \in [Keys -> Status]
  BY <1>1 DEF Init, Status
<1>6. RequestsTyped /\ alone \in [Reqs -> BOOLEAN] /\ ops \in Nat
  BY DEF Init, RequestsTyped, Where, LastLevel
<1>7. PoolTyped
  <2>1. disabled \in BOOLEAN /\ removing \in BOOLEAN /\ wiped \in BOOLEAN
    BY DEF Init
  <2> QED BY <1>1, <1>5, <2>1 DEF PoolTyped
<1> QED BY <1>2, <1>4, <1>6, <1>7, TypeParts DEF PoolInv

\* What an operator action leaves to the request loops.
LEMMA OperatorTyped ==
    ASSUME TypeOK, Operator
    PROVE  /\ RequestsTyped' /\ (alone \in [Reqs -> BOOLEAN])' /\ (ops \in Nat)'
<1>1. RequestsTyped' /\ (alone \in [Reqs -> BOOLEAN])'
  BY DEF Operator, Disturb, reqVars, RequestsTyped, TypeOK
<1>2. \A op : Operate(op) => ops' = ops + 1
  BY DEF Operate
<1>3. \A k \in Keys : AddApiKey(k) \/ ResetKeyStatus(k) => ops' = ops + 1
  BY <1>2 DEF AddApiKey, ResetKeyStatus
<1>4. \A p \in 1..Len(keys) : RemoveApiKey(p) \/ SetActiveKey(p) => ops' = ops + 1
  BY <1>2 DEF RemoveApiKey, SetActiveKey
<1>5. (RemoveProvider => ops' = ops + 1) /\ (RemoveProviderDone => ops' = ops)
  BY <1>2 DEF RemoveProvider, RemoveProviderDone
<1>6. ops' = ops \/ ops' = ops + 1
  BY <1>3, <1>4, <1>5 DEF Operator
<1> QED BY <1>1, <1>6 DEF TypeOK

\* add_api_key extends the list by a key it did not hold.
LEMMA AddPreserves ==
    ASSUME PoolInv, NEW k \in Keys, AddApiKey(k)
    PROVE  PoolTyped' /\ StatusMatchesPool' /\ (IndexStarts => IndexStarts')
<1> USE DEF PoolInv
<1>1. /\ Len(keys) \in Nat /\ DOMAIN keys = 1..Len(keys)
      /\ keys' \in Seq(Keys) /\ Len(keys') = Len(keys) + 1
      /\ \A i \in 1..Len(keys) : keys'[i] = keys[i]
      /\ keys'[Len(keys) + 1] = k
      /\ DOMAIN keys' = 1..Len(keys) + 1
      /\ Len(<<>>) = 0
  BY LenProperties, AppendProperties, EmptySeq DEF AddApiKey, TypeOK
<1>2. /\ k \notin ToSet(keys) /\ idx' = idx /\ removing' = removing /\ wiped' = wiped
      /\ disabled' = FALSE /\ status' = [status EXCEPT ![k] = "Standby"]
  BY DEF AddApiKey
<1>3. PoolTyped'
  BY <1>1, <1>2 DEF PoolTyped, TypeOK, Status
<1>4. IndexStarts => IndexStarts'
  BY <1>1, <1>2 DEF IndexStarts, TypeOK
<1>5. ToSet(keys') = ToSet(keys) \cup {k}
  <2>1. ToSet(keys') \subseteq ToSet(keys) \cup {k}
    BY <1>1 DEF ToSet
  <2>2. ToSet(keys) \subseteq ToSet(keys')
    BY <1>1 DEF ToSet
  <2>3. k \in ToSet(keys')
    BY <1>1 DEF ToSet
  <2> QED BY <2>1, <2>2, <2>3
<1>6. \A i, j \in 1..Len(keys') : keys'[i] = keys'[j] => i = j
  <2>1. \A i \in 1..Len(keys) : keys[i] # k
    BY <1>1, <1>2 DEF ToSet
  <2> QED BY <1>1, <2>1 DEF StatusMatchesPool
<1>7. \A l \in Keys : status'[l] # "none" <=> l \in ToSet(keys')
  BY <1>2, <1>5 DEF StatusMatchesPool, TypeOK
<1> QED BY <1>3, <1>4, <1>6, <1>7 DEF StatusMatchesPool

\* remove_api_key: whatever key the rotation lands on, the recomputed index is
\* in range and the removed key leaves no status behind.
LEMMA RemovePreserves ==
    ASSUME PoolInv, NEW p \in 1..Len(keys), RemoveApiKey(p)
    PROVE  PoolTyped' /\ StatusMatchesPool' /\ IndexStarts'
<1> USE DEF PoolInv
<1> DEFINE k == keys[p]
           i == IF p = idx + 1 THEN RotatedIndex ELSE idx
           now == IF p = idx + 1
                  THEN [status EXCEPT ![keys[RotatedIndex + 1]] = "Active"]
                  ELSE status
<1>1. /\ Len(keys) \in Nat /\ DOMAIN keys = 1..Len(keys)
      /\ \A j \in 1..Len(keys) : keys[j] \in Keys
      /\ idx \in Nat /\ status \in [Keys -> Status]
  BY LenProperties, ElementOfSeq DEF TypeOK
<1>2. /\ keys' = RemoveAt(keys, p) /\ Len(keys) > 1
      /\ idx' = IF i < Len(keys) - 1 THEN i ELSE 0
      /\ status' = [now EXCEPT ![k] = "none"]
      /\ disabled' = disabled /\ removing' = removing /\ wiped' = wiped
  BY DEF RemoveApiKey, IndexAfterRemoval
<1>3. /\ keys' \in Seq(Keys) /\ Len(keys') = Len(keys) - 1
      /\ ToSet(keys') = ToSet(keys) \ {k}
      /\ \A j, l \in 1..Len(keys') : keys'[j] = keys'[l] => j = l
  <2>1. /\ keys \in Seq(Keys)
        /\ \A j, l \in 1..Len(keys) : keys[j] = keys[l] => j = l
    BY DEF StatusMatchesPool, TypeOK
  <2> DEFINE rest == RemoveAt(keys, p)
  <2>2. /\ rest \in Seq(Keys) /\ Len(rest) = Len(keys) - 1
        /\ ToSet(rest) = ToSet(keys) \ {keys[p]}
        /\ \A j, l \in 1..Len(keys) - 1 : rest[j] = rest[l] => j = l
    BY ONLY <2>1, p \in 1..Len(keys), RemoveAtFacts
  <2> HIDE DEF rest
  <2>3. keys' = rest
    BY <1>2 DEF rest
  <2> QED BY <2>2, <2>3
<1>4. RotatedIndex \in Nat /\ RotatedIndex < Len(keys)
  BY <1>1, <1>2 DEF RotatedIndex
<1>5. i \in Nat
  BY <1>1, <1>4
<1>6. idx' \in Nat /\ IndexStarts'
  <2> HIDE DEF i
  <2> QED BY <1>1, <1>2, <1>3, <1>5 DEF IndexStarts
<1>7. k \in Keys /\ k \in ToSet(keys)
  BY <1>1 DEF ToSet
<1>8. now \in [Keys -> Status] /\ \A l \in Keys : now[l] # "none" <=> l \in ToSet(keys)
  <2> DEFINE new == keys[RotatedIndex + 1]
  <2>1. new \in Keys /\ new \in ToSet(keys)
    <3>1. RotatedIndex + 1 \in 1..Len(keys)
      BY <1>1, <1>4
    <3> QED BY <3>1, <1>1 DEF ToSet
  <2> HIDE DEF new
  <2>2. now = IF p = idx + 1 THEN [status EXCEPT ![new] = "Active"] ELSE status
    BY DEF new
  <2> HIDE DEF now
  <2> QED BY <2>1, <2>2, <1>1 DEF StatusMatchesPool, Status
<1> HIDE DEF now, k
<1>9. status' \in [Keys -> Status]
      /\ \A l \in Keys : status'[l] # "none" <=> l \in ToSet(keys')
  BY <1>2, <1>3, <1>7, <1>8 DEF Status
<1>10. PoolTyped'
  <2>1. disabled' \in BOOLEAN /\ removing' \in BOOLEAN /\ wiped' \in BOOLEAN
    BY <1>2 DEF TypeOK
  <2> QED BY <1>3, <1>6, <1>9, <2>1 DEF PoolTyped
<1> QED BY <1>3, <1>6, <1>9, <1>10 DEF StatusMatchesPool

\* Every operator action keeps the types, the statuses and the index.
LEMMA OperatorPreserves ==
    ASSUME PoolInv, Operator
    PROVE  /\ PoolInv'
           /\ (IndexStarts => IndexStarts')
<1> USE DEF PoolInv
<1> DEFINE Goal == /\ PoolTyped' /\ StatusMatchesPool'
                   /\ (IndexStarts => IndexStarts')
<1>1. /\ Len(keys) \in Nat /\ DOMAIN keys = 1..Len(keys)
      /\ \A i \in 1..Len(keys) : keys[i] \in Keys
  BY LenProperties, ElementOfSeq DEF TypeOK
<1>2. ASSUME NEW k \in Keys, AddApiKey(k) PROVE Goal
  BY <1>2, AddPreserves
<1>3. ASSUME NEW k \in Keys, ResetKeyStatus(k) PROVE Goal
  BY <1>3 DEF ResetKeyStatus, TypeOK, PoolTyped, StatusMatchesPool, IndexStarts, Status
<1>4. ASSUME NEW p \in 1..Len(keys), RemoveApiKey(p) PROVE Goal
  BY <1>4, RemovePreserves
<1>5. ASSUME NEW p \in 1..Len(keys), SetActiveKey(p) PROVE Goal
  <2>1. /\ keys' = keys /\ disabled' = disabled /\ removing' = removing /\ wiped' = wiped
        /\ idx' = p - 1
    BY <1>5 DEF SetActiveKey
  <2>2. idx' \in Nat /\ IndexStarts'
    BY <1>1, <2>1 DEF IndexStarts
  <2>3. keys[p] \in Keys /\ keys[p] \in ToSet(keys)
    BY <1>1 DEF ToSet
  <2>4. /\ status' \in [Keys -> Status]
        /\ \A l \in Keys : status'[l] # "none" <=> l \in ToSet(keys)
    BY <1>5, <2>3 DEF SetActiveKey, TypeOK, StatusMatchesPool, Status
  <2> QED BY <2>1, <2>2, <2>4 DEF TypeOK, PoolTyped, StatusMatchesPool
<1>6. ASSUME RemoveProvider PROVE Goal
  <2>1. /\ keys' = <<>> /\ idx' = idx /\ disabled' = disabled /\ removing' = TRUE
        /\ wiped' = TRUE
        /\ status' = [k \in Keys |-> IF k \in ToSet(keys) THEN "none" ELSE status[k]]
    BY <1>6 DEF RemoveProvider, Operate
  <2>2. ToSet(keys') = {} /\ Len(keys') = 0 /\ keys' \in Seq(Keys)
    BY <2>1, EmptySeq, LenProperties DEF ToSet
  <2>3. /\ status' \in [Keys -> Status]
        /\ \A l \in Keys : status'[l] = "none"
    BY <2>1 DEF TypeOK, StatusMatchesPool, Status
  <2>4. removing' \in BOOLEAN /\ disabled' \in BOOLEAN /\ wiped' \in BOOLEAN
    BY <2>1 DEF TypeOK
  <2>5. PoolTyped'
    BY <2>1, <2>2, <2>3, <2>4 DEF TypeOK, PoolTyped
  <2>6. StatusMatchesPool'
    BY <2>2, <2>3 DEF StatusMatchesPool
  <2> QED BY <2>1, <2>5, <2>6 DEF IndexStarts
<1>7. ASSUME RemoveProviderDone PROVE Goal
  <2>1. /\ keys' = keys /\ idx' = idx /\ status' = status
        /\ disabled' = TRUE /\ removing' = FALSE /\ wiped' = wiped
    BY <1>7 DEF RemoveProviderDone
  <2>2. removing' \in BOOLEAN /\ disabled' \in BOOLEAN /\ wiped' \in BOOLEAN
    BY <2>1 DEF TypeOK
  <2>3. PoolTyped'
    BY <2>1, <2>2 DEF TypeOK, PoolTyped
  <2>4. StatusMatchesPool' /\ (IndexStarts => IndexStarts')
    BY <2>1 DEF StatusMatchesPool, IndexStarts
  <2> QED BY <2>3, <2>4
<1>8. Goal
  <2> HIDE DEF Goal
  <2> QED BY <1>2, <1>3, <1>4, <1>5, <1>6, <1>7 DEF Operator
<1> QED BY <1>8, OperatorTyped, TypeParts

\* One step of the system, stuttering included.
LEMMA StepPreserves ==
    ASSUME PoolInv, [Next]_vars
    PROVE  /\ PoolInv'
           /\ (IndexStarts => IndexStarts')
<1>1. CASE UNCHANGED vars
  BY <1>1 DEF PoolInv, TypeOK, StatusMatchesPool, IndexStarts, vars, poolVars, reqVars
<1>2. CASE Next
  BY <1>2, RequestPreserves, OperatorPreserves DEF Next
<1> QED BY <1>1, <1>2

\* Types hold throughout.
THEOREM TypeCorrect == Spec => []TypeOK
<1>1. Init => PoolInv
  BY InitPool
<1>2. PoolInv /\ [Next]_vars => PoolInv'
  BY StepPreserves
<1>3. PoolInv => TypeOK
  BY DEF PoolInv
<1> QED BY <1>1, <1>2, <1>3, PTL DEF Spec

\* Through every interleaving of rotations, additions, removals and provider
\* removals the pool holds no key twice and exactly its keys have a status.
THEOREM StatusFollowsPool == Spec => []StatusMatchesPool
<1>1. Init => PoolInv
  BY InitPool
<1>2. PoolInv /\ [Next]_vars => PoolInv'
  BY StepPreserves
<1>3. PoolInv => StatusMatchesPool
  BY DEF PoolInv
<1> QED BY <1>1, <1>2, <1>3, PTL DEF Spec

\* Until the provider is removed, the shared index names a pooled key: no
\* request of any kind dies of get_current_*_key's list index.
THEOREM IndexNamesAKey == Spec => []IndexStaysInRange
<1>1. Init => IndexInv
  BY InitPool DEF IndexInv
<1>2. IndexInv /\ [Next]_vars => IndexInv'
  BY StepPreserves DEF IndexInv
<1>3. IndexInv => IndexStaysInRange
  BY DEF IndexInv, IndexStarts, IndexStaysInRange, HasCurrent
<1> QED BY <1>1, <1>2, <1>3, PTL DEF Spec

(***************************************************************************)
(* The walk of an undisturbed request round the ring of keys               *)
(***************************************************************************)
\* The key j rotations after position s.
Nth(ks, s, j) == ks[((s + j) % Len(ks)) + 1]

\* A request on its attempt a has used a + 1 different keys, the ones that
\* follow each other from where it began, and the index is moved positions on.
Walking(ks, i, T, a, moved, b) ==
    /\ Len(ks) > 0 /\ b = Len(ks) /\ a < Len(ks)
    /\ IsFiniteSet(T) /\ Cardinality(T) = a + 1
    /\ \E s \in Nat : /\ T = {Nth(ks, s, j) : j \in 0..a}
                      /\ i = (s + moved) % Len(ks)

\* The index has moved once more when the broadcast follows the rotation.
LoneReq(where, ks, i, T, a, b) ==
    /\ where = "upstream" => Walking(ks, i, T, a, a, b)
    /\ where = "broadcast" => Walking(ks, i, T, a, a + 1, b)
    /\ where = "exhausted" => ToSet(ks) \subseteq T

Lone(r) == alone[r] => LoneReq(at[r], keys, idx, tried[r], attempt[r], budget[r])

LoneInv == PoolInv /\ \A r \in Reqs : Lone(r)

\* A request begins its walk at the current key.
LEMMA WalkStarts ==
    ASSUME NEW ks \in Seq(Keys), NEW i \in Nat, i < Len(ks)
    PROVE  Walking(ks, i, {CurrentKey(ks, i)}, 0, 0, Len(ks))
<1>1. Len(ks) \in Nat /\ Len(ks) > 0 /\ ks # <<>>
  BY LenProperties, EmptySeq
<1>2. IsFiniteSet({CurrentKey(ks, i)}) /\ Cardinality({CurrentKey(ks, i)}) = 0 + 1
  <2> DEFINE k == CurrentKey(ks, i)
  <2> HIDE DEF k
  <2>1. IsFiniteSet({k}) /\ Cardinality({k}) = 1
    BY FS_Singleton, Zenon
  <2> QED BY <2>1 DEF k
<1>3. i = (i + 0) % Len(ks)
  <2> DEFINE n == Len(ks)
  <2>1. n \in Nat /\ i < n
    BY <1>1
  <2> HIDE DEF n
  <2>2. i + 0 = i /\ i % n = i
    BY <2>1
  <2> QED BY <2>2 DEF n
<1>4. Nth(ks, i, 0) = CurrentKey(ks, i)
  BY <1>1, <1>3, Zenon DEF Nth, CurrentKey
<1>5. {CurrentKey(ks, i)} = {Nth(ks, i, j) : j \in 0..0}
  BY <1>4
<1> QED BY <1>1, <1>2, <1>3, <1>5, Zenon DEF Walking

\* A rotation moves the index one position on.
LEMMA WalkRotates ==
    ASSUME NEW ks \in Seq(Keys), NEW i \in Nat, NEW T, NEW a \in Nat, NEW b,
           Walking(ks, i, T, a, a, b)
    PROVE  Walking(ks, IF Len(ks) <= 1 THEN i ELSE (i + 1) % Len(ks), T, a, a + 1, b)
<1> DEFINE n == Len(ks)
           o == IF n <= 1 THEN i ELSE (i + 1) % n
<1>1. n \in Nat /\ n > 0
  BY LenProperties DEF Walking
<1>2. PICK s \in Nat : T = {Nth(ks, s, j) : j \in 0..a} /\ i = (s + a) % n
  BY DEF Walking
<1> HIDE DEF n
<1>3. s + a \in Nat /\ (s + a) + 1 = s + (a + 1)
  OBVIOUS
<1>4. o = (s + (a + 1)) % n
  <2>1. CASE n <= 1
    <3>1. n = 1
      BY <1>1, <2>1
    <3>2. \A x \in Nat : x % 1 = 0
      OBVIOUS
    <3>3. i = 0 /\ (s + (a + 1)) % n = 0
      BY <3>1, <3>2, <1>2, <1>3
    <3> QED BY <2>1, <3>3
  <2>2. CASE ~(n <= 1)
    <3>1. ((s + a) + 1) % n = (((s + a) % n) + 1) % n
      BY <1>1, <1>3, RingStep
    <3> QED BY <2>2, <3>1, <1>2, <1>3, Zenon
  <2> QED BY <2>1, <2>2
<1>5. /\ Len(ks) > 0 /\ b = Len(ks) /\ a < Len(ks)
      /\ IsFiniteSet(T) /\ Cardinality(T) = a + 1
  BY DEF Walking
<1> HIDE DEF o
<1>6. Walking(ks, o, T, a, a + 1, b)
  BY <1>2, <1>4, <1>5, Zenon DEF Walking, n
<1> QED BY <1>6 DEF o, n

\* The key after a rotation is one the walk has not used yet.
LEMMA WalkGoesOn ==
    ASSUME NEW ks \in Seq(Keys), NEW i \in Nat, NEW T, NEW a \in Nat, NEW b,
           \A x, y \in 1..Len(ks) : ks[x] = ks[y] => x = y,
           Walking(ks, i, T, a, a + 1, b), a + 1 < b
    PROVE  /\ i < Len(ks) /\ ks # <<>>
           /\ Walking(ks, i, T \cup {CurrentKey(ks, i)}, a + 1, a + 1, b)
<1> DEFINE n == Len(ks)
           k == CurrentKey(ks, i)
<1>1. n \in Nat /\ n > 0 /\ a + 1 < n /\ b = n /\ ks # <<>>
  BY LenProperties, EmptySeq DEF Walking
<1>2. PICK s \in Nat : T = {Nth(ks, s, j) : j \in 0..a} /\ i = (s + (a + 1)) % n
  BY DEF Walking
<1> HIDE DEF n
<1>3. i \in 0..n - 1
  <2>1. s + (a + 1) \in Nat
    OBVIOUS
  <2> QED BY <1>1, <1>2, <2>1, RingStep
<1>4. k = Nth(ks, s, a + 1)
  BY <1>1, <1>2, Zenon DEF Nth, CurrentKey, n
<1>5. ASSUME NEW j \in 0..a PROVE Nth(ks, s, j) # k
  <2> DEFINE p == (s + j) % n
             q == (s + (a + 1)) % n
             t == a + 1 - j
  <2>1. s + j \in Nat /\ t \in 1..n - 1 /\ (s + j) + t = s + (a + 1)
    BY <1>1
  <2>2. ((s + j) + t) % n # (s + j) % n
    <3> HIDE DEF t
    <3> QED BY <1>1, <2>1, RingApart
  <2>3. p # q
    BY <2>1, <2>2, Zenon
  <2>4. p \in 0..n - 1
    BY <1>1, <2>1, RingStep
  <2>5. q = i /\ q \in 0..n - 1
    BY <1>2, <1>3
  <2>6. Nth(ks, s, j) = ks[p + 1] /\ Nth(ks, s, a + 1) = ks[q + 1]
    BY Zenon DEF Nth, n
  <2> HIDE DEF p, q
  <2>7. p + 1 \in 1..n /\ q + 1 \in 1..n /\ p + 1 # q + 1
    BY <1>1, <2>3, <2>4, <2>5
  <2> QED BY <1>4, <2>6, <2>7 DEF n
<1> HIDE DEF k
<1>6. k \notin T
  BY <1>2, <1>5
<1>7. IsFiniteSet(T \cup {k}) /\ Cardinality(T \cup {k}) = (a + 1) + 1
  <2>1. IsFiniteSet(T) /\ Cardinality(T) = a + 1
    BY DEF Walking
  <2> QED BY <1>6, <2>1, FS_AddElement
<1>8. T \cup {k} = {Nth(ks, s, j) : j \in 0..a + 1}
  <2>1. ASSUME NEW j \in 0..a + 1 PROVE Nth(ks, s, j) \in T \cup {k}
    <3>1. j \in 0..a \/ j = a + 1
      OBVIOUS
    <3> QED BY <3>1, <1>2, <1>4
  <2>2. 0..a \subseteq 0..a + 1 /\ a + 1 \in 0..a + 1
    OBVIOUS
  <2> QED BY <1>2, <1>4, <2>1, <2>2
<1>9. Walking(ks, i, T \cup {k}, a + 1, a + 1, b)
  BY <1>1, <1>2, <1>7, <1>8, Zenon DEF Walking, n
<1> QED BY <1>1, <1>3, <1>9 DEF k, n

\* A walk of as many attempts as there are keys has used them all.
LEMMA WalkComplete ==
    ASSUME NEW ks \in Seq(Keys), NEW i, NEW T, NEW a \in Nat, NEW moved, NEW b,
           Walking(ks, i, T, a, moved, b), a + 1 >= Len(ks)
    PROVE  ToSet(ks) \subseteq T
<1> DEFINE n == Len(ks)
<1>1. n \in Nat /\ n > 0 /\ DOMAIN ks = 1..n
  BY LenProperties DEF Walking
<1>2. PICK s \in Nat : T = {Nth(ks, s, j) : j \in 0..a}
  BY DEF Walking
<1> SUFFICES ASSUME NEW p \in 1..n PROVE ks[p] \in T
  BY <1>1 DEF ToSet
<1>3. a + 1 >= n
  OBVIOUS
<1> HIDE DEF n
<1>4. p - 1 \in 0..n - 1 /\ (p - 1) + 1 = p
  BY <1>1
<1>5. PICK t \in 0..n - 1 : (s + t) % n = p - 1
  BY <1>1, <1>4, RingReach
<1>6. Nth(ks, s, t) = ks[p]
  BY <1>4, <1>5, Zenon DEF Nth, n
<1>7. t \in 0..a
  BY <1>1, <1>3
<1> QED BY <1>2, <1>6, <1>7

\* The first attempt of a loop over the whole pool starts a walk.
LEMMA LoopStarts ==
    ASSUME PoolInv, NEW r \in Reqs, NEW c, TryNext(r, 0, Len(keys), c, {}, idx),
           UNCHANGED poolVars
    PROVE  Lone(r)'
<1>1. keys \in Seq(Keys) /\ Len(keys) \in Nat /\ idx \in Nat
  BY LenProperties DEF PoolInv, TypeOK
<1>2. at[r]' \in {"exhausted", "indexError", "upstream"} /\ attempt'[r] = 0 /\ budget'[r] = Len(keys)
  BY DEF TryNext, PoolInv, TypeOK
<1>3. keys' = keys /\ idx' = idx
  BY DEF poolVars
<1>4. CASE 0 >= Len(keys)
  <2>1. keys = <<>> /\ at'[r] = "exhausted"
    BY <1>1, <1>4, EmptySeq DEF TryNext, PoolInv, TypeOK
  <2>2. ToSet(keys') = {}
    BY <2>1, <1>3, EmptySeq DEF ToSet
  <2> QED BY <2>1, <2>2 DEF Lone, LoneReq
<1>5. CASE ~(0 >= Len(keys)) /\ keys # <<>> /\ idx >= Len(keys)
  BY <1>5 DEF TryNext, PoolInv, TypeOK, Lone, LoneReq
<1>6. CASE ~(0 >= Len(keys)) /\ ~(keys # <<>> /\ idx >= Len(keys))
  <2>1. idx < Len(keys)
    BY <1>1, <1>6, EmptySeq
  <2>2. at'[r] = "upstream" /\ tried'[r] = {CurrentKey(keys, idx)}
    <3>1. /\ at' = [at EXCEPT ![r] = "upstream"]
          /\ tried' = [tried EXCEPT ![r] = {} \cup {CurrentKey(keys, idx)}]
      BY <1>6 DEF TryNext
    <3> HIDE DEF CurrentKey
    <3> QED BY <3>1 DEF PoolInv, TypeOK
  <2>3. Walking(keys, idx, {CurrentKey(keys, idx)}, 0, 0, Len(keys))
    BY <1>1, <2>1, WalkStarts
  <2>4. Walking(keys', idx', tried'[r], attempt'[r], attempt'[r], budget'[r])
    BY <1>2, <1>3, <2>2, <2>3, Zenon
  <2> QED BY <2>2, <2>4 DEF Lone, LoneReq
<1> QED BY <1>4, <1>5, <1>6

\* The next attempt goes on with the walk, or ends it with every key used.
LEMMA LoopGoesOn ==
    ASSUME PoolInv, NEW r \in Reqs, NEW i \in Nat, NEW c,
           Walking(keys, i, tried[r], attempt[r], attempt[r] + 1, budget[r]),
           TryNext(r, attempt[r] + 1, budget[r], c, tried[r], i),
           keys' = keys, idx' = i
    PROVE  Lone(r)'
<1> DEFINE a == attempt[r]
           b == budget[r]
           T == tried[r]
<1>1. /\ keys \in Seq(Keys) /\ Len(keys) \in Nat /\ a \in Nat /\ b \in Nat
      /\ \A x, y \in 1..Len(keys) : keys[x] = keys[y] => x = y
  BY LenProperties DEF PoolInv, TypeOK, StatusMatchesPool
<1>2. attempt'[r] = a + 1 /\ budget'[r] = b
  BY DEF TryNext, PoolInv, TypeOK
<1>3. Walking(keys, i, T, a, a + 1, b) /\ b = Len(keys)
  BY DEF Walking
<1>4. CASE a + 1 >= b
  <2>1. at'[r] = "exhausted" /\ tried'[r] = T
    BY <1>4 DEF TryNext, PoolInv, TypeOK
  <2>2. ToSet(keys) \subseteq T
    <3> HIDE DEF a, b, T
    <3> QED BY <1>1, <1>3, <1>4, WalkComplete
  <2> QED BY <2>1, <2>2 DEF Lone, LoneReq
<1>5. CASE ~(a + 1 >= b)
  <2>1. /\ i < Len(keys) /\ keys # <<>>
        /\ Walking(keys, i, T \cup {CurrentKey(keys, i)}, a + 1, a + 1, b)
    <3>1. a + 1 < b
      BY <1>1, <1>5
    <3> HIDE DEF a, b, T
    <3> QED BY <1>1, <1>3, <3>1, WalkGoesOn
  <2>2. at'[r] = "upstream" /\ tried'[r] = T \cup {CurrentKey(keys, i)}
    <3>1. ~(keys # <<>> /\ i >= Len(keys))
      BY <1>1, <2>1
    <3>2. /\ at' = [at EXCEPT ![r] = "upstream"]
          /\ tried' = [tried EXCEPT ![r] = T \cup {CurrentKey(keys, i)}]
      BY <1>5, <3>1 DEF TryNext
    <3> HIDE DEF CurrentKey
    <3> QED BY <3>2 DEF PoolInv, TypeOK
  <2>3. Walking(keys', idx', tried'[r], attempt'[r], attempt'[r], budget'[r])
    BY <1>2, <2>1, <2>2, Zenon
  <2> QED BY <2>2, <2>3 DEF Lone, LoneReq
<1> QED BY <1>4, <1>5

\* What one request leaves of the others.
LEMMA OthersStay ==
    ASSUME LoneInv, NEW r \in Reqs, Request(r), NEW q \in Reqs, q # r
    PROVE  Lone(q)'
<1> DEFINE Same == /\ at'[q] = at[q] /\ attempt'[q] = attempt[q]
                   /\ budget'[q] = budget[q] /\ tried'[q] = tried[q]
           Calm == alone'[q] => alone[q] /\ keys' = keys /\ idx' = idx
<1>1. PoolInv /\ Lone(q)
  BY DEF LoneInv
<1>2. ASSUME NEW n, NEW b, NEW c, NEW seen, NEW i, TryNext(r, n, b, c, seen, i)
      PROVE  Same
  <2>1. /\ attempt' = [attempt EXCEPT ![r] = n] /\ budget' = [budget EXCEPT ![r] = b]
        /\ \E w : at' = [at EXCEPT ![r] = w]
        /\ \E T : tried' = [tried EXCEPT ![r] = T]
    BY <1>2, Zenon DEF TryNext
  <2> QED BY <1>1, <2>1 DEF PoolInv, TypeOK
<1>3. ASSUME NEW outcome, Finish(r, outcome) PROVE Same
  BY <1>1, <1>3 DEF Finish, PoolInv, TypeOK
<1>4. ASSUME at' = [at EXCEPT ![r] = "broadcast"],
             UNCHANGED <<attempt, budget, level, using, tried>>
      PROVE  Same
  BY <1>1, <1>4 DEF PoolInv, TypeOK
<1>5. ASSUME Disturb({r}) PROVE Calm
  BY <1>5 DEF Disturb
<1>6. ASSUME UNCHANGED <<poolVars, alone>> PROVE Calm
  BY <1>6 DEF poolVars
<1>7. ASSUME UNCHANGED poolVars, alone' = [alone EXCEPT ![r] = TRUE] PROVE Calm
  BY <1>1, <1>7 DEF poolVars, PoolInv, TypeOK
<1>8. Same /\ Calm
  <2> HIDE DEF Same, Calm
  <2>1. CASE Begin(r)
    BY <2>1, <1>2, <1>3, <1>7 DEF Begin
  <2>2. CASE Succeed(r) \/ Reject(r)
    BY <2>2, <1>3, <1>6 DEF Succeed, Reject
  <2>3. CASE SucceedSlowly(r)
    BY <2>3, <1>3, <1>5 DEF SucceedSlowly
  <2>4. CASE MessagesRetryable(r)
    BY <2>4, <1>4, <1>5 DEF MessagesRetryable
  <2>5. CASE MessagesException(r)
    BY <2>5, <1>3, <1>4, <1>5, <1>6 DEF MessagesException
  <2>6. CASE MessagesContinue(r)
    BY <2>6, <1>2, <1>6 DEF MessagesContinue
  <2>7. CASE MessagesContextWindow(r)
    BY <2>7, <1>2, <1>3, <1>7 DEF MessagesContextWindow
  <2>8. CASE ChatRetryable(r)
    BY <2>8, <1>2, <1>3, <1>5, <1>6 DEF ChatRetryable
  <2> QED BY <2>1, <2>2, <2>3, <2>4, <2>5, <2>6, <2>7, <2>8 DEF Request
<1> QED BY <1>1, <1>8 DEF Lone

\* A request's own step keeps its walk.
LEMMA OwnWalk ==
    ASSUME LoneInv, NEW r \in Reqs, Request(r)
    PROVE  Lone(r)'
<1>1. /\ PoolInv /\ Lone(r) /\ keys \in Seq(Keys) /\ idx \in Nat
      /\ attempt[r] \in Nat /\ Len(keys) \in Nat
  BY LenProperties DEF LoneInv, PoolInv, TypeOK
<1>2. ASSUME NEW outcome, Finish(r, outcome), outcome # "exhausted",
             outcome # "upstream", outcome # "broadcast"
      PROVE  Lone(r)'
  BY <1>1, <1>2 DEF Finish, Lone, LoneReq, PoolInv, TypeOK
<1>3. ASSUME at[r] = "upstream", attempt[r] + 1 >= Len(keys),
             Finish(r, "exhausted"), UNCHANGED <<poolVars, alone>>
      PROVE  Lone(r)'
  <2>1. at'[r] = "exhausted" /\ tried'[r] = tried[r] /\ keys' = keys /\ alone' = alone
    BY <1>1, <1>3 DEF Finish, PoolInv, TypeOK, poolVars
  <2> SUFFICES ASSUME alone[r] PROVE ToSet(keys) \subseteq tried[r]
    BY <2>1 DEF Lone, LoneReq
  <2>2. Walking(keys, idx, tried[r], attempt[r], attempt[r], budget[r])
    BY <1>1, <1>3 DEF Lone, LoneReq
  <2> QED BY <1>1, <1>3, <2>2, WalkComplete
<1>4. ASSUME at[r] = "upstream", Rotate, Disturb({r}), alone'[r]
      PROVE  /\ Walking(keys, RotatedIndex, tried[r], attempt[r], attempt[r] + 1, budget[r])
             /\ keys' = keys /\ idx' = RotatedIndex /\ RotatedIndex \in Nat
  <2>1. alone[r]
    BY <1>4 DEF Disturb
  <2>2. Walking(keys, idx, tried[r], attempt[r], attempt[r], budget[r])
    BY <1>1, <1>4, <2>1 DEF Lone, LoneReq
  <2>3. Walking(keys, IF Len(keys) <= 1 THEN idx ELSE (idx + 1) % Len(keys),
                tried[r], attempt[r], attempt[r] + 1, budget[r])
    BY <1>1, <2>2, WalkRotates
  <2>4. keys' = keys /\ idx' = RotatedIndex
    BY <1>4 DEF Rotate
  <2> QED BY <1>1, <1>4, <2>3, <2>4, RotateFacts DEF RotatedIndex
<1>5. ASSUME at[r] = "upstream", Rotate, Disturb({r}),
             at' = [at EXCEPT ![r] = "broadcast"],
             UNCHANGED <<attempt, budget, level, using, tried>>
      PROVE  Lone(r)'
  <2>1. at'[r] = "broadcast"
    BY <1>1, <1>5 DEF PoolInv, TypeOK
  <2> QED BY <1>4, <1>5, <2>1, Zenon DEF Lone, LoneReq
<1>6. CASE Begin(r)
  <2>1. CASE disabled \/ keys = <<>>
    BY <1>2, <1>6, <2>1 DEF Begin
  <2>2. CASE ~(disabled \/ keys = <<>>)
    BY <1>1, <1>6, <2>2, LoopStarts DEF Begin
  <2> QED BY <2>1, <2>2
<1>7. CASE Succeed(r) \/ Reject(r) \/ SucceedSlowly(r)
  BY <1>2, <1>7 DEF Succeed, Reject, SucceedSlowly
<1>8. CASE MessagesRetryable(r)
  BY <1>5, <1>8 DEF MessagesRetryable
<1>9. CASE MessagesException(r)
  <2>1. CASE attempt[r] + 1 = Len(keys)
    BY <1>1, <1>3, <1>9, <2>1 DEF MessagesException
  <2>2. CASE attempt[r] + 1 # Len(keys)
    BY <1>5, <1>9, <2>2 DEF MessagesException
  <2> QED BY <2>1, <2>2
<1>10. CASE MessagesContinue(r)
  <2>1. /\ at[r] = "broadcast" /\ keys' = keys /\ idx' = idx /\ alone' = alone
        /\ TryNext(r, attempt[r] + 1, budget[r], level[r], tried[r], idx)
    BY <1>10 DEF MessagesContinue, poolVars
  <2>2. CASE alone[r]
    <3>1. Walking(keys, idx, tried[r], attempt[r], attempt[r] + 1, budget[r])
      BY <1>1, <2>1, <2>2 DEF Lone, LoneReq
    <3> QED BY <1>1, <2>1, <3>1, LoopGoesOn
  <2>3. CASE ~alone[r]
    BY <2>1, <2>3 DEF Lone
  <2> QED BY <2>2, <2>3
<1>11. CASE MessagesContextWindow(r)
  <2>1. CASE level[r] < LastLevel
    <3> DEFINE c == level[r] + 1
    <3>1. TryNext(r, 0, Len(keys), c, {}, idx) /\ UNCHANGED poolVars
      BY <1>11, <2>1 DEF MessagesContextWindow
    <3> HIDE DEF c
    <3> QED BY <1>1, <3>1, LoopStarts
  <2>2. CASE ~(level[r] < LastLevel)
    BY <1>2, <1>11, <2>2 DEF MessagesContextWindow
  <2> QED BY <2>1, <2>2
<1>12. CASE ChatRetryable(r)
  <2>1. CASE attempt[r] + 1 < Len(keys)
    <3>1. /\ at[r] = "upstream" /\ Rotate /\ Disturb({r})
          /\ TryNext(r, attempt[r] + 1, budget[r], 0, tried[r], RotatedIndex)
      BY <1>12, <2>1 DEF ChatRetryable
    <3>2. CASE alone'[r]
      BY <1>1, <1>4, <3>1, <3>2, LoopGoesOn
    <3>3. CASE ~alone'[r]
      BY <3>3 DEF Lone
    <3> QED BY <3>2, <3>3
  <2>2. CASE ~(attempt[r] + 1 < Len(keys))
    BY <1>1, <1>3, <1>12, <2>2 DEF ChatRetryable
  <2> QED BY <2>1, <2>2
<1> QED BY <1>6, <1>7, <1>8, <1>9, <1>10, <1>11, <1>12 DEF Request

\* The walks of undisturbed requests survive every step of the system.
LEMMA LoneStep ==
    ASSUME LoneInv, [Next]_vars
    PROVE  LoneInv'
<1>1. PoolInv'
  BY StepPreserves DEF LoneInv
<1>2. ASSUME NEW q \in Reqs PROVE Lone(q)'
  <2>1. Lone(q)
    BY DEF LoneInv
  <2>2. CASE UNCHANGED vars
    BY <2>1, <2>2 DEF Lone, vars, poolVars, reqVars
  <2>3. CASE Operator
    <3>1. UNCHANGED <<reqVars, tried>> /\ Disturb({})
      BY <2>3 DEF Operator
    <3> QED BY <2>1, <3>1 DEF Lone, Disturb, reqVars
  <2>4. CASE \E r \in Reqs : Request(r)
    <3>1. PICK r \in Reqs : Request(r)
      BY <2>4
    <3> QED BY <3>1, OwnWalk, OthersStay
  <2> QED BY <2>2, <2>3, <2>4 DEF Next
<1> QED BY <1>1, <1>2 DEF LoneInv

LEMMA LoneStart == Init => LoneInv
<1> SUFFICES ASSUME Init PROVE LoneInv
  OBVIOUS
<1>1. at = [r \in Reqs |-> "idle"]
  BY Zenon DEF Init
<1>2. \A r \in Reqs : Lone(r)
  BY <1>1 DEF Lone, LoneReq
<1> QED BY <1>2, InitPool DEF LoneInv

\* A request nobody interferes with asks a different key on every attempt,
\* whatever the size of the pool and wherever the shared index stood.
THEOREM NoKeyTwice == Spec => []NoKeyTriedTwice
<1>1. LoneInv => NoKeyTriedTwice
  BY DEF LoneInv, Lone, LoneReq, Walking, NoKeyTriedTwice
<1> QED BY <1>1, LoneStart, LoneStep, PTL DEF Spec

\* A request nobody interferes with gives up only when every key of the pool
\* has failed it.
THEOREM ExhaustedTriesAll == Spec => []ExhaustedMeansAllTried
<1>1. LoneInv => ExhaustedMeansAllTried
  BY DEF LoneInv, Lone, LoneReq, ExhaustedMeansAllTried
<1> QED BY <1>1, LoneStart, LoneStep, PTL DEF Spec

\* Removing a position leaves those before it.
LEMMA RemoveAtBefore ==
    ASSUME NEW S, NEW s \in Seq(S), NEW p \in 1..Len(s), NEW i \in 1..p - 1
    PROVE  RemoveAt(s, p)[i] = s[i]
<1> DEFINE a == SubSeq(s, 1, p - 1)
           b == SubSeq(s, p + 1, Len(s))
<1>1. Len(s) \in Nat /\ p \in 1..Len(s) /\ p - 1 \in Nat /\ \A j \in 1..Len(s) : s[j] \in S
  BY LenProperties, ElementOfSeq
<1>2. a \in Seq(S) /\ Len(a) = p - 1 /\ \A j \in 1..p - 1 : a[j] = s[j]
  <2>1. \A j \in 1..p - 1 : s[j] \in S
    BY <1>1
  <2>2. /\ a \in Seq(S)
        /\ Len(a) = IF 1 <= p - 1 THEN (p - 1) - 1 + 1 ELSE 0
        /\ \A j \in 1..((p - 1) - 1 + 1) : a[j] = s[1 + j - 1]
    BY <2>1, SubSeqProperties, <1>1
  <2> QED BY <2>2, <1>1
<1>3. b \in Seq(S)
  <2>1. \A j \in (p + 1)..Len(s) : s[j] \in S
    BY <1>1
  <2> QED BY <2>1, SubSeqProperties, <1>1
<1> HIDE DEF a, b
<1>4. \A j \in 1..Len(a) + Len(b) : (a \o b)[j] = IF j <= Len(a) THEN a[j] ELSE b[j - Len(a)]
  BY <1>2, <1>3, ConcatProperties
<1>5. Len(b) \in Nat
  BY <1>3, LenProperties
<1>6. (a \o b)[i] = s[i]
  BY <1>2, <1>4, <1>5
<1> QED BY <1>6 DEF RemoveAt, a, b

\* Only the removal of one key shortens the list by one position of many.
LEMMA OnlyRemoval ==
    ASSUME PoolInv, Next, NEW p \in 1..Len(keys), p > idx + 1,
           keys' = RemoveAt(keys, p)
    PROVE  RemoveApiKey(p)
<1>1. /\ keys \in Seq(Keys) /\ Len(keys) \in Nat /\ idx \in Nat
      /\ \A x, y \in 1..Len(keys) : keys[x] = keys[y] => x = y
  BY LenProperties DEF PoolInv, TypeOK, StatusMatchesPool
<1>2. Len(keys') = Len(keys) - 1 /\ ToSet(keys') = ToSet(keys) \ {keys[p]} /\ Len(keys) > 1
  BY <1>1, RemoveAtFacts
<1>3. keys' # keys
  BY <1>1, <1>2
<1>4. ASSUME NEW k \in Keys PROVE ~AddApiKey(k)
  <2> SUFFICES ASSUME AddApiKey(k) PROVE FALSE
    OBVIOUS
  <2>1. Len(keys') = Len(keys) + 1
    BY <1>1, AppendProperties DEF AddApiKey
  <2> QED BY <1>1, <1>2, <2>1
<1>5. ~RemoveProvider
  <2> SUFFICES ASSUME RemoveProvider PROVE FALSE
    OBVIOUS
  <2>1. Len(keys') = 0
    BY EmptySeq DEF RemoveProvider
  <2> DEFINE n == Len(keys)
             m == Len(keys')
  <2>2. n \in Nat /\ n > 1 /\ m = n - 1 /\ m = 0
    BY <1>1, <1>2, <2>1
  <2> HIDE DEF n, m
  <2> QED BY ONLY <2>2
<1>6. ASSUME NEW r \in Reqs PROVE ~Request(r)
  BY <1>3 DEF Request, Begin, Succeed, SucceedSlowly, Reject, MessagesRetryable,
              MessagesException, MessagesContinue, MessagesContextWindow, ChatRetryable,
              Rotate, poolVars
<1>7. ASSUME NEW q \in 1..Len(keys), RemoveApiKey(q) PROVE q = p
  <2>1. keys' = RemoveAt(keys, q)
    BY <1>7 DEF RemoveApiKey
  <2>2. ToSet(keys') = ToSet(keys) \ {keys[q]}
    BY <1>1, <2>1, RemoveAtFacts
  <2>3. keys[q] \in ToSet(keys) /\ keys[p] \in ToSet(keys)
    BY <1>1 DEF ToSet
  <2>4. keys[q] = keys[p]
    BY <1>2, <2>2, <2>3
  <2> QED BY <1>1, <2>4
<1>8. ~RemoveProviderDone
  BY <1>3 DEF RemoveProviderDone
<1>9. \A k \in Keys : ~ResetKeyStatus(k)
  BY <1>3 DEF ResetKeyStatus
<1>10. \A q \in 1..Len(keys) : ~SetActiveKey(q)
  BY <1>3 DEF SetActiveKey
<1> QED BY <1>4, <1>5, <1>6, <1>7, <1>8, <1>9, <1>10 DEF Next, Operator

\* Removing a key behind the current one does not move the pool to another.
THEOREM RemovalKeeps == Spec => RemovalKeepsCurrent
<1>1. PoolInv /\ [Next]_vars =>
        [\A p \in 1..Len(keys) :
            p > idx + 1 /\ keys' = RemoveAt(keys, p)
                => CurrentKey(keys', idx') = CurrentKey(keys, idx)]_vars
  <2> SUFFICES ASSUME PoolInv, Next, NEW p \in 1..Len(keys), p > idx + 1,
                      keys' = RemoveAt(keys, p)
               PROVE  CurrentKey(keys', idx') = CurrentKey(keys, idx)
    BY Zenon
  <2>1. RemoveApiKey(p)
    BY OnlyRemoval
  <2>2. /\ keys \in Seq(Keys) /\ Len(keys) \in Nat /\ idx \in Nat
        /\ \A x, y \in 1..Len(keys) : keys[x] = keys[y] => x = y
    BY LenProperties DEF PoolInv, TypeOK, StatusMatchesPool
  <2>3. p # idx + 1 /\ Len(keys) > 1 /\ idx < Len(keys) - 1
    BY <2>1, <2>2 DEF RemoveApiKey
  <2>4. idx' = idx
    BY <2>1, <2>3 DEF RemoveApiKey, IndexAfterRemoval
  <2>5. keys' # <<>> /\ keys # <<>>
    <3>1. Len(keys') = Len(keys) - 1
      BY <2>2, RemoveAtFacts
    <3> QED BY <2>2, <2>3, <3>1, EmptySeq
  <2>6. keys'[idx + 1] = keys[idx + 1]
    <3>1. idx + 1 \in 1..p - 1
      BY <2>2
    <3> QED BY <2>2, <3>1, RemoveAtBefore
  <2> QED BY <2>4, <2>5, <2>6 DEF CurrentKey
<1>2. Init => PoolInv
  BY InitPool
<1>3. PoolInv /\ [Next]_vars => PoolInv'
  BY StepPreserves
<1> QED BY <1>1, <1>2, <1>3, PTL DEF Spec, RemovalKeepsCurrent

(***************************************************************************)
(* A walk gets shorter                                                     *)
(***************************************************************************)
\* Steps a request has left at its compaction level: two for each attempt, one
\* when it does not wait for a broadcast, none once it has ended.
StepsLeft(r) ==
    IF at[r] \in {"upstream", "broadcast"}
    THEN 2 * (budget[r] - attempt[r]) + (IF at[r] = "upstream" THEN 1 ELSE 0)
    ELSE 0

\* The request moved on to another level, or has fewer steps left at this one.
Shorter(r) ==
    \/ level[r] < level'[r]
    \/ level[r] = level'[r] /\ StepsLeft(r)' < StepsLeft(r)

\* However the operator and the other requests change the pool meanwhile, every
\* step of a request that has begun uses up one of finitely many: there are
\* LastLevel + 1 levels and, at each, a number of steps that nobody else can
\* raise.  With the fairness of FairSpec this is why RequestsEnd holds.
WalksGetShorter ==
    /\ [](\A r \in Reqs : level[r] \in 0..LastLevel /\ StepsLeft(r) \in Nat)
    /\ [][\A r \in Reqs : at[r] # "idle" =>
              UNCHANGED <<at[r], attempt[r], budget[r], level[r]>> \/ Shorter(r)]_vars

\* An attempt is within the budget of its loop, and only /v1/messages compacts.
Within(r) ==
    /\ at[r] \in {"upstream", "broadcast"} => attempt[r] < budget[r]
    /\ r \in ChatReqs => level[r] = 0

WithinInv == PoolInv /\ \A r \in Reqs : Within(r)

\* Where an iteration leaves a request, and the others.
LEMMA TryNextHolds ==
    ASSUME TypeOK, NEW r \in Reqs, NEW n \in Nat, NEW b \in Nat, NEW c, NEW seen, NEW i,
           TryNext(r, n, b, c, seen, i)
    PROVE  /\ at'[r] \in {"upstream", "exhausted", "indexError"}
           /\ at'[r] = "upstream" => n < b
           /\ attempt'[r] = n /\ budget'[r] = b /\ level'[r] = c
           /\ \A q \in Reqs \ {r} : UNCHANGED <<at[q], attempt[q], budget[q], level[q]>>
<1>1. PICK w \in {"upstream", "exhausted", "indexError"} :
         at' = [at EXCEPT ![r] = w] /\ (w = "upstream" => n < b)
  <2>1. CASE n >= b
    BY <2>1 DEF TryNext
  <2>2. CASE ~(n >= b) /\ keys # <<>> /\ i >= Len(keys)
    BY <2>2 DEF TryNext
  <2>3. CASE ~(n >= b) /\ ~(keys # <<>> /\ i >= Len(keys))
    <3>1. at' = [at EXCEPT ![r] = "upstream"]
      BY <2>3, Zenon DEF TryNext
    <3> QED BY <2>3, <3>1
  <2> QED BY <2>1, <2>2, <2>3
<1>2. /\ attempt' = [attempt EXCEPT ![r] = n]
      /\ budget' = [budget EXCEPT ![r] = b]
      /\ level' = [level EXCEPT ![r] = c]
  BY DEF TryNext
<1> QED BY <1>1, <1>2 DEF TypeOK

LEMMA FinishHolds ==
    ASSUME TypeOK, NEW r \in Reqs, NEW outcome, Finish(r, outcome)
    PROVE  /\ at'[r] = outcome /\ attempt' = attempt /\ budget' = budget /\ level' = level
           /\ \A q \in Reqs \ {r} : UNCHANGED <<at[q], attempt[q], budget[q], level[q]>>
BY DEF Finish, TypeOK

\* A request's own step keeps it within its budget and shortens its walk.
LEMMA OwnStepShortens ==
    ASSUME TypeOK, NEW r \in Reqs, Within(r), Request(r)
    PROVE  /\ Within(r)'
           /\ at[r] # "idle" => Shorter(r)
           /\ \A q \in Reqs \ {r} : UNCHANGED <<at[q], attempt[q], budget[q], level[q]>>
<1>1. /\ attempt[r] \in Nat /\ budget[r] \in Nat /\ level[r] \in Nat /\ LastLevel = 2
      /\ Len(keys) \in Nat /\ at \in [Reqs -> Where]
  <2>1. /\ attempt[r] \in Nat /\ budget[r] \in Nat /\ level[r] \in 0..LastLevel
        /\ keys \in Seq(Keys) /\ at \in [Reqs -> Where]
    BY DEF TypeOK
  <2> QED BY <2>1, LenProperties DEF LastLevel
<1>2. CASE \E outcome \in Ended : at[r] \in {"idle", "upstream"} /\ Finish(r, outcome)
  <2>1. PICK outcome \in Ended : at[r] \in {"idle", "upstream"} /\ Finish(r, outcome)
    BY <1>2
  <2>2. /\ at'[r] = outcome /\ attempt' = attempt /\ budget' = budget /\ level' = level
        /\ \A q \in Reqs \ {r} : UNCHANGED <<at[q], attempt[q], budget[q], level[q]>>
    BY <2>1, FinishHolds
  <2>3. at'[r] \notin {"idle", "upstream", "broadcast"}
    BY <2>2 DEF Ended
  <2>4. StepsLeft(r)' = 0
    BY <2>3 DEF StepsLeft
  <2>5. at[r] = "upstream" => StepsLeft(r) > 0
    BY <1>1 DEF StepsLeft, Within
  <2> QED BY <2>1, <2>2, <2>3, <2>4, <2>5 DEF Within, Shorter
<1>3. CASE /\ at[r] = "upstream" /\ at' = [at EXCEPT ![r] = "broadcast"]
           /\ UNCHANGED <<attempt, budget, level, using, tried>>
  <2>1. at'[r] = "broadcast" /\ \A q \in Reqs \ {r} : at'[q] = at[q]
    BY <1>1, <1>3
  <2>2. StepsLeft(r)' = StepsLeft(r) - 1 /\ StepsLeft(r) \in Nat
    BY <1>1, <1>3, <2>1 DEF StepsLeft, Within
  <2> QED BY <1>3, <2>1, <2>2 DEF Within, Shorter
<1>4. CASE at[r] = "idle" /\ TryNext(r, 0, Len(keys), 0, {}, idx)
  <2>1. 0 \in Nat
    OBVIOUS
  <2> QED BY <1>1, <1>4, <2>1, TryNextHolds DEF Within
<1>5. CASE \E seen, i, c : /\ at[r] \in {"upstream", "broadcast"}
                           /\ TryNext(r, attempt[r] + 1, budget[r], c, seen, i)
                           /\ c = level[r]
  <2>1. /\ at[r] \in {"upstream", "broadcast"}
        /\ at'[r] \in {"upstream", "exhausted", "indexError"}
        /\ at'[r] = "upstream" => attempt[r] + 1 < budget[r]
        /\ attempt'[r] = attempt[r] + 1 /\ budget'[r] = budget[r] /\ level'[r] = level[r]
        /\ \A q \in Reqs \ {r} : UNCHANGED <<at[q], attempt[q], budget[q], level[q]>>
    BY <1>1, <1>5, TryNextHolds
  <2>2. StepsLeft(r)' < StepsLeft(r)
    BY <1>1, <2>1 DEF StepsLeft, Within
  <2> QED BY <2>1, <2>2 DEF Within, Shorter
<1>6. CASE MessagesContextWindow(r)
  <2>1. CASE level[r] < LastLevel
    <3> DEFINE c == level[r] + 1
    <3>1. TryNext(r, 0, Len(keys), c, {}, idx) /\ r \notin ChatReqs
      BY <1>6, <2>1 DEF MessagesContextWindow
    <3>2. level[r] < c
      BY <1>1
    <3> HIDE DEF c
    <3>3. 0 \in Nat
      OBVIOUS
    <3> QED BY <1>1, <3>1, <3>2, <3>3, TryNextHolds DEF Within, Shorter
  <2>2. CASE ~(level[r] < LastLevel)
    BY <1>2, <1>6, <2>2 DEF MessagesContextWindow, Ended
  <2> QED BY <2>1, <2>2
<1>7. CASE ChatRetryable(r)
  <2>1. CASE TryNext(r, attempt[r] + 1, budget[r], 0, tried[r], RotatedIndex)
    BY <1>5, <1>7, <2>1 DEF ChatRetryable, Within
  <2>2. CASE Finish(r, "exhausted")
    BY <1>2, <1>7, <2>2 DEF ChatRetryable, Ended
  <2> QED BY <1>7, <2>1, <2>2 DEF ChatRetryable
<1>8. CASE Begin(r)
  BY <1>2, <1>4, <1>8 DEF Begin, Ended
<1>9. CASE Succeed(r) \/ SucceedSlowly(r) \/ Reject(r)
  BY <1>2, <1>9 DEF Succeed, SucceedSlowly, Reject, Ended
<1>10. CASE MessagesRetryable(r) \/ MessagesException(r)
  BY <1>2, <1>3, <1>10 DEF MessagesRetryable, MessagesException, Ended
<1>11. CASE MessagesContinue(r)
  BY <1>5, <1>11 DEF MessagesContinue
<1> QED BY <1>6, <1>7, <1>8, <1>9, <1>10, <1>11 DEF Request

LEMMA WithinStep ==
    ASSUME WithinInv, [Next]_vars
    PROVE  /\ WithinInv'
           /\ \A r \in Reqs : at[r] # "idle" =>
                 UNCHANGED <<at[r], attempt[r], budget[r], level[r]>> \/ Shorter(r)
<1>1. PoolInv' /\ TypeOK
  BY StepPreserves DEF WithinInv, PoolInv
<1>2. ASSUME NEW q \in Reqs
      PROVE  /\ Within(q)'
             /\ at[q] # "idle" =>
                   UNCHANGED <<at[q], attempt[q], budget[q], level[q]>> \/ Shorter(q)
  <2>1. Within(q)
    BY DEF WithinInv
  <2>2. CASE UNCHANGED reqVars
    BY <2>1, <2>2 DEF reqVars, Within
  <2>3. CASE \E r \in Reqs : Request(r)
    <3>1. PICK r \in Reqs : Request(r)
      BY <2>3
    <3>2. Within(r)
      BY DEF WithinInv
    <3>3. CASE r = q
      BY <1>1, <2>1, <3>1, <3>3, OwnStepShortens
    <3>4. CASE r # q
      <4>1. UNCHANGED <<at[q], attempt[q], budget[q], level[q]>>
        BY <1>1, <3>1, <3>2, <3>4, OwnStepShortens
      <4> QED BY <2>1, <4>1 DEF Within
    <3> QED BY <3>3, <3>4
  <2> QED BY <2>2, <2>3 DEF Next, Operator, vars
<1> QED BY <1>1, <1>2 DEF WithinInv

\* A request that has begun takes finitely many steps, for any pool and any
\* operator, and no step of anybody else gives it more.
THEOREM WalksEnd == Spec => WalksGetShorter
<1>1. Init => WithinInv
  <2> SUFFICES ASSUME Init PROVE WithinInv
    OBVIOUS
  <2>1. at = [r \in Reqs |-> "idle"] /\ level = [r \in Reqs |-> 0]
    BY Zenon DEF Init
  <2> QED BY <2>1, InitPool DEF WithinInv, Within
<1>2. WithinInv => \A r \in Reqs : level[r] \in 0..LastLevel /\ StepsLeft(r) \in Nat
  <2> SUFFICES ASSUME WithinInv, NEW r \in Reqs
               PROVE  level[r] \in 0..LastLevel /\ StepsLeft(r) \in Nat
    OBVIOUS
  <2>1. /\ level[r] \in 0..LastLevel /\ attempt[r] \in Nat /\ budget[r] \in Nat
        /\ at[r] \in {"upstream", "broadcast"} => attempt[r] < budget[r]
    BY DEF WithinInv, Within, PoolInv, TypeOK
  <2> QED BY <2>1 DEF StepsLeft
<1>3. WithinInv /\ [Next]_vars =>
        /\ WithinInv'
        /\ [\A r \in Reqs : at[r] # "idle" =>
               UNCHANGED <<at[r], attempt[r], budget[r], level[r]>> \/ Shorter(r)]_vars
  BY WithinStep
<1> QED BY <1>1, <1>2, <1>3, PTL DEF Spec, WalksGetShorter

=============================================================================
