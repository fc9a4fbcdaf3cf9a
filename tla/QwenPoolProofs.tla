--------------------------- MODULE QwenPoolProofs ---------------------------
(***************************************************************************)
(* Proofs about QwenPool, for any keys, models, requests, operations and   *)
(* restarts.                                                               *)
(***************************************************************************)
EXTENDS QwenPool, SequenceLemmas, FiniteSetTheorems, TLAPS

(***************************************************************************)
(* Types                                                                   *)
(***************************************************************************)
PoolTyped ==
    /\ keys \in Seq(Keys) /\ IsInjective(keys)
    /\ idx \in Nat /\ (wiped \/ idx < Len(keys) \/ (keys = <<>> /\ idx = 0))

RowsTyped == rows \in Seq(Keys) /\ IsInjective(rows)

FlagsTyped ==
    /\ disabled \in BOOLEAN /\ rowDisabled \in BOOLEAN /\ wiped \in BOOLEAN
    /\ removing \in {"idle", "keys", "provider"}

StatusTyped == status \in [Keys -> Status] /\ rowStatus \in [Keys -> Status]

MarksTyped == failed \subseteq Keys \X Models /\ rowFailed \subseteq Keys \X Models

CursorTyped == cursor \in [Models -> Nat]

WritesTyped == IsABag(writes) /\ BagToSet(writes) \subseteq Write /\ dropped \subseteq Write

RequestsTyped ==
    /\ at \in [Reqs -> Where]
    /\ attempt \in [Reqs -> Nat] /\ budget \in [Reqs -> Nat]
    /\ level \in [Reqs -> 0..LastLevel]
    /\ using \in [Reqs -> Keys \cup {NoKey}]
    /\ tried \in [Reqs -> SUBSET Keys]
    /\ \A r \in Reqs : at[r] = "upstream" => using[r] \in Keys

CountsTyped == rejected \subseteq Keys /\ ops \in 0..MaxOps /\ restarts \in 0..MaxRestarts

Typed ==
    /\ PoolTyped /\ RowsTyped /\ FlagsTyped /\ StatusTyped /\ MarksTyped
    /\ CursorTyped /\ WritesTyped /\ RequestsTyped /\ CountsTyped

LEMMA ListFacts ==
    ASSUME NEW S, NEW s \in Seq(S)
    PROVE  /\ ToSet(s) = Elems(s) /\ ToSet(s) \subseteq S
           /\ Len(s) \in Nat /\ DOMAIN s = 1..Len(s)
           /\ s # <<>> <=> Len(s) > 0
           /\ \A i \in 1..Len(s) : s[i] \in S /\ s[i] \in ToSet(s)
           /\ \A k \in ToSet(s) : \E i \in 1..Len(s) : s[i] = k
<1>1. Len(s) \in Nat /\ DOMAIN s = 1..Len(s) /\ \A i \in 1..Len(s) : s[i] \in S
  OBVIOUS
<1>2. s # <<>> <=> Len(s) > 0
  OBVIOUS
<1> QED BY <1>1, <1>2 DEF ToSet, Elems

(***************************************************************************)
(* The ring: where Scan stops                                              *)
(***************************************************************************)
LEMMA ScanFacts ==
    ASSUME keys \in Seq(Keys), NEW i \in Nat, NEW d \in Nat,
           NEW usable \in SUBSET ToSet(keys), usable # {}
    PROVE  \E o \in Nat :
              /\ o >= d /\ o < d + Len(keys)
              /\ Scan(i, d, usable) = (i + o) % Len(keys)
              /\ Scan(i, d, usable) \in 0..Len(keys) - 1
              /\ keys[Scan(i, d, usable) + 1] \in usable
              /\ \A e \in Nat : d <= e /\ e < o => keys[((i + e) % Len(keys)) + 1] \notin usable
<1> DEFINE n == Len(keys)
           At(o) == (i + o) % n
           found == {o \in d..d + n - 1 : keys[At(o) + 1] \in usable}
<1>1. PICK k \in usable : k \in ToSet(keys)
  OBVIOUS
<1>2. n \in Nat /\ n > 0 /\ DOMAIN keys = 1..n
  BY <1>1, ListFacts
<1>3. PICK p \in 1..n : keys[p] = k
  BY <1>1, <1>2, ListFacts
<1>4. PICK t \in 0..n - 1 : ((i + d) + t) % n = p - 1
  <2>1. p - 1 \in 0..n - 1 /\ i + d \in Nat
    BY <1>2, <1>3
  <2> HIDE DEF n
  <2> QED BY <1>2, <2>1, RingReach
<1>5. d + t \in found
  <2>1. d + t \in d..d + n - 1 /\ i + (d + t) = (i + d) + t
    BY <1>2, <1>4
  <2>2. At(d + t) = p - 1
    BY <1>4, <2>1, Zenon
  <2>3. keys[At(d + t) + 1] = k
    BY <1>2, <1>3, <2>2
  <2> QED BY <1>1, <2>1, <2>3
<1>6. found \in SUBSET Nat
  BY <1>2
<1> DEFINE o == Min(found)
<1>7. Scan(i, d, usable) = At(o)
  BY DEF Scan
<1>8. o \in found /\ o \in Nat /\ \A y \in found : o <= y
  <2> HIDE DEF found
  <2> QED BY <1>5, <1>6, MinFacts
<1> HIDE DEF o
<1>9. o >= d /\ o < d + n /\ keys[At(o) + 1] \in usable
  BY <1>2, <1>8
<1>10. At(o) \in 0..n - 1
  <2> HIDE DEF n
  <2> QED BY <1>2, <1>8, RingStep, i + o \in Nat
<1>11. \A e \in Nat : d <= e /\ e < o => keys[At(e) + 1] \notin usable
  <2> SUFFICES ASSUME NEW e \in Nat, d <= e, e < o, keys[At(e) + 1] \in usable PROVE FALSE
    OBVIOUS
  <2>1. e \in d..d + n - 1
    <3>1. \A v \in Nat : v < d + n => \A z \in Nat : d <= z /\ z < v => z \in d..d + n - 1
      BY <1>2
    <3>2. o \in Nat /\ o < d + n
      BY <1>8, <1>9
    <3> QED BY <3>1, <3>2, Zenon
  <2>2. e \in found
    BY <2>1
  <2> QED BY <1>8, <2>2
<1> QED BY <1>7, <1>8, <1>9, <1>10, <1>11

LEMMA ScanTyped ==
    ASSUME keys \in Seq(Keys), NEW i \in Nat, NEW d \in Nat,
           NEW usable \in SUBSET ToSet(keys), usable # {}
    PROVE  /\ Scan(i, d, usable) \in Nat
           /\ Scan(i, d, usable) \in 0..Len(keys) - 1
           /\ keys[Scan(i, d, usable) + 1] \in usable
BY ScanFacts, ListFacts

LEMMA UsableFacts ==
    ASSUME NEW m, NEW st, NEW fl
    PROVE  Usable(m, st, fl) \in SUBSET ToSet(keys)
BY DEF Usable

LEMMA RotatedTyped ==
    ASSUME keys \in Seq(Keys), CursorTyped, NEW m \in Models, NEW k,
           NEW usable \in SUBSET ToSet(keys)
    PROVE  Rotated(m, k, usable) \in [Models -> Nat]
<1>1. CASE usable = {}
  BY <1>1 DEF Rotated, CursorTyped
<1>2. CASE usable # {}
  <2> DEFINE from == IF k \in ToSet(keys)
                     THEN (CHOOSE i \in 1..Len(keys) : keys[i] = k) - 1
                     ELSE CursorIndex(m)
  <2>1. Rotated(m, k, usable) = [cursor EXCEPT ![m] = Scan(from, 1, usable)]
    BY <1>2, Zenon DEF Rotated
  <2>2. Len(keys) \in Nat /\ Len(keys) > 0
    BY <1>2, ListFacts
  <2>3. from \in Nat
    <3>1. CASE k \in ToSet(keys)
      <4>1. (CHOOSE i \in 1..Len(keys) : keys[i] = k) \in 1..Len(keys)
        BY <3>1, ListFacts
      <4> QED BY <2>2, <3>1, <4>1
    <3>2. CASE k \notin ToSet(keys)
      BY <2>2, <3>2 DEF CursorIndex, CursorTyped
    <3> QED BY <3>1, <3>2
  <2> HIDE DEF from
  <2>4. Scan(from, 1, usable) \in Nat
    BY <1>2, <2>3, ScanTyped
  <2> QED BY <2>1, <2>4 DEF CursorTyped
<1> QED BY <1>1, <1>2

(***************************************************************************)
(* Requests                                                                *)
(***************************************************************************)
LEMMA TryNextTyped ==
    ASSUME Typed, NEW r \in Reqs, NEW n \in Nat, NEW b \in Nat, NEW c \in 0..LastLevel,
           NEW seen \in SUBSET Keys, NEW cur \in [Models -> Nat],
           NEW usable \in SUBSET ToSet(keys), TryNext(r, n, b, c, seen, cur, usable)
    PROVE  RequestsTyped' /\ CursorTyped'
<1> DEFINE m == ModelOf[r]
           i == Scan(cur[m] % Len(keys), 0, usable)
<1>1. m \in Models
  BY QwenAssumption
<1>2. /\ attempt' = [attempt EXCEPT ![r] = n]
      /\ budget' = [budget EXCEPT ![r] = b]
      /\ level' = [level EXCEPT ![r] = c]
  BY DEF TryNext
<1>3. /\ attempt' \in [Reqs -> Nat] /\ budget' \in [Reqs -> Nat]
      /\ level' \in [Reqs -> 0..LastLevel]
  BY <1>2 DEF Typed, RequestsTyped
<1>4. CASE n >= b \/ usable = {}
  <2>1. PICK w \in {"failed", "exhausted"} : at' = [at EXCEPT ![r] = w]
    BY <1>4 DEF TryNext
  <2>2. tried' = [tried EXCEPT ![r] = seen] /\ cursor' = cur /\ using' = using
    BY <1>4 DEF TryNext
  <2>3. \A q \in Reqs : at'[q] = "upstream" => at[q] = "upstream"
    BY <2>1 DEF Typed, RequestsTyped
  <2> QED BY <1>3, <2>1, <2>2, <2>3 DEF Typed, RequestsTyped, CursorTyped, Where, Ended
<1>5. CASE ~(n >= b \/ usable = {})
  <2>1. /\ at' = [at EXCEPT ![r] = "upstream"]
        /\ cursor' = [cur EXCEPT ![m] = i]
        /\ using' = [using EXCEPT ![r] = keys[i + 1]]
        /\ tried' = [tried EXCEPT ![r] = seen \cup {keys[i + 1]}]
    BY <1>5, Zenon DEF TryNext
  <2>2. keys \in Seq(Keys) /\ Len(keys) \in Nat /\ Len(keys) > 0
    BY <1>5, ListFacts DEF Typed, PoolTyped
  <2>3. cur[m] % Len(keys) \in Nat
    BY <1>1, <2>2
  <2>4. i \in Nat /\ keys[i + 1] \in usable
    BY <1>5, <2>2, <2>3, ScanTyped
  <2> HIDE DEF i
  <2>5. keys[i + 1] \in Keys
    BY <2>2, <2>4, ListFacts
  <2>6. cursor' \in [Models -> Nat]
    BY <2>1, <2>4
  <2>7. /\ at' \in [Reqs -> Where] /\ using' \in [Reqs -> Keys \cup {NoKey}]
        /\ tried' \in [Reqs -> SUBSET Keys]
    BY <2>1, <2>5 DEF Typed, RequestsTyped, Where, Ended
  <2>8. \A q \in Reqs : at'[q] = "upstream" => using'[q] \in Keys
    BY <2>1, <2>5 DEF Typed, RequestsTyped
  <2> QED BY <1>3, <2>6, <2>7, <2>8 DEF RequestsTyped, CursorTyped
<1> QED BY <1>4, <1>5

LEMMA FinishTyped ==
    ASSUME Typed, NEW r \in Reqs, NEW outcome \in Ended, Finish(r, outcome)
    PROVE  RequestsTyped' /\ CursorTyped'
<1>1. \A q \in Reqs : at'[q] = "upstream" => at[q] = "upstream"
  BY DEF Finish, Typed, RequestsTyped, Ended
<1> QED BY <1>1 DEF Finish, Typed, RequestsTyped, CursorTyped, Where

\* What any request does to the pool: nothing, or it learns from the failure of
\* the key it holds.
LEMMA RequestEffect ==
    ASSUME NEW r \in Reqs, Request(r)
    PROVE  /\ UNCHANGED <<keys, idx, gate, tables, dropped, ops, restarts>>
           /\ \/ /\ LearnNothing
                 /\ rejected' = rejected \/ (r \in ChatReqs /\ at[r] = "upstream" /\
                        \E verdict \in Verdict : Observed(verdict, using[r]))
              \/ /\ at[r] = "upstream"
                 /\ \E verdict \in Verdict :
                       Learnt(verdict, using[r], ModelOf[r]) /\ Observed(verdict, using[r])
<1> USE DEF LearnNothing, gate
<1>0. dropped' = dropped
  BY DEF Request
<1>1. CASE Begin(r)
  BY <1>0, <1>1 DEF Begin, tables
<1>2. CASE Answer(r)
  BY <1>0, <1>2 DEF Answer, tables
<1>3. CASE MessagesRetryable(r)
  BY <1>0, <1>3 DEF MessagesRetryable, tables, Learnt
<1>4. CASE MessagesException(r) \/ MessagesContinue(r) \/ MessagesContextWindow(r)
  BY <1>0, <1>4 DEF MessagesException, MessagesContinue, MessagesContextWindow, tables
<1>5. CASE ChatRetryable(r)
  BY <1>0, <1>5 DEF ChatRetryable, tables, Learnt
<1>6. CASE ImageRetryable(r)
  BY <1>0, <1>6 DEF ImageRetryable, tables, Learnt
<1>7. CASE ImageException(r) \/ NativeFails(r)
  BY <1>0, <1>7 DEF ImageException, NativeFails, tables
<1> QED BY <1>0, <1>1, <1>2, <1>3, <1>4, <1>5, <1>6, <1>7 DEF Request

LEMMA RequestKeepsRequests ==
    ASSUME Typed, NEW r \in Reqs, Request(r)
    PROVE  RequestsTyped' /\ CursorTyped'
<1> DEFINE m == ModelOf[r]
<1>0. /\ keys \in Seq(Keys) /\ CursorTyped /\ Len(keys) \in Nat /\ m \in Models
      /\ cursor \in [Models -> Nat]
      /\ attempt[r] \in Nat /\ attempt[r] + 1 \in Nat /\ budget[r] \in Nat
      /\ level[r] \in 0..LastLevel /\ tried[r] \in SUBSET Keys /\ {} \in SUBSET Keys
      /\ 0 \in 0..LastLevel
  BY QwenAssumption, ListFacts DEF Typed, PoolTyped, CursorTyped, RequestsTyped
<1> USE DEF Ended
<1>1. CASE Begin(r)
  <2>1. CASE Finish(r, "refused")
    BY <2>1, FinishTyped
  <2>2. CASE TryNext(r, 0, Len(keys), 0, {}, cursor, Usable(m, status, failed))
    BY <1>0, <2>2, UsableFacts, TryNextTyped
  <2> QED BY <1>1, <2>1, <2>2 DEF Begin
<1>2. CASE Answer(r)
  BY <1>2, FinishTyped DEF Answer
<1>3. CASE MessagesRetryable(r)
  <2>1. cursor' = Rotated(m, using[r], Usable(m, status', failed'))
    BY <1>3 DEF MessagesRetryable
  <2>2. CursorTyped'
    BY <1>0, <2>1, UsableFacts, RotatedTyped DEF CursorTyped
  <2>3. RequestsTyped'
    BY <1>3 DEF MessagesRetryable, Typed, RequestsTyped, Where
  <2> QED BY <2>2, <2>3
<1>4. CASE MessagesException(r)
  <2>1. CASE Finish(r, "failed")
    BY <2>1, FinishTyped
  <2>2. CASE /\ cursor' = Rotated(m, using[r], Usable(m, status, failed))
             /\ at' = [at EXCEPT ![r] = "between"]
             /\ UNCHANGED <<attempt, budget, level, using, tried>>
    <3>1. CursorTyped'
      BY <1>0, <2>2, UsableFacts, RotatedTyped DEF CursorTyped
    <3>2. RequestsTyped'
      BY <2>2 DEF Typed, RequestsTyped, Where
    <3> QED BY <3>1, <3>2
  <2> QED BY <1>4, <2>1, <2>2 DEF MessagesException
<1>5. CASE MessagesContinue(r)
  <2>1. TryNext(r, attempt[r] + 1, budget[r], level[r], tried[r], cursor,
                Usable(m, status, failed))
    BY <1>5 DEF MessagesContinue
  <2> QED BY <1>0, <2>1, UsableFacts, TryNextTyped
<1>6. CASE MessagesContextWindow(r)
  <2>1. CASE Finish(r, "tooLong")
    BY <2>1, FinishTyped
  <2>2. CASE /\ level[r] < LastLevel
             /\ TryNext(r, 0, Len(keys), level[r] + 1, {}, cursor, Usable(m, status, failed))
    <3>1. level[r] + 1 \in 0..LastLevel
      BY <1>0, <2>2, QwenAssumption
    <3> QED BY <1>0, <2>2, <3>1, UsableFacts, TryNextTyped
  <2> QED BY <1>6, <2>1, <2>2 DEF MessagesContextWindow
<1>7. CASE ChatRetryable(r)
  <2> DEFINE usable == Usable(m, status', failed')
             cur == Rotated(m, using[r], usable)
  <2>1. CASE Finish(r, "failed")
    BY <2>1, FinishTyped
  <2>2. CASE TryNext(r, attempt[r] + 1, budget[r], 0, tried[r], cur, usable)
    <3>1. usable \in SUBSET ToSet(keys)
      BY UsableFacts
    <3> HIDE DEF usable
    <3>2. cur \in [Models -> Nat]
      BY <1>0, <3>1, RotatedTyped
    <3> HIDE DEF cur
    <3> QED BY <1>0, <2>2, <3>1, <3>2, TryNextTyped
  <2> QED BY <1>7, <2>1, <2>2, Zenon DEF ChatRetryable
<1>8. CASE ImageRetryable(r)
  <2> DEFINE usable == Usable(m, status', failed')
             cur == Rotated(m, using[r], usable)
  <2>1. CASE Finish(r, "failed")
    BY <2>1, FinishTyped
  <2>2. CASE TryNext(r, attempt[r] + 1, budget[r], 0, tried[r], cur, usable)
    <3>1. usable \in SUBSET ToSet(keys)
      BY UsableFacts
    <3> HIDE DEF usable
    <3>2. cur \in [Models -> Nat]
      BY <1>0, <3>1, RotatedTyped
    <3> HIDE DEF cur
    <3> QED BY <1>0, <2>2, <3>1, <3>2, TryNextTyped
  <2> QED BY <1>8, <2>1, <2>2, Zenon DEF ImageRetryable
<1>9. CASE ImageException(r)
  BY <1>9, FinishTyped DEF ImageException
<1>10. CASE NativeFails(r)
  <2>1. cursor' = Rotated(m, using[r], Usable(m, status, failed))
    BY <1>10 DEF NativeFails
  <2>2. CursorTyped'
    BY <1>0, <2>1, UsableFacts, RotatedTyped DEF CursorTyped
  <2>3. RequestsTyped'
    BY <1>10 DEF NativeFails, Typed, RequestsTyped, Where
  <2> QED BY <2>2, <2>3
<1> QED BY <1>1, <1>2, <1>3, <1>4, <1>5, <1>6, <1>7, <1>8, <1>9, <1>10 DEF Request

\* What every request leaves typed.
LEMMA RequestKeepsRest ==
    ASSUME Typed, NEW r \in Reqs, Request(r)
    PROVE  /\ PoolTyped' /\ RowsTyped' /\ FlagsTyped' /\ StatusTyped' /\ MarksTyped'
           /\ WritesTyped' /\ CountsTyped'
<1>1. /\ UNCHANGED <<keys, idx, gate, tables, dropped, ops, restarts>>
      /\ \/ /\ LearnNothing
            /\ rejected' = rejected \/ (at[r] = "upstream" /\
                   \E verdict \in Verdict : Observed(verdict, using[r]))
         \/ /\ at[r] = "upstream"
            /\ \E verdict \in Verdict :
                  Learnt(verdict, using[r], ModelOf[r]) /\ Observed(verdict, using[r])
  BY RequestEffect
<1>2. PoolTyped' /\ RowsTyped' /\ FlagsTyped'
  BY <1>1 DEF Typed, PoolTyped, RowsTyped, FlagsTyped, gate, tables
<1>3. ModelOf[r] \in Models /\ (at[r] = "upstream" => using[r] \in Keys)
  BY QwenAssumption DEF Typed, RequestsTyped
<1>4. CountsTyped'
  BY <1>1, <1>3 DEF Observed, Typed, CountsTyped
<1>5. CASE LearnNothing
  BY <1>1, <1>2, <1>4, <1>5
     DEF LearnNothing, Typed, StatusTyped, MarksTyped, WritesTyped, tables
<1>6. ASSUME at[r] = "upstream", NEW verdict \in Verdict, Learnt(verdict, using[r], ModelOf[r])
      PROVE  StatusTyped' /\ MarksTyped' /\ WritesTyped'
  <2>1. StatusTyped'
    BY <1>1, <1>3, <1>6 DEF Learnt, Typed, StatusTyped, Status, tables
  <2>2. MarksTyped'
    BY <1>1, <1>3, <1>6 DEF Learnt, Typed, MarksTyped, tables
  <2>3. Saved(verdict, using[r], ModelOf[r]) \subseteq Write
    BY <1>3, <1>6 DEF Saved, Mark, Row, Write
  <2>4. WritesTyped'
    <3> DEFINE W == Saved(verdict, using[r], ModelOf[r])
    <3>1. writes' = writes (+) SetToBag(W) /\ W \subseteq Write
      BY <1>6, <2>3, Zenon DEF Learnt, Save
    <3> HIDE DEF W
    <3> QED BY <1>1, <3>1, BagAddSet DEF Typed, WritesTyped
  <2> QED BY <2>1, <2>2, <2>4
<1> QED BY <1>1, <1>2, <1>4, <1>5, <1>6

LEMMA RequestTyped == ASSUME Typed, NEW r \in Reqs, Request(r) PROVE Typed'
BY RequestKeepsRequests, RequestKeepsRest DEF Typed

(***************************************************************************)
(* The operator                                                            *)
(***************************************************************************)
\* An operation leaves these alone.
LEMMA OperatorFrame ==
    ASSUME Typed, Operator
    PROVE  RequestsTyped' /\ restarts' = restarts /\ dropped' = dropped
BY DEF Operator, Typed, RequestsTyped, reqVars

LEMMA OperateCounts ==
    ASSUME Typed, NEW op, Operate(op), rejected' \subseteq rejected, restarts' = restarts
    PROVE  CountsTyped'
BY QwenAssumption DEF Operate, Typed, CountsTyped

LEMMA SaveTyped ==
    ASSUME Typed, NEW W \in SUBSET Write, Save(W), dropped' = dropped
    PROVE  WritesTyped'
BY BagAddSet DEF Save, Typed, WritesTyped

LEMMA AddTyped ==
    ASSUME Typed, NEW k \in Keys, AddApiKey(k), RequestsTyped', restarts' = restarts, dropped' = dropped
    PROVE  Typed'
<1> DEFINE W == {Row("insert", k)} \cup (IF disabled THEN {Enable} ELSE {})
<1>1. /\ keys \in Seq(Keys) /\ IsInjective(keys) /\ k \notin Elems(keys)
      /\ keys' = Append(keys, k) /\ idx' = idx /\ wiped' = wiped
  <2>1. keys \in Seq(Keys) /\ IsInjective(keys)
    BY DEF Typed, PoolTyped
  <2>2. k \notin ToSet(keys) /\ keys' = Append(keys, k) /\ idx' = idx /\ wiped' = wiped
    BY DEF AddApiKey
  <2> QED BY <2>1, <2>2, ListFacts
<1>2. keys' \in Seq(Keys) /\ IsInjective(keys') /\ Len(keys') = Len(keys) + 1
  BY <1>1, AppendFacts
<1>3. idx' \in Nat /\ (wiped' \/ idx' < Len(keys'))
  <2>1. idx \in Nat /\ Len(keys) \in Nat /\ (keys = <<>> => Len(keys) = 0)
    BY <1>1 DEF Typed, PoolTyped
  <2>2. wiped \/ idx < Len(keys) + 1
    BY <2>1 DEF Typed, PoolTyped
  <2> QED BY <1>1, <1>2, <2>1, <2>2, Zenon
<1>4. CountsTyped'
  BY OperateCounts DEF AddApiKey
<1>5. Save(W) /\ W \in SUBSET Write
  <2>1. Save(W)
    BY Zenon DEF AddApiKey
  <2>2. W \in SUBSET Write
    BY DEF Row, Enable, Write
  <2> QED BY <2>1, <2>2, Zenon
<1>6. WritesTyped'
  <2> HIDE DEF W
  <2> QED BY <1>5, SaveTyped
<1>7. RowsTyped' /\ FlagsTyped' /\ StatusTyped' /\ MarksTyped' /\ CursorTyped'
  BY DEF AddApiKey, tables, Typed, RowsTyped, FlagsTyped, StatusTyped, Status, MarksTyped, CursorTyped
<1> QED BY <1>2, <1>3, <1>4, <1>6, <1>7 DEF Typed, PoolTyped

LEMMA RemoveTyped ==
    ASSUME Typed, NEW p \in 1..Len(keys), RemoveApiKey(p), RequestsTyped', restarts' = restarts, dropped' = dropped
    PROVE  Typed'
<1> DEFINE k == keys[p]
           current == p = idx + 1
           next == (idx + 1) % Len(keys)
           i == IF current THEN next ELSE idx
           W == {Row("delete", k)} \cup (IF current THEN {Row("Active", keys[next + 1])} ELSE {})
<1>1. /\ keys \in Seq(Keys) /\ IsInjective(keys) /\ Len(keys) \in Nat /\ idx \in Nat
      /\ \A a, b \in 1..Len(keys) : keys[a] = keys[b] => a = b
  BY ListFacts DEF Typed, PoolTyped, IsInjective
<1>2. /\ Len(keys) > 1 /\ keys' = RemoveAt(keys, p) /\ idx' = IndexAfterRemoval(i)
      /\ Operate("remove") /\ Save(W)
      /\ rejected' = rejected \ (IF current THEN {k, keys[next + 1]} ELSE {k})
      /\ UNCHANGED <<failed, cursor, gate, tables>>
  BY Zenon DEF RemoveApiKey
<1>3. next \in 0..Len(keys) - 1
  BY <1>1, <1>2
<1>4. k \in Keys /\ keys[next + 1] \in Keys
  BY <1>1, <1>3
<1>5. /\ keys' \in Seq(Keys) /\ Len(keys') = Len(keys) - 1
      /\ \A a, b \in 1..Len(keys) - 1 : keys'[a] = keys'[b] => a = b
  <2>1. /\ RemoveAt(keys, p) \in Seq(Keys) /\ Len(RemoveAt(keys, p)) = Len(keys) - 1
        /\ \A a, b \in 1..Len(keys) - 1 :
              RemoveAt(keys, p)[a] = RemoveAt(keys, p)[b] => a = b
    BY <1>1, RemoveAtFacts
  <2> QED BY <1>2, <2>1, Zenon
<1>6. IsInjective(keys')
  <2>1. DOMAIN keys' = 1..Len(keys) - 1
    BY <1>5
  <2> QED BY <1>5, <2>1 DEF IsInjective
<1>7. idx' \in Nat /\ idx' < Len(keys')
  <2>1. i \in Nat
    BY <1>1, <1>3
  <2> HIDE DEF i
  <2>2. IndexAfterRemoval(i) \in Nat /\ IndexAfterRemoval(i) < Len(keys) - 1
    BY <1>1, <1>2, <2>1 DEF IndexAfterRemoval
  <2> QED BY <1>2, <1>5, <2>2, Zenon
<1>8. StatusTyped'
  <2> DEFINE st == IF current THEN [status EXCEPT ![keys[next + 1]] = "Active"] ELSE status
  <2>1. status' = [st EXCEPT ![k] = "none"] /\ rowStatus' = rowStatus
    BY <1>2, Zenon DEF RemoveApiKey, tables
  <2>2. st \in [Keys -> Status]
    BY DEF Typed, StatusTyped, Status
  <2> HIDE DEF st, k
  <2> QED BY <2>1, <2>2 DEF Typed, StatusTyped, Status
<1>9. WritesTyped'
  <2>1. W \in SUBSET Write
    BY <1>4 DEF Row, Write
  <2> HIDE DEF W
  <2> QED BY <1>2, <2>1, SaveTyped
<1>10. CountsTyped'
  <2>1. rejected' \subseteq rejected
    BY <1>2
  <2> QED BY <1>2, <2>1, OperateCounts
<1>11. RowsTyped' /\ FlagsTyped' /\ MarksTyped' /\ CursorTyped'
  BY <1>2 DEF gate, tables, Typed, RowsTyped, FlagsTyped, MarksTyped, CursorTyped
<1>12. PoolTyped'
  BY <1>5, <1>6, <1>7 DEF PoolTyped
<1> QED BY <1>8, <1>9, <1>10, <1>11, <1>12 DEF Typed

LEMMA ResetTyped ==
    ASSUME Typed, NEW k \in Keys, ResetKeyStatus(k), RequestsTyped', restarts' = restarts, dropped' = dropped
    PROVE  Typed'
<1> DEFINE W == {Row("clear", k), Row("Standby", k)}
<1>1. Save(W) /\ Operate("reset") /\ UNCHANGED <<keys, idx, gate, tables>>
  BY DEF ResetKeyStatus
<1>2. W \in SUBSET Write
  BY DEF Row, Write
<1>3. WritesTyped'
  <2> HIDE DEF W
  <2> QED BY <1>1, <1>2, SaveTyped
<1>4. CountsTyped'
  <2>1. rejected' \subseteq rejected
    BY DEF ResetKeyStatus
  <2> QED BY <1>1, <2>1, OperateCounts
<1>5. PoolTyped' /\ RowsTyped' /\ FlagsTyped'
  BY <1>1 DEF gate, tables, Typed, PoolTyped, RowsTyped, FlagsTyped
<1>6. StatusTyped' /\ MarksTyped'
  BY <1>1 DEF ResetKeyStatus, tables, Typed, StatusTyped, Status, MarksTyped
<1>7. CursorTyped'
  BY DEF ResetKeyStatus, Typed, CursorTyped
<1> QED BY <1>3, <1>4, <1>5, <1>6, <1>7 DEF Typed

LEMMA ActivateTyped ==
    ASSUME Typed, NEW p \in 1..Len(keys), SetActiveKey(p), RequestsTyped', restarts' = restarts, dropped' = dropped
    PROVE  Typed'
<1> DEFINE k == keys[p]
           W == {Row("Standby", l) : l \in Demoted} \cup {Row("Active", k)}
<1>1. /\ keys \in Seq(Keys) /\ Len(keys) \in Nat /\ k \in Keys /\ Demoted \subseteq Keys
  BY ListFacts DEF Typed, PoolTyped, Demoted
<1>2. /\ Save(W) /\ Operate("activate") /\ idx' = p - 1
      /\ UNCHANGED <<keys, failed, cursor, gate, tables>>
  BY DEF SetActiveKey
<1>3. W \in SUBSET Write
  BY <1>1 DEF Row, Write
<1>4. WritesTyped'
  <2> HIDE DEF W
  <2> QED BY <1>2, <1>3, SaveTyped
<1>5. CountsTyped'
  <2>1. rejected' \subseteq rejected
    BY DEF SetActiveKey
  <2> QED BY <1>2, <2>1, OperateCounts
<1>6. PoolTyped'
  <2>1. p - 1 \in Nat /\ p - 1 < Len(keys)
    BY <1>1
  <2>2. idx' \in Nat /\ idx' < Len(keys')
    BY <1>2, <2>1, Zenon
  <2> QED BY <1>2, <2>2 DEF Typed, PoolTyped
<1>7. StatusTyped'
  BY <1>2 DEF SetActiveKey, tables, Typed, StatusTyped, Status
<1>8. RowsTyped' /\ FlagsTyped' /\ MarksTyped' /\ CursorTyped'
  BY <1>2 DEF gate, tables, Typed, RowsTyped, FlagsTyped, MarksTyped, CursorTyped
<1> QED BY <1>4, <1>5, <1>6, <1>7, <1>8 DEF Typed

\* remove_provider: its three steps and its failure.
LEMMA RemovalTyped ==
    ASSUME Typed, RequestsTyped', restarts' = restarts, dropped' = dropped,
           RemoveProvider \/ DeleteKeyRows \/ DisableProvider \/ RemovalFails
    PROVE  Typed'
<1> DEFINE none == <<>>
<1>1. none \in Seq(Keys) /\ IsInjective(none) /\ none = <<>>
  BY DEF IsInjective
<1> HIDE DEF none
<1>2. CASE RemoveProvider
  <2>1. PoolTyped'
    BY <1>1, <1>2 DEF RemoveProvider, Typed, PoolTyped
  <2>2. Operate("removeProvider") /\ rejected' \subseteq rejected
    BY <1>2 DEF RemoveProvider
  <2>3. CountsTyped'
    BY <2>2, OperateCounts
  <2>4. StatusTyped'
    BY <1>2 DEF RemoveProvider, tables, Typed, StatusTyped, Status
  <2>5. RowsTyped' /\ FlagsTyped' /\ MarksTyped' /\ CursorTyped' /\ WritesTyped'
    BY <1>2 DEF RemoveProvider, tables, Typed, RowsTyped, FlagsTyped, MarksTyped, CursorTyped,
                WritesTyped
  <2> QED BY <2>1, <2>3, <2>4, <2>5 DEF Typed
<1>3. CASE DeleteKeyRows
  <2>1. RowsTyped'
    BY <1>1, <1>3 DEF DeleteKeyRows, RowsTyped
  <2>2. PoolTyped' /\ FlagsTyped' /\ StatusTyped' /\ MarksTyped' /\ CursorTyped'
    BY <1>3 DEF DeleteKeyRows, Typed, PoolTyped, FlagsTyped, StatusTyped, Status, MarksTyped,
                CursorTyped
  <2>3. WritesTyped' /\ CountsTyped'
    BY <1>3 DEF DeleteKeyRows, Typed, WritesTyped, CountsTyped
  <2> QED BY <2>1, <2>2, <2>3 DEF Typed
<1>4. CASE DisableProvider \/ RemovalFails
  <2>1. PoolTyped' /\ RowsTyped' /\ FlagsTyped' /\ StatusTyped' /\ MarksTyped' /\ CursorTyped'
    BY <1>4 DEF DisableProvider, RemovalFails, tables, Typed, PoolTyped, RowsTyped, FlagsTyped,
                StatusTyped, MarksTyped, CursorTyped
  <2>2. WritesTyped' /\ CountsTyped'
    BY <1>4 DEF DisableProvider, RemovalFails, Typed, WritesTyped, CountsTyped
  <2> QED BY <2>1, <2>2 DEF Typed
<1> QED BY <1>2, <1>3, <1>4

LEMMA OperatorTyped == Typed /\ Operator => Typed'
<1> SUFFICES ASSUME Typed, Operator PROVE Typed'
  OBVIOUS
<1>1. RequestsTyped' /\ restarts' = restarts /\ dropped' = dropped
  BY OperatorFrame
<1> QED BY <1>1, AddTyped, RemoveTyped, ResetTyped, ActivateTyped, RemovalTyped DEF Operator

(***************************************************************************)
(* Writes, starts                                                          *)
(***************************************************************************)
LEMMA WriteKinds ==
    ASSUME NEW w \in Write
    PROVE  \/ w.op = "enable"
           \/ w.op = "mark" /\ w.key \in Keys /\ w.model \in Models
           \/ w.op \in {"insert", "delete", "clear", "Active", "Standby", "Invalid"} /\ w.key \in Keys
BY DEF Write

\* The statement of a write, by kind.
LEMMA ExecuteCases ==
    ASSUME NEW w \in Write, Execute(w)
    PROVE  /\ w.op = "insert" =>
                /\ rows' = IF w.key \in ToSet(rows) THEN rows ELSE Append(rows, w.key)
                /\ rowStatus' = IF w.key \in ToSet(rows) THEN rowStatus
                                ELSE [rowStatus EXCEPT ![w.key] = "Standby"]
                /\ UNCHANGED <<rowFailed, rowDisabled>>
           /\ w.op = "delete" =>
                /\ rows' = Without(rows, w.key)
                /\ rowStatus' = [rowStatus EXCEPT ![w.key] = "none"]
                /\ rowFailed' = {f \in rowFailed : f[1] # w.key}
                /\ UNCHANGED rowDisabled
           /\ w.op = "mark" =>
                /\ rowFailed' = IF w.key \in ToSet(rows) THEN rowFailed \cup {<<w.key, w.model>>}
                                ELSE rowFailed
                /\ UNCHANGED <<rows, rowStatus, rowDisabled>>
           /\ w.op = "clear" =>
                /\ rowFailed' = {f \in rowFailed : f[1] # w.key}
                /\ UNCHANGED <<rows, rowStatus, rowDisabled>>
           /\ w.op = "enable" => rowDisabled' = FALSE /\ UNCHANGED <<rows, rowStatus, rowFailed>>
           /\ w.op \in {"Active", "Standby", "Invalid"} =>
                /\ rowStatus' = IF w.key \in ToSet(rows) THEN [rowStatus EXCEPT ![w.key] = w.op]
                                ELSE rowStatus
                /\ UNCHANGED <<rows, rowFailed, rowDisabled>>
BY DEF Execute

LEMMA ExecuteTyped ==
    ASSUME Typed, NEW w \in Write, Execute(w)
    PROVE  /\ RowsTyped' /\ rowDisabled' \in BOOLEAN
           /\ rowStatus' \in [Keys -> Status]
           /\ rowFailed' \subseteq Keys \X Models
<1>1. /\ rows \in Seq(Keys) /\ IsInjective(rows) /\ rowDisabled \in BOOLEAN
      /\ rowStatus \in [Keys -> Status] /\ rowFailed \subseteq Keys \X Models
      /\ ToSet(rows) = Elems(rows)
  BY ListFacts DEF Typed, RowsTyped, FlagsTyped, StatusTyped, MarksTyped
<1>2. CASE w.op = "insert"
  <2>1. w.key \in Keys
    BY <1>2, WriteKinds
  <2>2. w.key \notin ToSet(rows) =>
           Append(rows, w.key) \in Seq(Keys) /\ IsInjective(Append(rows, w.key))
    BY <1>1, <2>1, AppendFacts
  <2>3. RowsTyped'
    BY <1>1, <1>2, <2>2, ExecuteCases DEF RowsTyped
  <2> QED BY <1>1, <1>2, <2>1, <2>3, ExecuteCases DEF Status
<1>3. CASE w.op = "delete"
  <2>1. Without(rows, w.key) \in Seq(Keys) /\ IsInjective(Without(rows, w.key))
    BY <1>1, WithoutFacts
  <2>2. RowsTyped'
    BY <1>3, <2>1, ExecuteCases DEF RowsTyped
  <2> QED BY <1>1, <1>3, <2>2, ExecuteCases DEF Status
<1>4. CASE w.op = "mark"
  <2>1. <<w.key, w.model>> \in Keys \X Models
    BY <1>4, WriteKinds
  <2> QED BY <1>1, <1>4, <2>1, ExecuteCases DEF RowsTyped
<1>5. CASE w.op \in {"clear", "enable"}
  BY <1>1, <1>5, ExecuteCases DEF RowsTyped
<1>6. CASE w.op \in {"Active", "Standby", "Invalid"}
  <2>1. w.key \in Keys
    BY <1>6, WriteKinds
  <2> QED BY <1>1, <1>6, <2>1, ExecuteCases DEF RowsTyped, Status
<1> QED BY <1>2, <1>3, <1>4, <1>5, <1>6, WriteKinds

LEMMA PerformTyped == Typed /\ PerformWrite => Typed'
<1> SUFFICES ASSUME Typed, PerformWrite PROVE Typed'
  OBVIOUS
<1>1. PICK w \in BagToSet(writes) : Execute(w) /\ writes' = writes (-) SetToBag({w})
  BY DEF PerformWrite
<1>2. w \in Write /\ IsABag(writes) /\ w \in DOMAIN writes
  BY DEF Typed, WritesTyped, BagToSet
<1>3. /\ UNCHANGED memory /\ UNCHANGED reqVars
      /\ UNCHANGED <<dropped, rejected, ops, restarts>>
  BY DEF PerformWrite
<1>4. WritesTyped'
  BY <1>1, <1>2, <1>3, BagRemove DEF Typed, WritesTyped, BagToSet
<1>5. PoolTyped' /\ CursorTyped' /\ RequestsTyped' /\ CountsTyped'
  BY <1>3 DEF memory, gate, reqVars, Typed, PoolTyped, CursorTyped, RequestsTyped, CountsTyped
<1>6. FlagsTyped' /\ StatusTyped' /\ MarksTyped'
  BY <1>1, <1>2, <1>3, ExecuteTyped
     DEF memory, gate, Typed, FlagsTyped, StatusTyped, MarksTyped
<1> QED BY <1>1, <1>2, <1>4, <1>5, <1>6, ExecuteTyped DEF Typed

LEMMA WriteFailsTyped == Typed /\ WriteFails => Typed'
<1> SUFFICES ASSUME Typed, WriteFails PROVE Typed'
  OBVIOUS
<1>1. PICK w \in BagToSet(writes) :
         dropped' = dropped \cup {w} /\ writes' = writes (-) SetToBag({w})
  BY DEF WriteFails
<1>2. WritesTyped'
  <2>1. w \in Write /\ IsABag(writes) /\ w \in DOMAIN writes
    BY DEF Typed, WritesTyped, BagToSet
  <2> QED BY <1>1, <2>1, BagRemove DEF Typed, WritesTyped, BagToSet
<1>3. UNCHANGED <<memory, tables, reqVars, rejected, ops, restarts>>
  BY DEF WriteFails
<1> QED BY <1>2, <1>3 DEF memory, gate, tables, reqVars, Typed, PoolTyped, RowsTyped,
        FlagsTyped, StatusTyped, MarksTyped, CursorTyped, RequestsTyped, CountsTyped

\* The status and the index a start computes for the list it loads.
LEMMA StartFacts ==
    ASSUME NEW pool \in Seq(Keys), NEW st \in [Keys -> Status]
    PROVE  /\ StartStatus(pool, st) \in [Keys -> Status]
           /\ StartIndex(pool, st) \in Nat
           /\ StartIndex(pool, st) < Len(pool) \/ (pool = <<>> /\ StartIndex(pool, st) = 0)
           /\ \A k \in Keys : StartStatus(pool, st)[k] = "Invalid" => st[k] = "Invalid"
<1> DEFINE active == ActiveIndices(pool, st)
<1>1. Len(pool) \in Nat /\ (pool # <<>> => Len(pool) > 0 /\ pool[1] \in Keys)
  BY ListFacts
<1>2. active \in SUBSET Nat /\ \A i \in active : i \in 1..Len(pool)
  BY <1>1 DEF ActiveIndices
<1>3. active # {} => Min(active) \in active /\ Min(active) \in 1..Len(pool)
  <2> HIDE DEF active
  <2> QED BY <1>2, MinFacts
<1>4. /\ StartIndex(pool, st) \in Nat
      /\ StartIndex(pool, st) < Len(pool) \/ (pool = <<>> /\ StartIndex(pool, st) = 0)
  <2>1. CASE active = {}
    <3>1. StartIndex(pool, st) = 0
      BY <2>1 DEF StartIndex
    <3> QED BY <1>1, <3>1
  <2>2. CASE active # {}
    <3>1. StartIndex(pool, st) = Min(active) - 1
      BY <2>2 DEF StartIndex
    <3>2. \A i \in 1..Len(pool) : i - 1 \in Nat /\ i - 1 < Len(pool)
      BY <1>1
    <3> QED BY <1>3, <2>2, <3>1, <3>2, Zenon
  <2> QED BY <2>1, <2>2
<1>5. /\ StartStatus(pool, st) \in [Keys -> Status]
      /\ \A k \in Keys : StartStatus(pool, st)[k] = "Invalid" => st[k] = "Invalid"
  BY <1>1 DEF StartStatus, Status
<1> QED BY <1>4, <1>5

LEMMA InitTyped == Init => Typed
<1> SUFFICES ASSUME Init PROVE Typed
  OBVIOUS
<1> DEFINE st == [k \in Keys |-> IF k \in ToSet(InitialKeys) THEN "Standby" ELSE "none"]
<1>1. /\ keys = InitialKeys /\ rows = InitialKeys /\ idx = 0
      /\ status = StartStatus(InitialKeys, st) /\ rowStatus = status
  BY Zenon DEF Init
<1>2. InitialKeys \in Seq(Keys) /\ IsInjective(InitialKeys)
  BY QwenAssumption, ListFacts DEF IsInjective
<1>3. idx < Len(keys) \/ (keys = <<>> /\ idx = 0)
  BY <1>1, <1>2, ListFacts
<1>4. PoolTyped /\ RowsTyped
  BY <1>1, <1>2, <1>3 DEF PoolTyped, RowsTyped
<1>5. StatusTyped
  <2>1. st \in [Keys -> Status]
    BY DEF Status
  <2> HIDE DEF st
  <2> QED BY <1>1, <1>2, <2>1, StartFacts DEF StatusTyped
<1>6. FlagsTyped /\ MarksTyped /\ CursorTyped
  BY DEF Init, FlagsTyped, MarksTyped, CursorTyped
<1>7. WritesTyped
  BY DEF Init, WritesTyped, EmptyBag, SetToBag, IsABag, BagToSet
<1>8. RequestsTyped /\ CountsTyped
  BY QwenAssumption DEF Init, RequestsTyped, CountsTyped, Where
<1> QED BY <1>4, <1>5, <1>6, <1>7, <1>8 DEF Typed

LEMMA RestartFacts ==
    ASSUME Typed, Restart
    PROVE  /\ PoolTyped' /\ RowsTyped' /\ StatusTyped'
           /\ keys' = rows' /\ rowStatus' = status'
           /\ ToSet(keys') = ToSet(rows) \cup ToSet(EnvKeys)
           /\ wiped' = FALSE
<1>1. PICK pool \in BoundedSeq(Keys, Len(rows) + Len(EnvKeys)) :
         /\ Loads(rows, pool) /\ keys' = pool /\ rows' = pool
         /\ status' = StartStatus(pool, LoadedStatus(rows, rowStatus)) /\ rowStatus' = status'
         /\ idx' = StartIndex(pool, LoadedStatus(rows, rowStatus))
  BY DEF Restart
<1>2. pool \in Seq(Keys)
  <2>1. Len(rows) + Len(EnvKeys) \in Nat
    BY QwenAssumption, ListFacts DEF Typed, RowsTyped
  <2>2. PICK n \in 0..Len(rows) + Len(EnvKeys) : pool \in [1..n -> Keys]
    BY Zenon DEF BoundedSeq, SeqOf
  <2>3. n \in Nat
    BY <2>1
  <2> QED BY <2>2, <2>3
<1>3. IsInjective(pool) /\ ToSet(pool) = ToSet(rows) \cup ToSet(EnvKeys)
  BY <1>1 DEF Loads
<1>4. LoadedStatus(rows, rowStatus) \in [Keys -> Status]
  BY DEF LoadedStatus, Typed, StatusTyped, Status
<1>5. StatusTyped'
  BY <1>1, <1>2, <1>4, StartFacts DEF StatusTyped
<1>6. PoolTyped'
  BY <1>1, <1>2, <1>3, <1>4, StartFacts DEF PoolTyped
<1>7. wiped' = FALSE
  BY DEF Restart
<1> QED BY <1>1, <1>2, <1>3, <1>5, <1>6, <1>7 DEF RowsTyped

LEMMA RestartTyped == Typed /\ Restart => Typed'
<1> SUFFICES ASSUME Typed, Restart PROVE Typed'
  OBVIOUS
<1>1. FlagsTyped' /\ MarksTyped' /\ CursorTyped'
  BY DEF Restart, Typed, FlagsTyped, MarksTyped, CursorTyped
<1>2. WritesTyped'
  BY DEF Restart, WritesTyped, EmptyBag, SetToBag, IsABag, BagToSet
<1>3. RequestsTyped'
  BY DEF Restart, Typed, RequestsTyped, Where, Ended
<1>4. CountsTyped'
  BY QwenAssumption DEF Restart, Typed, CountsTyped
<1> QED BY <1>1, <1>2, <1>3, <1>4, RestartFacts DEF Typed

LEMMA TypedKept == Typed /\ [Next]_vars => Typed'
<1>1. Typed /\ UNCHANGED vars => Typed'
  BY DEF vars, memory, gate, tables, reqVars, Typed, PoolTyped, RowsTyped, FlagsTyped,
         StatusTyped, MarksTyped, CursorTyped, WritesTyped, RequestsTyped, CountsTyped
<1> QED BY <1>1, RequestTyped, OperatorTyped, PerformTyped, WriteFailsTyped,
       RestartTyped DEF Next

\* The inductive invariant of the types: every list is without repetition, the
\* index names a key unless the provider was removed, and a request that waits
\* for upstream holds a key.
THEOREM TypedInvariant == Spec => []Typed
<1> QED BY InitTyped, TypedKept, PTL DEF Spec

\* Every reachable state is well typed.
THEOREM TypeCorrect == Spec => []TypeOK
<1>1. Typed => TypeOK
  BY DEF Typed, PoolTyped, RowsTyped, FlagsTyped, StatusTyped, MarksTyped, CursorTyped,
         WritesTyped, RequestsTyped, CountsTyped, TypeOK
<1> QED BY <1>1, TypedInvariant, PTL

\* The index of the whole pool names a key, through removals, rotations and
\* restarts, until remove_provider empties the list under it.
THEOREM IndexNamesAKey == Spec => []IndexInRange
<1>1. Typed => IndexInRange
  BY DEF Typed, PoolTyped, IndexInRange
<1> QED BY <1>1, TypedInvariant, PTL

(***************************************************************************)
(* Quarantine                                                              *)
(***************************************************************************)
LEMMA QuarantineKept ==
    ASSUME ChatReqs = {}, Typed, RejectedIsQuarantined, [Next]_vars
    PROVE  RejectedIsQuarantined'
<1> USE DEF RejectedIsQuarantined
<1>0. /\ keys \in Seq(Keys) /\ status \in [Keys -> Status] /\ ToSet(keys) = Elems(keys)
      /\ Len(keys) \in Nat /\ \A p \in 1..Len(keys) : keys[p] \in Keys
      /\ ToSet(keys) \subseteq Keys
  BY ListFacts DEF Typed, PoolTyped, StatusTyped
<1>1. CASE UNCHANGED <<keys, status, rejected>>
  BY <1>1
<1>2. ASSUME NEW r \in Reqs, Request(r) PROVE RejectedIsQuarantined'
  <2>1. /\ keys' = keys
        /\ \/ status' = status /\ rejected' = rejected
           \/ \E verdict \in Verdict :
                 Learnt(verdict, using[r], ModelOf[r]) /\ Observed(verdict, using[r])
    BY <1>2, RequestEffect DEF LearnNothing
  <2>2. ASSUME NEW verdict \in Verdict,
               Learnt(verdict, using[r], ModelOf[r]), Observed(verdict, using[r]),
               NEW k \in rejected' \cap ToSet(keys')
        PROVE  status'[k] = "Invalid"
    <3>1. k \in ToSet(keys) /\ k \in Keys
      BY <1>0, <2>1, <2>2
    <3>2. k \in rejected \/ (k = using[r] /\ "invalid" \in verdict)
      BY <2>2 DEF Observed
    <3>3. status' = IF Quarantines(verdict, using[r])
                    THEN [status EXCEPT ![using[r]] = "Invalid"] ELSE status
      BY <2>2 DEF Learnt
    <3>4. k = using[r] /\ "invalid" \in verdict => Quarantines(verdict, using[r])
      BY <3>1 DEF Quarantines
    <3>5. k \in rejected => status[k] = "Invalid"
      BY <3>1
    <3> QED BY <1>0, <3>1, <3>2, <3>3, <3>4, <3>5
  <2> QED BY <1>1, <2>1, <2>2
<1>3. ASSUME NEW k \in Keys, AddApiKey(k) PROVE RejectedIsQuarantined'
  <2>1. /\ keys' = Append(keys, k) /\ rejected' = rejected \ {k}
        /\ status' = [status EXCEPT ![k] = "Standby"] /\ k \notin Elems(keys)
    BY <1>0, <1>3 DEF AddApiKey
  <2>2. Elems(keys') = Elems(keys) \cup {k} /\ ToSet(keys') = Elems(keys')
    BY <1>0, <2>1, AppendFacts DEF Typed, PoolTyped, ToSet, Elems
  <2> QED BY <1>0, <2>1, <2>2
<1>4. ASSUME NEW p \in 1..Len(keys), RemoveApiKey(p) PROVE RejectedIsQuarantined'
  <2> DEFINE k == keys[p]
             current == p = idx + 1
             n == keys[((idx + 1) % Len(keys)) + 1]
  <2>1. /\ keys' = RemoveAt(keys, p)
        /\ status' = [(IF current THEN [status EXCEPT ![n] = "Active"] ELSE status) EXCEPT ![k] = "none"]
        /\ rejected' = rejected \ (IF current THEN {k, n} ELSE {k})
    BY <1>4, Zenon DEF RemoveApiKey
  <2>2. \A a, b \in 1..Len(keys) : keys[a] = keys[b] => a = b
    BY <1>0 DEF Typed, PoolTyped, IsInjective
  <2>3. ToSet(keys') \subseteq ToSet(keys)
    <3>1. ToSet(RemoveAt(keys, p)) = ToSet(keys) \ {keys[p]}
      BY <1>0, <2>2, RemoveAtFacts
    <3> QED BY <2>1, <3>1
  <2> HIDE DEF k, n
  <2>4. ASSUME NEW l \in rejected' \cap ToSet(keys') PROVE status'[l] = "Invalid"
    <3>1. l \in rejected /\ l \in ToSet(keys) /\ l \in Keys /\ l # k /\ (current => l # n)
      BY <1>0, <2>1, <2>3, <2>4
    <3>2. status[l] = "Invalid"
      BY <3>1
    <3> QED BY <1>0, <2>1, <3>1, <3>2
  <2> QED BY <2>4
<1>5. ASSUME NEW k \in Keys, ResetKeyStatus(k) PROVE RejectedIsQuarantined'
  BY <1>0, <1>5 DEF ResetKeyStatus
<1>6. ASSUME NEW p \in 1..Len(keys), SetActiveKey(p) PROVE RejectedIsQuarantined'
  BY <1>0, <1>6 DEF SetActiveKey, Demoted
<1>7. CASE RemoveProvider
  BY <1>7 DEF RemoveProvider, ToSet
<1>8. CASE DeleteKeyRows \/ DisableProvider \/ RemovalFails
  BY <1>1, <1>8 DEF DeleteKeyRows, DisableProvider, RemovalFails
<1>9. CASE PerformWrite \/ WriteFails \/ UNCHANGED vars
  BY <1>1, <1>9 DEF PerformWrite, WriteFails, memory, vars
<1>10. CASE Restart
  BY <1>10 DEF Restart
<1> QED BY <1>2, <1>3, <1>4, <1>5, <1>6, <1>7, <1>8, <1>9, <1>10 DEF Next, Operator

\* A pooled key that upstream rejected stays out of service until the operator
\* puts it back, whatever races with it.  Chat requests are excluded: the loop
\* of /v1/chat/completions learns nothing from its last attempt.
THEOREM RejectedStaysOut ==
    ASSUME ChatReqs = {}
    PROVE  Spec => []RejectedIsQuarantined
<1>1. Init => RejectedIsQuarantined
  BY DEF Init, RejectedIsQuarantined
<1> QED BY <1>1, QuarantineKept, TypedInvariant, PTL DEF Spec

(***************************************************************************)
(* One attempt after another                                               *)
(***************************************************************************)
\* The first usable key from the model's cursor on.
Pick(cur, m, usable) == keys[Scan(cur[m] % Len(keys), 0, usable) + 1]

\* The key TryNext takes, and where it stands.
LEMMA TryNextHolds ==
    ASSUME Typed, NEW r \in Reqs, NEW n \in Nat, NEW b \in Nat, NEW c, NEW seen,
           NEW cur \in [Models -> Nat], NEW usable \in SUBSET ToSet(keys),
           TryNext(r, n, b, c, seen, cur, usable)
    PROVE  /\ at'[r] \in {"upstream", "failed", "exhausted"}
           /\ at'[r] = "failed" => n >= b
           /\ at'[r] = "exhausted" => usable = {}
           /\ at'[r] # "upstream" => tried'[r] = seen
           /\ at'[r] = "upstream" =>
                 /\ n < b /\ usable # {}
                 /\ attempt'[r] = n /\ budget'[r] = b
                 /\ using'[r] = Pick(cur, ModelOf[r], usable)
                 /\ tried'[r] = seen \cup {using'[r]}
                 /\ using'[r] \in usable
<1> DEFINE i == Scan(cur[ModelOf[r]] % Len(keys), 0, usable)
<1>1. /\ attempt' = [attempt EXCEPT ![r] = n] /\ budget' = [budget EXCEPT ![r] = b]
      /\ at \in [Reqs -> Where] /\ attempt \in [Reqs -> Nat] /\ budget \in [Reqs -> Nat]
      /\ using \in [Reqs -> Keys \cup {NoKey}] /\ tried \in [Reqs -> SUBSET Keys]
  BY DEF TryNext, Typed, RequestsTyped
<1>2. CASE n >= b \/ usable = {}
  <2>1. /\ at' = [at EXCEPT ![r] = IF n >= b THEN "failed" ELSE "exhausted"]
        /\ tried' = [tried EXCEPT ![r] = seen] /\ using' = using
    BY <1>2 DEF TryNext
  <2> QED BY <1>1, <1>2, <2>1
<1>3. CASE n < b /\ usable # {}
  <2>1. /\ at' = [at EXCEPT ![r] = "upstream"]
        /\ using' = [using EXCEPT ![r] = keys[i + 1]]
        /\ tried' = [tried EXCEPT ![r] = seen \cup {keys[i + 1]}]
    BY <1>3, ~(n >= b \/ usable = {}), Zenon DEF TryNext
  <2>2. cur[ModelOf[r]] % Len(keys) \in Nat
    <3>1. ModelOf[r] \in Models /\ Len(keys) \in Nat /\ Len(keys) > 0
      BY <1>3, QwenAssumption, ListFacts DEF Typed, PoolTyped
    <3> QED BY <3>1
  <2>3. keys[i + 1] \in usable
    BY <1>3, <2>2, ScanTyped DEF Typed, PoolTyped
  <2> HIDE DEF i
  <2>4. /\ at'[r] = "upstream" /\ using'[r] = keys[i + 1]
        /\ tried'[r] = seen \cup {keys[i + 1]}
        /\ attempt'[r] = n /\ budget'[r] = b
    BY <1>1, <2>1
  <2>5. using'[r] = Pick(cur, ModelOf[r], usable)
    BY <2>4, Zenon DEF i, Pick
  <2> QED BY <1>3, <2>3, <2>4, <2>5
<1> QED BY <1>2, <1>3

LEMMA FinishHolds ==
    ASSUME Typed, NEW r \in Reqs, NEW outcome \in Ended, Finish(r, outcome)
    PROVE  /\ at'[r] = outcome
           /\ UNCHANGED <<attempt, budget, using, tried>>
           /\ \A q \in Reqs \ {r} : at'[q] = at[q]
BY DEF Finish, Typed, RequestsTyped

\* A request that goes to upstream took a key of the pool.
LEMMA RequestHolds ==
    ASSUME Typed, NEW r \in Reqs, Request(r), at'[r] = "upstream"
    PROVE  using'[r] \in ToSet(keys)
<1> DEFINE m == ModelOf[r]
<1>0. /\ keys \in Seq(Keys) /\ CursorTyped /\ Len(keys) \in Nat /\ m \in Models
      /\ cursor \in [Models -> Nat] /\ at \in [Reqs -> Where]
      /\ attempt[r] + 1 \in Nat /\ budget[r] \in Nat /\ 0 \in Nat
  BY QwenAssumption, ListFacts DEF Typed, PoolTyped, CursorTyped, RequestsTyped
<1> USE DEF Ended
<1>1. ASSUME NEW n \in Nat, NEW b \in Nat, NEW c, NEW seen, NEW cur \in [Models -> Nat],
             NEW usable \in SUBSET ToSet(keys), TryNext(r, n, b, c, seen, cur, usable)
      PROVE  using'[r] \in ToSet(keys)
  BY <1>1, TryNextHolds
<1>2. ASSUME NEW outcome \in Ended, Finish(r, outcome) PROVE FALSE
  BY <1>2, FinishHolds
<1>3. CASE Begin(r)
  <2>1. TryNext(r, 0, Len(keys), 0, {}, cursor, Usable(m, status, failed))
    BY <1>2, <1>3 DEF Begin
  <2> QED BY <1>0, <1>1, <2>1, UsableFacts
<1>4. CASE MessagesContinue(r)
  <2>1. TryNext(r, attempt[r] + 1, budget[r], level[r], tried[r], cursor,
                Usable(m, status, failed))
    BY <1>4 DEF MessagesContinue
  <2> QED BY <1>0, <1>1, <2>1, UsableFacts
<1>5. CASE MessagesContextWindow(r)
  <2>1. TryNext(r, 0, Len(keys), level[r] + 1, {}, cursor, Usable(m, status, failed))
    BY <1>2, <1>5 DEF MessagesContextWindow
  <2> QED BY <1>0, <1>1, <2>1, UsableFacts
<1>6. CASE ChatRetryable(r) \/ ImageRetryable(r)
  <2> DEFINE usable == Usable(m, status', failed')
             cur == Rotated(m, using[r], usable)
  <2>1. \/ Finish(r, "failed")
        \/ TryNext(r, attempt[r] + 1, budget[r], 0, tried[r], cur, usable)
    BY <1>6, Zenon DEF ChatRetryable, ImageRetryable
  <2>2. TryNext(r, attempt[r] + 1, budget[r], 0, tried[r], cur, usable)
    BY <1>2, <2>1
  <2>3. usable \in SUBSET ToSet(keys)
    BY UsableFacts
  <2> HIDE DEF usable
  <2>4. cur \in [Models -> Nat]
    BY <1>0, <2>3, RotatedTyped
  <2> HIDE DEF cur
  <2> QED BY <1>0, <1>1, <2>2, <2>3, <2>4
<1>7. CASE Answer(r)
  BY <1>2, <1>7 DEF Answer
<1>8. CASE MessagesException(r)
  <2>1. at' = [at EXCEPT ![r] = "between"]
    BY <1>2, <1>8 DEF MessagesException
  <2> QED BY <1>0, <2>1
<1>9. CASE MessagesRetryable(r) \/ NativeFails(r)
  BY <1>0, <1>9 DEF MessagesRetryable, NativeFails
<1>10. CASE ImageException(r)
  BY <1>2, <1>10 DEF ImageException
<1> QED BY <1>3, <1>4, <1>5, <1>6, <1>7, <1>8, <1>9, <1>10 DEF Request

LEMMA OthersHold ==
    ASSUME Typed, NEW r \in Reqs, Request(r)
    PROVE  \A q \in Reqs \ {r} :
              /\ at'[q] = at[q] /\ attempt'[q] = attempt[q] /\ budget'[q] = budget[q]
              /\ using'[q] = using[q] /\ tried'[q] = tried[q]
<1>0. /\ at \in [Reqs -> Where] /\ attempt \in [Reqs -> Nat] /\ budget \in [Reqs -> Nat]
      /\ using \in [Reqs -> Keys \cup {NoKey}] /\ tried \in [Reqs -> SUBSET Keys]
  BY DEF Typed, RequestsTyped
<1>1. CASE \E n, b, c, seen, cur, usable : TryNext(r, n, b, c, seen, cur, usable)
  <2>1. PICK n, b, c, seen, cur, usable : TryNext(r, n, b, c, seen, cur, usable)
    BY <1>1
  <2>2. /\ attempt' = [attempt EXCEPT ![r] = n] /\ budget' = [budget EXCEPT ![r] = b]
        /\ \E x : at' = [at EXCEPT ![r] = x]
        /\ using' = using \/ \E x : using' = [using EXCEPT ![r] = x]
        /\ \E x : tried' = [tried EXCEPT ![r] = x]
    <3>1. CASE n >= b \/ usable = {}
      BY <2>1, <3>1 DEF TryNext
    <3>2. CASE ~(n >= b \/ usable = {})
      BY <2>1, <3>2, Zenon DEF TryNext
    <3> QED BY <3>1, <3>2
  <2> QED BY <1>0, <2>2
<1>2. CASE \E outcome : Finish(r, outcome)
  BY <1>0, <1>2 DEF Finish
<1>3. CASE /\ \E x : at' = [at EXCEPT ![r] = x]
           /\ UNCHANGED <<attempt, budget, level, using, tried>>
  BY <1>0, <1>3
<1>4. \/ \E n, b, c, seen, cur, usable : TryNext(r, n, b, c, seen, cur, usable)
      \/ \E outcome : Finish(r, outcome)
      \/ /\ \E x : at' = [at EXCEPT ![r] = x]
         /\ UNCHANGED <<attempt, budget, level, using, tried>>
  <2>1. CASE Begin(r) \/ Answer(r) \/ MessagesContinue(r) \/ MessagesContextWindow(r)
    BY <2>1, Zenon DEF Begin, Answer, MessagesContinue, MessagesContextWindow
  <2>2. CASE MessagesRetryable(r) \/ MessagesException(r) \/ NativeFails(r) \/ ImageException(r)
    BY <2>2, Zenon DEF MessagesRetryable, MessagesException, NativeFails, ImageException
  <2>3. CASE ChatRetryable(r) \/ ImageRetryable(r)
    BY <2>3, Zenon DEF ChatRetryable, ImageRetryable
  <2> QED BY <2>1, <2>2, <2>3 DEF Request
<1> QED BY <1>1, <1>2, <1>3, <1>4

(***************************************************************************)
(* Exclusions are saved                                                    *)
(***************************************************************************)
\* Without an operator the table holds the pool, whatever restarts load; a
\* request holds a key of the table, and only marks and quarantines of keys of
\* the table are pending, so that none of them can miss its row.
SavedInv ==
    /\ removing = "idle"
    /\ ToSet(keys) = ToSet(rows)
    /\ \A r \in Reqs : at[r] = "upstream" => using[r] \in ToSet(rows)
    /\ \A w \in BagToSet(writes) : w.op \in {"mark", "Invalid"} /\ w.key \in ToSet(rows)
    /\ ExclusionsAreSaved

LEMMA InitSaved == Init => SavedInv
<1> SUFFICES ASSUME Init PROVE SavedInv
  OBVIOUS
<1>1. /\ keys = rows /\ removing = "idle" /\ writes = EmptyBag /\ rowStatus = status
      /\ failed = {} /\ at = [r \in Reqs |-> "idle"]
  BY Zenon DEF Init
<1> QED BY <1>1 DEF SavedInv, ExclusionsAreSaved, EmptyBag, SetToBag, BagToSet

LEMMA RequestKeepsSaved ==
    ASSUME Typed, SavedInv, NEW r \in Reqs, Request(r)
    PROVE  SavedInv'
<1>1. /\ keys' = keys /\ removing' = removing /\ dropped' = dropped
      /\ rows' = rows /\ rowStatus' = rowStatus /\ rowFailed' = rowFailed
      /\ \/ failed' = failed /\ status' = status /\ writes' = writes
         \/ /\ at[r] = "upstream"
            /\ \E verdict \in Verdict : Learnt(verdict, using[r], ModelOf[r])
  BY RequestEffect DEF gate, tables, LearnNothing
<1>2. \A q \in Reqs : at'[q] = "upstream" => using'[q] \in ToSet(rows')
  BY <1>1, RequestHolds, OthersHold DEF SavedInv
<1>3. CASE failed' = failed /\ status' = status /\ writes' = writes
  BY <1>1, <1>2, <1>3 DEF SavedInv, ExclusionsAreSaved
<1>4. ASSUME at[r] = "upstream", NEW verdict \in Verdict,
             Learnt(verdict, using[r], ModelOf[r])
      PROVE  SavedInv'
  <2> DEFINE k == using[r]
             m == ModelOf[r]
             W == Saved(verdict, k, m)
  <2>1. /\ status' = IF Quarantines(verdict, k) THEN [status EXCEPT ![k] = "Invalid"] ELSE status
        /\ failed' = IF "quota" \in verdict THEN failed \cup {<<k, m>>} ELSE failed
        /\ writes' = writes (+) SetToBag(W)
    BY <1>4, Zenon DEF Learnt, Save
  <2>2. k \in ToSet(rows) /\ status \in [Keys -> Status] /\ ToSet(keys) \subseteq Keys
    BY <1>4, ListFacts DEF SavedInv, Typed, StatusTyped, PoolTyped
  <2>3. BagToSet(writes') = BagToSet(writes) \cup W
    <3> HIDE DEF W
    <3> QED BY <2>1, BagAddSet DEF Typed, WritesTyped
  <2>4. /\ "quota" \in verdict => Mark(k, m) \in W
        /\ Quarantines(verdict, k) => Row("Invalid", k) \in W
        /\ \A w \in W : w.op \in {"mark", "Invalid"} /\ w.key = k
    BY DEF Saved, Mark, Row
  <2> HIDE DEF W
  <2>5. \A f \in failed' : f \in rowFailed' \/ Mark(f[1], f[2]) \in BagToSet(writes') \cup dropped'
    <3> TAKE f \in failed'
    <3>1. CASE f \in failed
      BY <1>1, <2>3, <3>1 DEF SavedInv, ExclusionsAreSaved
    <3>2. CASE f = <<k, m>> /\ "quota" \in verdict
      BY <2>3, <2>4, <3>2
    <3> QED BY <2>1, <3>1, <3>2
  <2>6. \A l \in ToSet(keys') : status'[l] = "Invalid" =>
           rowStatus'[l] = "Invalid" \/ Row("Invalid", l) \in BagToSet(writes') \cup dropped'
    <3> SUFFICES ASSUME NEW l \in ToSet(keys), status'[l] = "Invalid"
                 PROVE  rowStatus[l] = "Invalid" \/ Row("Invalid", l) \in BagToSet(writes') \cup dropped'
      BY <1>1
    <3>1. CASE status[l] = "Invalid"
      BY <1>1, <2>3, <3>1 DEF SavedInv, ExclusionsAreSaved
    <3>2. CASE l = k /\ Quarantines(verdict, k)
      BY <2>3, <2>4, <3>2
    <3> QED BY <2>1, <2>2, <3>1, <3>2
  <2>7. \A w \in BagToSet(writes') : w.op \in {"mark", "Invalid"} /\ w.key \in ToSet(rows')
    BY <1>1, <2>2, <2>3, <2>4 DEF SavedInv
  <2> QED BY <1>1, <1>2, <2>5, <2>6, <2>7 DEF SavedInv, ExclusionsAreSaved
<1> QED BY <1>1, <1>3, <1>4

LEMMA PerformKeepsSaved ==
    ASSUME Typed, SavedInv, PerformWrite
    PROVE  SavedInv'
<1>1. PICK w \in BagToSet(writes) : Execute(w) /\ writes' = writes (-) SetToBag({w})
  BY DEF PerformWrite
<1>2. /\ w \in Write /\ w.op \in {"mark", "Invalid"} /\ w.key \in ToSet(rows) /\ w.key \in Keys
      /\ rowStatus \in [Keys -> Status]
  <2>1. ToSet(rows) \subseteq Keys
    BY ListFacts DEF Typed, RowsTyped
  <2> QED BY <2>1 DEF SavedInv, Typed, WritesTyped, StatusTyped
<1>3. BagToSet(writes') \subseteq BagToSet(writes) /\ BagToSet(writes) \ {w} \subseteq BagToSet(writes')
  BY <1>1, BagRemove DEF Typed, WritesTyped, BagToSet
<1>4. /\ keys' = keys /\ status' = status /\ failed' = failed /\ removing' = removing
      /\ at' = at /\ using' = using /\ dropped' = dropped
  BY DEF PerformWrite, memory, gate, reqVars
<1>5. /\ rows' = rows /\ rowFailed \subseteq rowFailed'
      /\ \A k \in Keys : rowStatus[k] = "Invalid" => rowStatus'[k] = "Invalid"
      /\ w.op = "mark" => <<w.key, w.model>> \in rowFailed'
      /\ w.op = "Invalid" => rowStatus'[w.key] = "Invalid"
  BY <1>1, <1>2, ExecuteCases
<1>6. \A f \in failed' : f \in rowFailed' \/ Mark(f[1], f[2]) \in BagToSet(writes') \cup dropped'
  <2> SUFFICES ASSUME NEW f \in failed PROVE f \in rowFailed' \/ Mark(f[1], f[2]) \in BagToSet(writes') \cup dropped'
    BY <1>4
  <2>1. f = <<f[1], f[2]>>
    BY DEF Typed, MarksTyped
  <2>2. CASE f \in rowFailed
    BY <1>5, <2>2
  <2>3. CASE Mark(f[1], f[2]) = w
    BY <1>5, <2>1, <2>3 DEF Mark
  <2>4. CASE Mark(f[1], f[2]) \in (BagToSet(writes) \ {w}) \cup dropped
    BY <1>3, <1>4, <2>4
  <2> QED BY <2>2, <2>3, <2>4 DEF SavedInv, ExclusionsAreSaved
<1>7. \A l \in ToSet(keys') : status'[l] = "Invalid" =>
         rowStatus'[l] = "Invalid" \/ Row("Invalid", l) \in BagToSet(writes') \cup dropped'
  <2> SUFFICES ASSUME NEW l \in ToSet(keys), status[l] = "Invalid"
               PROVE  rowStatus'[l] = "Invalid" \/ Row("Invalid", l) \in BagToSet(writes') \cup dropped'
    BY <1>4
  <2>1. l \in Keys
    BY ListFacts DEF Typed, PoolTyped
  <2>2. CASE rowStatus[l] = "Invalid"
    BY <1>5, <2>1, <2>2
  <2>3. CASE Row("Invalid", l) = w
    BY <1>5, <2>3 DEF Row
  <2>4. CASE Row("Invalid", l) \in (BagToSet(writes) \ {w}) \cup dropped
    BY <1>3, <1>4, <2>4
  <2> QED BY <2>2, <2>3, <2>4 DEF SavedInv, ExclusionsAreSaved
<1> QED BY <1>3, <1>4, <1>5, <1>6, <1>7 DEF SavedInv, ExclusionsAreSaved

\* A write that fails leaves the bag for the set of the dropped ones.
LEMMA DropKeepsSaved ==
    ASSUME Typed, SavedInv, WriteFails
    PROVE  SavedInv'
<1>1. PICK w \in BagToSet(writes) :
         dropped' = dropped \cup {w} /\ writes' = writes (-) SetToBag({w})
  BY DEF WriteFails
<1>2. BagToSet(writes') \subseteq BagToSet(writes) /\ BagToSet(writes) \ {w} \subseteq BagToSet(writes')
  BY <1>1, BagRemove DEF Typed, WritesTyped, BagToSet
<1>3. BagToSet(writes) \cup dropped \subseteq BagToSet(writes') \cup dropped'
  BY <1>1, <1>2
<1>4. /\ keys' = keys /\ status' = status /\ failed' = failed /\ removing' = removing
      /\ at' = at /\ using' = using /\ rows' = rows /\ rowStatus' = rowStatus
      /\ rowFailed' = rowFailed
  BY DEF WriteFails, memory, gate, tables, reqVars
<1>5. ExclusionsAreSaved'
  BY <1>3, <1>4 DEF SavedInv, ExclusionsAreSaved
<1> QED BY <1>2, <1>4, <1>5 DEF SavedInv

LEMMA RestartKeepsSaved ==
    ASSUME Typed, SavedInv, Restart
    PROVE  SavedInv'
<1>1. keys' = rows' /\ rowStatus' = status'
  BY RestartFacts
<1>2. /\ failed' = rowFailed /\ rowFailed' = rowFailed /\ removing' = "idle" /\ writes' = EmptyBag
      /\ at' = [r \in Reqs |-> IF at[r] \in {"upstream", "between"} THEN "lost" ELSE at[r]]
  BY DEF Restart
<1>3. \A r \in Reqs : at'[r] # "upstream"
  BY <1>2
<1>4. BagToSet(writes') = {}
  BY <1>2 DEF EmptyBag, SetToBag, BagToSet
<1> QED BY <1>1, <1>2, <1>3, <1>4 DEF SavedInv, ExclusionsAreSaved

LEMMA SavedKept ==
    ASSUME AdminOps = {}, Typed, SavedInv, [Next]_vars
    PROVE  SavedInv'
<1>1. ~Operator
  BY DEF Operator, SavedInv, AddApiKey, ResetKeyStatus, RemoveApiKey, SetActiveKey, Operate,
         RemoveProvider, DeleteKeyRows, DisableProvider, RemovalFails
<1>2. CASE UNCHANGED vars
  BY <1>2 DEF vars, memory, gate, tables, reqVars, SavedInv, ExclusionsAreSaved
<1> QED BY <1>1, <1>2, RequestKeepsSaved, PerformKeepsSaved, DropKeepsSaved,
       RestartKeepsSaved DEF Next

\* What the process excludes it has saved or is about to, or _bg has dropped that
\* very write: no other exclusion is lost between memory and the tables, however
\* the writes are ordered and however often the process restarts.  The
\* operator's own writes can overtake these.
THEOREM ExclusionsSaved ==
    ASSUME AdminOps = {}
    PROVE  Spec => []ExclusionsAreSaved
<1>1. Typed /\ SavedInv /\ [Next]_vars => SavedInv'
  BY SavedKept
<1>2. SavedInv => ExclusionsAreSaved
  BY DEF SavedInv
<1> QED BY <1>1, <1>2, InitSaved, TypedInvariant, PTL DEF Spec

(***************************************************************************)
(* A chat or image request walks round the ring                            *)
(***************************************************************************)
Walkers == ChatReqs \cup ImageReqs

Excluded(k, m) == status[k] = "Invalid" \/ <<k, m>> \in failed

\* The key o positions after position s.
Nth(s, o) == keys[((s + o) % Len(keys)) + 1]

\* The request stands o positions after the one it started at, at least as many
\* as it made attempts, and has tried or seen excluded every key up to there.
Walked(r, s, o) ==
    /\ attempt[r] <= o
    /\ using[r] = Nth(s, o)
    /\ \A j \in Nat : j <= o => Nth(s, j) \in tried[r] \/ Excluded(Nth(s, j), ModelOf[r])

Walking(r) ==
    /\ at[r] # "between"
    /\ at[r] = "upstream" =>
          keys # <<>> /\ budget[r] = Len(keys) /\ \E s, o \in Nat : Walked(r, s, o)

WalkInv == ops = 0 => removing = "idle" /\ \A r \in Walkers : Walking(r)

\* Once round the ring is every key.
LEMMA RoundTheRing ==
    ASSUME keys \in Seq(Keys), NEW k \in ToSet(keys), NEW s \in Nat
    PROVE  \E j \in 0..Len(keys) - 1 : Nth(s, j) = k
<1> DEFINE n == Len(keys)
<1>1. n \in Nat
  BY ListFacts
<1>2. PICK p \in 1..n : keys[p] = k
  BY ListFacts
<1>3. \E j \in 0..n - 1 : (s + j) % n = p - 1
  <2>1. n > 0 /\ p - 1 \in 0..n - 1
    BY <1>1, <1>2
  <2> HIDE DEF n
  <2> QED BY <1>1, <2>1, RingReach
<1>4. PICK j \in 0..n - 1 : (s + j) % n = p - 1
  BY <1>3
<1>5. (p - 1) + 1 = p
  BY <1>1, <1>2
<1>6. Nth(s, j) = k
  BY <1>2, <1>4, <1>5, Zenon DEF Nth
<1> QED BY <1>4, <1>6

LEMMA NthPooled ==
    ASSUME keys \in Seq(Keys), Len(keys) > 0, NEW s \in Nat, NEW j \in Nat
    PROVE  Nth(s, j) \in ToSet(keys)
<1>1. (s + j) % Len(keys) \in 0..Len(keys) - 1
  <2>1. s + j \in Nat /\ Len(keys) \in Nat
    BY ListFacts
  <2> QED BY <2>1, RingStep
<1>2. \A c \in 0..Len(keys) - 1 : keys[c + 1] \in ToSet(keys)
  BY ListFacts
<1> QED BY <1>1, <1>2, Zenon DEF Nth

\* A request that walked as many positions as there are keys has met them all.
LEMMA AllMet ==
    ASSUME keys \in Seq(Keys), NEW r \in Reqs, attempt[r] \in Nat, NEW s \in Nat, NEW o \in Nat,
           Walked(r, s, o), attempt[r] + 1 >= Len(keys), NEW k \in ToSet(keys)
    PROVE  k \in tried[r] \/ Excluded(k, ModelOf[r])
<1>1. PICK j \in 0..Len(keys) - 1 : Nth(s, j) = k
  BY RoundTheRing
<1>2. j \in Nat /\ j <= o
  BY <1>1, ListFacts DEF Walked
<1> QED BY <1>1, <1>2 DEF Walked

\* Rotation from the key a request holds, and the attempt that follows it, take
\* the next usable key of the ring.
LEMMA RotationWalks ==
    ASSUME Typed, NEW m \in Models, NEW s \in Nat, NEW o \in Nat, Len(keys) > 0,
           NEW usable \in SUBSET ToSet(keys), usable # {}
    PROVE  LET cur == Rotated(m, Nth(s, o), usable)
               i   == Scan(cur[m] % Len(keys), 0, usable)
           IN  \E d \in Nat :
                  /\ d >= 1
                  /\ keys[i + 1] = Nth(s, o + d)
                  /\ \A e \in Nat : 1 <= e /\ e < d => Nth(s, o + e) \notin usable
<1> DEFINE n == Len(keys)
           k == Nth(s, o)
           from == (s + o) % n
           cur == Rotated(m, k, usable)
           next == Scan(from, 1, usable)
           i == Scan(cur[m] % n, 0, usable)
<1>1. /\ keys \in Seq(Keys) /\ n \in Nat /\ n > 0 /\ cursor \in [Models -> Nat]
      /\ \A a, b \in 1..n : keys[a] = keys[b] => a = b
  BY ListFacts DEF Typed, PoolTyped, IsInjective, CursorTyped
<1>2. from \in 0..n - 1 /\ from \in Nat
  <2>1. s + o \in Nat
    OBVIOUS
  <2> HIDE DEF n
  <2> QED BY <1>1, <2>1, RingStep
<1>3. k = keys[from + 1] /\ from + 1 \in 1..n /\ k \in ToSet(keys)
  <2>1. k = keys[from + 1]
    BY DEF Nth
  <2>2. from + 1 \in 1..n
    <3> HIDE DEF n, from
    <3> QED BY <1>1, <1>2
  <2>3. keys[from + 1] \in ToSet(keys)
    <3> HIDE DEF from
    <3> QED BY <1>1, <2>2, ListFacts
  <2> HIDE DEF k, from
  <2> QED BY <2>1, <2>2, <2>3
<1>4. (CHOOSE a \in 1..n : keys[a] = k) - 1 = from
  <2> DEFINE c == CHOOSE a \in 1..n : keys[a] = k
  <2>1. c \in 1..n /\ keys[c] = k
    BY <1>3, Zenon
  <2>2. c = from + 1
    <3> HIDE DEF n, from, k, c
    <3> QED BY <1>1, <1>3, <2>1, Zenon
  <2>3. (from + 1) - 1 = from
    <3> HIDE DEF from
    <3> QED BY <1>2
  <2> QED BY <2>2, <2>3, Zenon
<1>5. cur = [cursor EXCEPT ![m] = next]
  <2> HIDE DEF k, from
  <2> DEFINE start == IF k \in ToSet(keys) THEN (CHOOSE a \in 1..n : keys[a] = k) - 1
                      ELSE CursorIndex(m)
  <2>1. start = from
    BY <1>3, <1>4, Zenon
  <2>2. cur = [cursor EXCEPT ![m] = Scan(start, 1, usable)]
    BY Zenon DEF Rotated
  <2> HIDE DEF start
  <2> QED BY <2>1, <2>2, Zenon
<1>6. PICK d \in Nat :
         /\ d >= 1 /\ next = (from + d) % n /\ next \in 0..n - 1 /\ keys[next + 1] \in usable
         /\ \A e \in Nat : 1 <= e /\ e < d => keys[((from + e) % n) + 1] \notin usable
  <2> HIDE DEF from
  <2> QED BY <1>1, <1>2, ScanFacts
<1> HIDE DEF next
<1>7. \A e \in Nat : Nth(s, o + e) = keys[((from + e) % n) + 1]
  <2> TAKE e \in Nat
  <2>1. (s + (o + e)) % n = (from + e) % n
    <3>1. s + (o + e) = (s + o) + e /\ s + o \in Nat
      OBVIOUS
    <3>2. \A x, t \in Nat : (x + t) % n = ((x % n) + t) % n
      <4> HIDE DEF n
      <4> QED BY <1>1, RingStep
    <3> QED BY <3>1, <3>2, Zenon
  <2> QED BY <2>1, Zenon DEF Nth
<1>8. cur[m] = next
  BY <1>1, <1>5
<1> HIDE DEF cur
<1>9. cur[m] % n = next
  <2>1. \A c \in 0..n - 1 : c % n = c
    BY <1>1
  <2> QED BY <1>6, <1>8, <2>1, Zenon
<1>10. i = next
  <2>1. next \in Nat
    BY <1>1, <1>6
  <2>2. PICK t \in Nat :
           /\ Scan(next, 0, usable) = (next + t) % n
           /\ \A e \in Nat : 0 <= e /\ e < t => keys[((next + e) % n) + 1] \notin usable
    BY <1>1, <2>1, ScanFacts
  <2>3. (next + 0) % n = next /\ 0 \in Nat
    BY <1>1, <1>6
  <2>4. t = 0
    <3>1. ~(0 <= 0 /\ 0 < t)
      BY <1>6, <2>2, <2>3, Zenon
    <3> QED BY <3>1
  <2> QED BY <1>9, <2>2, <2>3, <2>4, Zenon
<1> HIDE DEF i
<1>11. keys[i + 1] = Nth(s, o + d)
  BY <1>6, <1>7, <1>10, Zenon
<1>12. \A e \in Nat : 1 <= e /\ e < d => Nth(s, o + e) \notin usable
  BY <1>6, <1>7, Zenon
<1> QED BY <1>6, <1>11, <1>12, Zenon DEF i, cur, k

\* Requests only add exclusions.
LEMMA ExclusionsGrow ==
    ASSUME Typed, NEW r \in Reqs, Request(r), NEW k \in Keys, NEW m \in Models, Excluded(k, m)
    PROVE  Excluded(k, m)'
<1>1. \/ status' = status /\ failed' = failed
      \/ \E verdict \in Verdict : Learnt(verdict, using[r], ModelOf[r])
  BY RequestEffect DEF LearnNothing
<1>2. status \in [Keys -> Status]
  BY DEF Typed, StatusTyped
<1> QED BY <1>1, <1>2 DEF Learnt, Excluded

\* What is not usable is excluded.
LEMMA UnusableExcluded ==
    ASSUME keys' = keys, NEW m \in Models, NEW k \in ToSet(keys),
           k \notin Usable(m, status', failed')
    PROVE  Excluded(k, m)'
BY DEF Usable, Excluded

LEMMA BeginWalks ==
    ASSUME Typed, NEW r \in Reqs, Begin(r), keys' = keys
    PROVE  Walking(r)'
<1> DEFINE m == ModelOf[r]
           usable == Usable(m, status, failed)
           i == Scan(cursor[m] % Len(keys), 0, usable)
<1>1. /\ keys \in Seq(Keys) /\ Len(keys) \in Nat /\ m \in Models /\ cursor \in [Models -> Nat]
      /\ at \in [Reqs -> Where] /\ 0 \in Nat
  BY QwenAssumption, ListFacts DEF Typed, PoolTyped, CursorTyped, RequestsTyped
<1>2. CASE Finish(r, "refused")
  BY <1>1, <1>2 DEF Finish, Walking
<1>3. CASE TryNext(r, 0, Len(keys), 0, {}, cursor, usable)
  <2>1. usable \in SUBSET ToSet(keys)
    BY UsableFacts
  <2> HIDE DEF usable
  <2>2. /\ at'[r] \in {"upstream", "failed", "exhausted"}
        /\ at'[r] = "upstream" =>
              /\ usable # {} /\ attempt'[r] = 0 /\ budget'[r] = Len(keys)
              /\ using'[r] = keys[i + 1] /\ tried'[r] = {} \cup {using'[r]}
    <3>1. Pick(cursor, m, usable) = keys[i + 1]
      BY Zenon DEF Pick
    <3> HIDE DEF i
    <3> QED BY <1>1, <1>3, <2>1, <3>1, TryNextHolds
  <2>3. ASSUME at'[r] = "upstream" PROVE keys # <<>> /\ \E s, o \in Nat : Walked(r, s, o)'
    <3>1. Len(keys) > 0 /\ keys # <<>>
      BY <1>1, <2>1, <2>2, <2>3, ListFacts
    <3>2. cursor[m] % Len(keys) \in Nat
      <4>1. cursor[m] \in Nat
        BY <1>1
      <4>2. \A n \in Nat, c \in Nat : n > 0 => c % n \in Nat
        OBVIOUS
      <4> QED BY <1>1, <3>1, <4>1, <4>2, Zenon
    <3>3. i \in 0..Len(keys) - 1
      BY <1>1, <2>1, <2>2, <2>3, <3>2, ScanTyped
    <3>4. i \in Nat /\ (i + 0) % Len(keys) = i
      <4>1. \A c \in 0..Len(keys) - 1 : c \in Nat /\ (c + 0) % Len(keys) = c
        <5> DEFINE n == Len(keys)
        <5> HIDE DEF n
        <5>1. n \in Nat /\ n > 0 => \A c \in 0..n - 1 : c \in Nat /\ (c + 0) % n = c
          OBVIOUS
        <5> QED BY <1>1, <3>1, <5>1, Zenon DEF n
      <4> HIDE DEF i
      <4> QED BY <3>3, <4>1, Zenon
    <3> HIDE DEF i
    <3>5. PICK s \in Nat : s = i
      BY <3>4, Zenon
    <3>6. Nth(s, 0)' = using'[r]
      BY <2>2, <2>3, <3>4, <3>5, Zenon DEF Nth
    <3>7. \A j \in Nat : j <= 0 => j = 0
      OBVIOUS
    <3>8. \A j \in Nat : j <= 0 => Nth(s, j)' \in tried'[r]
      <4>1. using'[r] \in tried'[r]
        BY <2>2, <2>3
      <4> QED BY <3>6, <3>7, <4>1, Zenon
    <3>9. attempt'[r] <= 0
      BY <2>2, <2>3
    <3>10. Walked(r, s, 0)'
      BY <3>6, <3>8, <3>9, Zenon DEF Walked
    <3> QED BY <1>1, <3>1, <3>10, Zenon
  <2> QED BY <2>2, <2>3 DEF Walking
<1> QED BY <1>2, <1>3 DEF Begin

LEMMA NextWalks ==
    ASSUME Typed, NEW r \in Reqs, Request(r), keys' = keys, at[r] = "upstream", Walking(r),
           LET usable == Usable(ModelOf[r], status', failed')
           IN  TryNext(r, attempt[r] + 1, budget[r], 0, tried[r],
                       Rotated(ModelOf[r], using[r], usable), usable)
    PROVE  /\ Walking(r)'
           /\ at'[r] \in {"failed", "exhausted"} =>
                 \A k \in ToSet(keys) : k \in tried[r] \/ Excluded(k, ModelOf[r])'
<1> DEFINE m == ModelOf[r]
           usable == Usable(m, status', failed')
           cur == Rotated(m, using[r], usable)
           i == Scan(cur[m] % Len(keys), 0, usable)
<1>1. /\ keys \in Seq(Keys) /\ Len(keys) \in Nat /\ m \in Models /\ CursorTyped
      /\ attempt[r] \in Nat /\ attempt[r] + 1 \in Nat /\ budget[r] \in Nat
      /\ ToSet(keys) \subseteq Keys
  BY QwenAssumption, ListFacts DEF Typed, PoolTyped, CursorTyped, RequestsTyped
<1>2. PICK s, o \in Nat : Walked(r, s, o) /\ budget[r] = Len(keys)
  BY DEF Walking
<1>3. usable \in SUBSET ToSet(keys)
  BY UsableFacts
<1>4. \A k \in ToSet(keys) : k \notin usable => Excluded(k, m)'
  BY <1>1, UnusableExcluded
<1>5. \A k \in ToSet(keys) : Excluded(k, m) => Excluded(k, m)'
  BY <1>1, ExclusionsGrow
<1>6. TryNext(r, attempt[r] + 1, budget[r], 0, tried[r], cur, usable)
  BY Zenon
<1> HIDE DEF usable
<1>7. cur \in [Models -> Nat]
  BY <1>1, <1>3, RotatedTyped
<1> HIDE DEF cur
<1>8. /\ at'[r] \in {"upstream", "failed", "exhausted"}
      /\ at'[r] = "failed" => attempt[r] + 1 >= budget[r]
      /\ at'[r] = "exhausted" => usable = {}
      /\ at'[r] = "upstream" =>
            /\ usable # {} /\ attempt'[r] = attempt[r] + 1 /\ budget'[r] = budget[r]
            /\ using'[r] = keys[i + 1] /\ tried'[r] = tried[r] \cup {using'[r]}
  <2> DEFINE Taken(n, b, seen) ==
        /\ at'[r] \in {"upstream", "failed", "exhausted"}
        /\ at'[r] = "failed" => n >= b
        /\ at'[r] = "exhausted" => usable = {}
        /\ at'[r] = "upstream" =>
              /\ usable # {} /\ attempt'[r] = n /\ budget'[r] = b
              /\ using'[r] = Pick(cur, m, usable) /\ tried'[r] = seen \cup {using'[r]}
  <2>1. ASSUME NEW n \in Nat, NEW b \in Nat, NEW c, NEW seen,
               TryNext(r, n, b, c, seen, cur, usable)
        PROVE  Taken(n, b, seen)
    <3> HIDE DEF i
    <3> QED BY <1>1, <1>3, <1>7, <2>1, TryNextHolds, Zenon
  <2>2. Taken(attempt[r] + 1, budget[r], tried[r])
    <3> HIDE DEF i, Taken
    <3> QED BY <1>1, <1>6, <2>1, Zenon
  <2>3. Pick(cur, m, usable) = keys[i + 1]
    BY Zenon DEF Pick
  <2> HIDE DEF i
  <2> QED BY <2>2, <2>3, Zenon
<1>9. ASSUME at'[r] = "upstream" PROVE \E z, y \in Nat : Walked(r, z, y)'
  <2>1. Len(keys) > 0 /\ using[r] = Nth(s, o)
    BY <1>1, <1>2, <1>3, <1>8, <1>9, ListFacts DEF Walked
  <2>2. PICK d \in Nat :
           /\ d >= 1 /\ keys[i + 1] = Nth(s, o + d)
           /\ \A e \in Nat : 1 <= e /\ e < d => Nth(s, o + e) \notin usable
    <3>1. \E d \in Nat :
             /\ d >= 1
             /\ keys[Scan(Rotated(m, Nth(s, o), usable)[m] % Len(keys), 0, usable) + 1] = Nth(s, o + d)
             /\ \A e \in Nat : 1 <= e /\ e < d => Nth(s, o + e) \notin usable
      BY <1>1, <1>2, <1>3, <1>8, <1>9, <2>1, RotationWalks
    <3>2. cur = Rotated(m, Nth(s, o), usable)
      BY <2>1, Zenon DEF cur
    <3> QED BY <3>1, <3>2, Zenon
  <2> HIDE DEF i
  <2>3. o + d \in Nat /\ attempt[r] + 1 <= o + d
    BY <1>1, <1>2, <2>2 DEF Walked
  <2>4. \A j \in Nat : Nth(s, j)' = Nth(s, j)
    BY Zenon DEF Nth
  <2>5. \A j \in Nat : Nth(s, j) \in ToSet(keys)
    BY <1>1, <2>1, NthPooled
  <2>6. ASSUME NEW j \in Nat, j <= o + d
        PROVE  (Nth(s, j) \in tried[r] \/ Excluded(Nth(s, j), m))'
    <3>1. PICK k \in ToSet(keys) : k = Nth(s, j)
      BY <2>5
    <3>2. CASE j <= o
      <4>1. k \in tried[r] \/ Excluded(k, m)
        BY <1>2, <3>1, <3>2 DEF Walked
      <4>2. k \in tried'[r] \/ Excluded(k, m)'
        BY <1>5, <1>8, <1>9, <4>1
      <4> QED BY <2>4, <3>1, <4>2, Zenon
    <3>3. CASE o < j /\ j < o + d
      <4>1. PICK e \in Nat : j = o + e /\ 1 <= e /\ e < d
        <5>1. j - o \in Nat /\ j = o + (j - o) /\ 1 <= j - o /\ j - o < d
          BY <2>2, <3>3
        <5> QED BY <5>1, Zenon
      <4>2. k \notin usable
        BY <2>2, <3>1, <4>1, Zenon
      <4>3. Excluded(k, m)'
        BY <1>4, <4>2, Zenon
      <4> QED BY <2>4, <3>1, <4>3, Zenon
    <3>4. CASE j = o + d
      <4>1. using'[r] = k
        BY <1>8, <1>9, <2>2, <3>1, <3>4, Zenon
      <4>2. k \in tried'[r]
        BY <1>8, <1>9, <4>1
      <4> QED BY <2>4, <3>1, <4>2, Zenon
    <3> QED BY <2>2, <2>6, <3>2, <3>3, <3>4
  <2>7. using'[r] = Nth(s, o + d)' /\ attempt'[r] <= o + d
    <3>1. using'[r] = Nth(s, o + d)'
      BY <1>8, <1>9, <2>2, <2>3, <2>4, Zenon
    <3>2. attempt'[r] <= o + d
      BY <1>8, <1>9, <2>3, Zenon
    <3> QED BY <3>1, <3>2
  <2>8. Walked(r, s, o + d)'
    BY <2>4, <2>6, <2>7, Zenon DEF Walked
  <2> QED BY <2>3, <2>8
<1>10. ASSUME at'[r] = "failed", NEW k \in ToSet(keys) PROVE k \in tried[r] \/ Excluded(k, m)'
  <2>1. attempt[r] + 1 >= Len(keys)
    BY <1>2, <1>8, <1>10
  <2> QED BY <1>1, <1>2, <1>5, <2>1, AllMet
<1>11. ASSUME at'[r] = "exhausted", NEW k \in ToSet(keys) PROVE Excluded(k, m)'
  BY <1>4, <1>8, <1>11
<1>12. Walking(r)'
  <2>1. at'[r] # "between"
    BY <1>8
  <2>2. at'[r] = "upstream" => budget'[r] = Len(keys')
    BY <1>2, <1>8
  <2> QED BY <1>9, <2>1, <2>2 DEF Walking
<1> QED BY <1>10, <1>11, <1>12

\* A request that gives up has been through the pool.
ThroughPool(r) ==
    at'[r] \in {"failed", "exhausted"} =>
        \A k \in ToSet(keys) : k \in tried[r] \/ Excluded(k, ModelOf[r])'

LEMMA BeginThroughPool ==
    ASSUME Typed, NEW r \in Reqs, Begin(r), keys' = keys
    PROVE  ThroughPool(r)
<1> DEFINE m == ModelOf[r]
           usable == Usable(m, status, failed)
<1>1. /\ keys \in Seq(Keys) /\ Len(keys) \in Nat /\ m \in Models /\ cursor \in [Models -> Nat]
      /\ at \in [Reqs -> Where] /\ 0 \in Nat /\ status' = status /\ failed' = failed
  BY QwenAssumption, ListFacts
  DEF Typed, PoolTyped, CursorTyped, RequestsTyped, Begin, LearnNothing
<1>2. CASE Finish(r, "refused")
  BY <1>1, <1>2 DEF Finish, ThroughPool
<1>3. CASE keys # <<>> /\ TryNext(r, 0, Len(keys), 0, {}, cursor, usable)
  <2>1. usable \in SUBSET ToSet(keys)
    BY UsableFacts
  <2>2. \A k \in ToSet(keys) : k \notin usable => Excluded(k, m)'
    BY <1>1, UnusableExcluded
  <2> HIDE DEF usable
  <2>3. /\ at'[r] = "failed" => 0 >= Len(keys)
        /\ at'[r] = "exhausted" => usable = {}
    BY <1>1, <1>3, <2>1, TryNextHolds
  <2>4. at'[r] # "failed"
    BY <1>1, <1>3, <2>3, ListFacts
  <2> QED BY <2>2, <2>3, <2>4 DEF ThroughPool
<1> QED BY <1>2, <1>3 DEF Begin

\* Every step of a walking request keeps it walking, and it gives up only
\* after it has been through the pool.
LEMMA WalkerSteps ==
    ASSUME Typed, NEW r \in Walkers, Walking(r), Request(r)
    PROVE  Walking(r)' /\ ThroughPool(r)
<1> DEFINE m == ModelOf[r]
           usable == Usable(m, status', failed')
           Next1 == TryNext(r, attempt[r] + 1, budget[r], 0, tried[r],
                            Rotated(m, using[r], usable), usable)
<1>1. /\ r \in Reqs /\ r \notin MessageReqs /\ r \notin NativeReqs /\ m \in Models
      /\ at \in [Reqs -> Where] /\ keys' = keys /\ keys \in Seq(Keys) /\ Len(keys) \in Nat
      /\ attempt[r] \in Nat /\ ToSet(keys) \subseteq Keys
  BY QwenAssumption, RequestEffect, ListFacts
  DEF Typed, PoolTyped, RequestsTyped, Walkers, MessageReqs
<1>2. CASE Begin(r)
  BY <1>1, <1>2, BeginWalks, BeginThroughPool
<1>3. CASE \E outcome \in {"served", "rejected", "raised"} : Finish(r, outcome)
  BY <1>1, <1>3 DEF Finish, Walking, ThroughPool
<1>4. CASE at[r] = "upstream" /\ Next1
  <2>1. /\ Walking(r)'
        /\ at'[r] \in {"failed", "exhausted"} =>
              \A k \in ToSet(keys) : k \in tried[r] \/ Excluded(k, m)'
    BY <1>1, <1>4, NextWalks
  <2> QED BY <2>1 DEF ThroughPool
<1>5. CASE at[r] = "upstream" /\ attempt[r] + 1 >= Len(keys) /\ Finish(r, "failed")
  <2>1. PICK s, o \in Nat : Walked(r, s, o)
    BY <1>5 DEF Walking
  <2>2. \A k \in ToSet(keys) : k \in tried[r] \/ Excluded(k, m)
    BY <1>1, <1>5, <2>1, AllMet
  <2>3. \A k \in ToSet(keys) : k \in tried[r] \/ Excluded(k, m)'
    BY <1>1, <2>2, ExclusionsGrow
  <2>4. Walking(r)'
    BY <1>1, <1>5 DEF Finish, Walking
  <2> QED BY <2>3, <2>4 DEF ThroughPool
<1>6. CASE usable = {} /\ Finish(r, "failed")
  <2>1. \A k \in ToSet(keys) : Excluded(k, m)'
    BY <1>1, <1>6, UnusableExcluded
  <2>2. Walking(r)'
    BY <1>1, <1>6 DEF Finish, Walking
  <2> QED BY <2>1, <2>2 DEF ThroughPool
<1>7. CASE ChatRetryable(r)
  <2>1. \/ attempt[r] + 1 < Len(keys) /\ Next1
        \/ ~(attempt[r] + 1 < Len(keys)) /\ Finish(r, "failed")
    BY <1>7, Zenon DEF ChatRetryable
  <2>2. at[r] = "upstream"
    BY <1>7 DEF ChatRetryable
  <2>3. ~(attempt[r] + 1 < Len(keys)) => attempt[r] + 1 >= Len(keys)
    BY <1>1
  <2> QED BY <1>4, <1>5, <2>1, <2>2, <2>3, Zenon
<1>8. CASE ImageRetryable(r)
  BY <1>4, <1>6, <1>8, Zenon DEF ImageRetryable
<1>9. CASE Answer(r) \/ ImageException(r)
  BY <1>3, <1>9 DEF Answer, ImageException
<1>10. ~(MessagesRetryable(r) \/ MessagesException(r) \/ MessagesContinue(r)
         \/ MessagesContextWindow(r) \/ NativeFails(r))
  BY <1>1 DEF MessagesRetryable, MessagesException, MessagesContinue, MessagesContextWindow,
              NativeFails, Walking
<1> QED BY <1>2, <1>7, <1>8, <1>9, <1>10 DEF Request

\* The steps of another request leave it where it was; exclusions only grow.
LEMMA OthersKeepWalking ==
    ASSUME Typed, NEW r \in Walkers, Walking(r), NEW q \in Reqs \ {r}, Request(q)
    PROVE  Walking(r)' /\ at'[r] = at[r]
<1>1. /\ r \in Reqs /\ ModelOf[r] \in Models /\ keys' = keys /\ keys \in Seq(Keys)
      /\ Len(keys) \in Nat /\ ToSet(keys) \subseteq Keys
      /\ at'[r] = at[r] /\ attempt'[r] = attempt[r] /\ budget'[r] = budget[r]
      /\ using'[r] = using[r] /\ tried'[r] = tried[r]
  BY QwenAssumption, RequestEffect, OthersHold, ListFacts DEF Typed, PoolTyped, Walkers
<1>2. ASSUME at[r] = "upstream" PROVE \E s, o \in Nat : Walked(r, s, o)'
  <2>1. PICK s, o \in Nat : Walked(r, s, o)
    BY <1>2 DEF Walking
  <2>2. \A j \in Nat : Nth(s, j)' = Nth(s, j)
    BY <1>1, Zenon DEF Nth
  <2>3. \A j \in Nat : Nth(s, j) \in ToSet(keys)
    BY <1>1, <1>2, ListFacts, NthPooled DEF Walking
  <2>4. ASSUME NEW j \in Nat, j <= o
        PROVE  (Nth(s, j) \in tried[r] \/ Excluded(Nth(s, j), ModelOf[r]))'
    <3>1. PICK k \in ToSet(keys) : k = Nth(s, j)
      BY <2>3
    <3>2. k \in tried[r] \/ Excluded(k, ModelOf[r])
      BY <2>1, <2>4, <3>1 DEF Walked
    <3>3. k \in tried'[r] \/ Excluded(k, ModelOf[r])'
      BY <1>1, <3>2, ExclusionsGrow
    <3> QED BY <2>2, <2>4, <3>1, <3>3, Zenon
  <2>5. using'[r] = Nth(s, o)' /\ attempt'[r] <= o
    BY <1>1, <2>1, <2>2 DEF Walked
  <2>6. Walked(r, s, o)'
    BY <2>4, <2>5, Zenon DEF Walked
  <2> QED BY <2>6
<1> QED BY <1>1, <1>2 DEF Walking

LEMMA WalkKept ==
    ASSUME Typed, WalkInv, [Next]_vars
    PROVE  WalkInv'
<1> SUFFICES ASSUME ops' = 0 PROVE removing' = "idle" /\ \A r \in Walkers : Walking(r)'
  BY DEF WalkInv
<1>1. CASE UNCHANGED vars
  BY <1>1 DEF vars, memory, gate, tables, reqVars, WalkInv, Walking, Walked, Nth, Excluded
<1>2. ASSUME NEW q \in Reqs, Request(q)
      PROVE  removing' = "idle" /\ \A r \in Walkers : Walking(r)'
  <2>1. ops = 0 /\ removing' = removing
    BY <1>2, RequestEffect DEF gate
  <2>2. \A r \in Walkers : r = q => Walking(r)'
    BY <1>2, <2>1, WalkerSteps DEF WalkInv
  <2>3. \A r \in Walkers : r # q => Walking(r)'
    BY <1>2, <2>1, OthersKeepWalking DEF WalkInv
  <2> QED BY <2>1, <2>2, <2>3 DEF WalkInv
<1>3. ~Operator
  <2>1. ops \in Nat
    BY QwenAssumption DEF Typed, CountsTyped
  <2>2. ~(\E op \in AdminOps : Operate(op))
    BY <2>1 DEF Operate
  <2>3. removing = "idle" \/ ops # 0
    BY DEF WalkInv
  <2> QED BY <2>2, <2>3 DEF Operator, AddApiKey, ResetKeyStatus, RemoveApiKey, SetActiveKey,
                            Operate, RemoveProvider, DeleteKeyRows, DisableProvider, RemovalFails
<1>4. CASE PerformWrite \/ WriteFails
  BY <1>4 DEF PerformWrite, WriteFails, memory, gate, reqVars, WalkInv, Walking, Walked, Nth,
              Excluded
<1>5. CASE Restart
  <2>1. /\ ops' = ops /\ removing' = "idle"
        /\ at' = [r \in Reqs |-> IF at[r] \in {"upstream", "between"} THEN "lost" ELSE at[r]]
    BY <1>5 DEF Restart
  <2>2. Walkers \subseteq Reqs
    BY QwenAssumption DEF Walkers
  <2> QED BY <2>1, <2>2 DEF WalkInv, Walking
<1> QED BY <1>1, <1>2, <1>3, <1>4, <1>5 DEF Next

LEMMA StepThroughPool ==
    ASSUME Typed, WalkInv, [Next]_vars
    PROVE  [\A r \in ChatReqs \cup ImageReqs :
              at[r] # at'[r] /\ at'[r] \in {"failed", "exhausted"} /\ ops = 0 =>
                  \A k \in ToSet(keys) \ tried[r] :
                      status'[k] = "Invalid" \/ <<k, ModelOf[r]>> \in failed']_vars
<1> SUFFICES ASSUME NEW r \in Walkers, ops = 0, at[r] # at'[r], at'[r] \in {"failed", "exhausted"}
             PROVE  \A k \in ToSet(keys) \ tried[r] :
                        status'[k] = "Invalid" \/ <<k, ModelOf[r]>> \in failed'
  BY DEF Walkers
<1>1. r \in Reqs /\ Walking(r)
  BY QwenAssumption DEF Walkers, WalkInv
<1>2. \E q \in Reqs : Request(q)
  BY <1>1 DEF Next, vars, reqVars, Operator, PerformWrite, WriteFails, Restart
<1>3. PICK q \in Reqs : Request(q)
  BY <1>2
<1>4. q = r
  BY <1>1, <1>3, OthersKeepWalking
<1>5. ThroughPool(r)
  BY <1>1, <1>3, <1>4, WalkerSteps
<1> QED BY <1>5 DEF ThroughPool, Excluded

\* A chat request, or one for an image, gives up only when every key of the pool
\* either failed it or is excluded, whatever the other requests did to the
\* model's cursor and to the exclusions meanwhile, while no operator interferes.
THEOREM ChatTriesAll == Spec => ChatTriesEveryKey
<1>1. Init => WalkInv
  <2>1. Init => removing = "idle" /\ at = [r \in Reqs |-> "idle"]
    BY Zenon DEF Init
  <2>2. Walkers \subseteq Reqs
    BY QwenAssumption DEF Walkers
  <2> QED BY <2>1, <2>2 DEF WalkInv, Walking
<1>2. Typed /\ WalkInv /\ [Next]_vars => WalkInv'
  BY WalkKept
<1> DEFINE Step ==
      \A r \in ChatReqs \cup ImageReqs :
         at[r] # at'[r] /\ at'[r] \in {"failed", "exhausted"} /\ ops = 0 =>
             \A k \in ToSet(keys) \ tried[r] :
                 status'[k] = "Invalid" \/ <<k, ModelOf[r]>> \in failed'
<1>3. Typed /\ WalkInv /\ [Next]_vars => [Step]_vars
  BY StepThroughPool
<1>4. Spec => [][Step]_vars
  <2> HIDE DEF Step
  <2> QED BY <1>1, <1>2, <1>3, TypedInvariant, PTL DEF Spec
<1> QED BY <1>4 DEF ChatTriesEveryKey

(***************************************************************************)
(* Only usable keys are sent                                               *)
(***************************************************************************)
\* The request goes to upstream, for the first time or with another attempt.
Sends(r) ==
    /\ at'[r] = "upstream"
    /\ <<at[r], attempt[r], level[r]>> # <<at'[r], attempt'[r], level'[r]>>

\* No request is sent with a key that is quarantined, or exhausted for its
\* model, by what the process knows at that moment: not by the failure the same
\* step learnt from, not by what others learnt since the cursor last moved, and
\* wherever in the pool the operator's removals left that cursor.
SentKeysAreUsable ==
    [][\A r \in Reqs : Sends(r) =>
          /\ using'[r] \in ToSet(keys') /\ status'[using'[r]] # "Invalid"
          /\ <<using'[r], ModelOf[r]>> \notin failed']_vars

\* Nor does a request change the level of another.
LEMMA OthersLevel ==
    ASSUME Typed, NEW r \in Reqs, Request(r)
    PROVE  \A q \in Reqs \ {r} : level'[q] = level[q]
<1>1. level \in [Reqs -> 0..LastLevel]
  BY DEF Typed, RequestsTyped
<1>2. \/ \E n, b, c, seen, cur, usable : TryNext(r, n, b, c, seen, cur, usable)
      \/ level' = level
  <2>1. CASE Begin(r) \/ Answer(r) \/ MessagesContinue(r) \/ MessagesContextWindow(r)
    BY <2>1 DEF Begin, Answer, MessagesContinue, MessagesContextWindow, Finish
  <2>2. CASE MessagesRetryable(r) \/ MessagesException(r) \/ NativeFails(r) \/ ImageException(r)
    BY <2>2 DEF MessagesRetryable, MessagesException, NativeFails, ImageException, Finish
  <2>3. CASE ChatRetryable(r) \/ ImageRetryable(r)
    <3>1. \/ \E n, b, c, seen, cur, usable : TryNext(r, n, b, c, seen, cur, usable)
          \/ Finish(r, "failed")
      BY <2>3, Zenon DEF ChatRetryable, ImageRetryable
    <3> QED BY <3>1 DEF Finish
  <2> QED BY <2>1, <2>2, <2>3 DEF Request
<1>3. ASSUME NEW n, NEW b, NEW c, NEW seen, NEW cur, NEW usable,
             TryNext(r, n, b, c, seen, cur, usable)
      PROVE  level' = [level EXCEPT ![r] = c]
  BY <1>3 DEF TryNext
<1> QED BY <1>1, <1>2, <1>3

\* A key taken among the usable ones is pooled and not excluded.
LEMMA UsableSent ==
    ASSUME Typed, NEW r \in Reqs, Request(r), at'[r] = "upstream"
    PROVE  using'[r] \in Usable(ModelOf[r], status', failed')
<1> DEFINE m == ModelOf[r]
<1>0. /\ keys \in Seq(Keys) /\ CursorTyped /\ Len(keys) \in Nat /\ m \in Models
      /\ cursor \in [Models -> Nat] /\ at \in [Reqs -> Where]
      /\ attempt[r] + 1 \in Nat /\ budget[r] \in Nat /\ 0 \in Nat
  BY QwenAssumption, ListFacts DEF Typed, PoolTyped, CursorTyped, RequestsTyped
<1>1. ASSUME NEW n \in Nat, NEW b \in Nat, NEW c, NEW seen, NEW cur \in [Models -> Nat],
             NEW st, NEW fl, TryNext(r, n, b, c, seen, cur, Usable(m, st, fl)),
             st = status', fl = failed'
      PROVE  using'[r] \in Usable(m, status', failed')
  BY <1>1, UsableFacts, TryNextHolds
<1>2. ASSUME NEW outcome \in Ended, Finish(r, outcome) PROVE FALSE
  BY <1>2, FinishHolds DEF Ended
<1>3. CASE Begin(r)
  <2>1. TryNext(r, 0, Len(keys), 0, {}, cursor, Usable(m, status, failed))
    BY <1>2, <1>3 DEF Begin, Ended
  <2> QED BY <1>0, <1>1, <1>3, <2>1 DEF Begin, LearnNothing
<1>4. CASE MessagesContinue(r)
  <2>1. TryNext(r, attempt[r] + 1, budget[r], level[r], tried[r], cursor,
                Usable(m, status, failed))
    BY <1>4 DEF MessagesContinue
  <2> QED BY <1>0, <1>1, <1>4, <2>1 DEF MessagesContinue, LearnNothing
<1>5. CASE MessagesContextWindow(r)
  <2>1. TryNext(r, 0, Len(keys), level[r] + 1, {}, cursor, Usable(m, status, failed))
    BY <1>2, <1>5 DEF MessagesContextWindow, Ended
  <2> QED BY <1>0, <1>1, <1>5, <2>1 DEF MessagesContextWindow, LearnNothing
<1>6. CASE ChatRetryable(r) \/ ImageRetryable(r)
  <2> DEFINE usable == Usable(m, status', failed')
             cur == Rotated(m, using[r], usable)
  <2>1. \/ Finish(r, "failed")
        \/ TryNext(r, attempt[r] + 1, budget[r], 0, tried[r], cur, usable)
    BY <1>6, Zenon DEF ChatRetryable, ImageRetryable
  <2>2. TryNext(r, attempt[r] + 1, budget[r], 0, tried[r], cur, usable)
    BY <1>2, <2>1 DEF Ended
  <2>3. cur \in [Models -> Nat]
    BY <1>0, UsableFacts, RotatedTyped
  <2> HIDE DEF cur
  <2> QED BY <1>0, <1>1, <2>2, <2>3
<1>7. CASE Answer(r)
  BY <1>2, <1>7 DEF Answer, Ended
<1>8. CASE MessagesException(r)
  <2>1. at' = [at EXCEPT ![r] = "between"]
    BY <1>2, <1>8 DEF MessagesException, Ended
  <2> QED BY <1>0, <2>1
<1>9. CASE MessagesRetryable(r) \/ NativeFails(r)
  BY <1>0, <1>9 DEF MessagesRetryable, NativeFails
<1>10. CASE ImageException(r)
  BY <1>2, <1>10 DEF ImageException, Ended
<1> QED BY <1>3, <1>4, <1>5, <1>6, <1>7, <1>8, <1>9, <1>10 DEF Request

\* Whatever is sent, is sent with a usable key.
THEOREM OnlyUsableKeysSent == Spec => SentKeysAreUsable
<1> DEFINE Step == \A r \in Reqs : Sends(r) =>
                      /\ using'[r] \in ToSet(keys') /\ status'[using'[r]] # "Invalid"
                      /\ <<using'[r], ModelOf[r]>> \notin failed'
<1>1. Typed /\ [Next]_vars => [Step]_vars
  <2> SUFFICES ASSUME Typed, Next, NEW r \in Reqs, Sends(r)
               PROVE  /\ using'[r] \in ToSet(keys') /\ status'[using'[r]] # "Invalid"
                      /\ <<using'[r], ModelOf[r]>> \notin failed'
    BY Zenon
  <2>1. at \in [Reqs -> Where] /\ attempt \in [Reqs -> Nat] /\ level \in [Reqs -> 0..LastLevel]
    BY DEF Typed, RequestsTyped
  <2>2. ~Operator /\ ~PerformWrite /\ ~WriteFails
    BY DEF Sends, Operator, PerformWrite, WriteFails, reqVars
  <2>3. ~Restart
    BY <2>1 DEF Sends, Restart
  <2>4. PICK q \in Reqs : Request(q)
    BY <2>2, <2>3 DEF Next
  <2>5. q = r
    BY <2>1, <2>4, OthersHold, OthersLevel DEF Sends
  <2>6. using'[r] \in Usable(ModelOf[r], status', failed')
    BY <2>4, <2>5, UsableSent DEF Sends
  <2>7. keys' = keys
    BY <2>4, RequestEffect
  <2> QED BY <2>6, <2>7 DEF Usable
<1>2. Spec => [][Step]_vars
  <2> HIDE DEF Step
  <2> QED BY <1>1, TypedInvariant, PTL DEF Spec
<1> QED BY <1>2 DEF SentKeysAreUsable

(***************************************************************************)
(* A walk gets shorter                                                     *)
(***************************************************************************)
\* Steps a request has left at its compaction level: two for each attempt, one
\* when it is not between two attempts, none once it has ended.
StepsLeft(r) ==
    IF at[r] \in {"upstream", "between"}
    THEN 2 * (budget[r] - attempt[r]) + (IF at[r] = "upstream" THEN 1 ELSE 0)
    ELSE 0

\* The request moved on to another level, or has fewer steps left at this one.
Shorter(r) ==
    \/ level[r] < level'[r]
    \/ level[r] = level'[r] /\ StepsLeft(r)' < StepsLeft(r)

\* However the operator, the other requests and the writes change the pool and
\* its exclusions meanwhile, every step of a request that has begun, and a
\* restart, uses up one of finitely many: the loop over image models too, which
\* asks for another key for as long as one is usable, keeps to its budget.
WalksGetShorter ==
    /\ [](\A r \in Reqs : level[r] \in 0..LastLevel /\ StepsLeft(r) \in Nat)
    /\ [][\A r \in Reqs : at[r] # "idle" =>
              UNCHANGED <<at[r], attempt[r], budget[r], level[r]>> \/ Shorter(r)]_vars

\* An attempt is within the budget of its loop, and only /v1/messages compacts.
Within(r) ==
    /\ at[r] \in {"upstream", "between"} => attempt[r] < budget[r]
    /\ r \in Walkers => level[r] = 0

WithinInv == \A r \in Reqs : Within(r)

\* Where an iteration leaves the request.
LEMMA TryNextCounts ==
    ASSUME Typed, NEW r \in Reqs, NEW n \in Nat, NEW b \in Nat, NEW c, NEW seen, NEW cur,
           NEW usable, TryNext(r, n, b, c, seen, cur, usable)
    PROVE  /\ at'[r] \in {"upstream", "failed", "exhausted"}
           /\ at'[r] = "upstream" => n < b
           /\ attempt'[r] = n /\ budget'[r] = b /\ level'[r] = c
<1>1. PICK w \in {"upstream", "failed", "exhausted"} :
         at' = [at EXCEPT ![r] = w] /\ (w = "upstream" => n < b)
  <2>1. CASE n >= b \/ usable = {}
    BY <2>1 DEF TryNext
  <2>2. CASE ~(n >= b \/ usable = {})
    <3>1. at' = [at EXCEPT ![r] = "upstream"]
      BY <2>2, Zenon DEF TryNext
    <3> QED BY <2>2, <3>1
  <2> QED BY <2>1, <2>2
<1>2. /\ attempt' = [attempt EXCEPT ![r] = n]
      /\ budget' = [budget EXCEPT ![r] = b]
      /\ level' = [level EXCEPT ![r] = c]
  BY DEF TryNext
<1> QED BY <1>1, <1>2 DEF Typed, RequestsTyped

\* A request's own step keeps it within its budget and shortens its walk.
LEMMA OwnStepShortens ==
    ASSUME Typed, NEW r \in Reqs, Within(r), Request(r)
    PROVE  Within(r)' /\ (at[r] # "idle" => Shorter(r))
<1>1. /\ attempt[r] \in Nat /\ budget[r] \in Nat /\ level[r] \in 0..LastLevel
      /\ at \in [Reqs -> Where] /\ Len(keys) \in Nat /\ LastLevel \in Nat /\ 0 \in Nat
  BY QwenAssumption, ListFacts DEF Typed, PoolTyped, RequestsTyped
<1>2. CASE \E outcome \in Ended : at[r] \in {"idle", "upstream"} /\ Finish(r, outcome)
  <2>1. PICK outcome \in Ended : at[r] \in {"idle", "upstream"} /\ Finish(r, outcome)
    BY <1>2
  <2>2. at'[r] = outcome /\ attempt' = attempt /\ budget' = budget /\ level' = level
    BY <2>1, FinishHolds DEF Finish
  <2>3. at'[r] \notin {"idle", "upstream", "between"}
    BY <2>2 DEF Ended
  <2>4. StepsLeft(r)' = 0
    BY <2>3 DEF StepsLeft
  <2>5. at[r] = "upstream" => StepsLeft(r) > 0
    BY <1>1 DEF StepsLeft, Within
  <2> QED BY <2>1, <2>2, <2>3, <2>4, <2>5 DEF Within, Shorter
<1>3. CASE /\ at[r] = "upstream" /\ \E w \in {"between", "failed"} : at' = [at EXCEPT ![r] = w]
           /\ UNCHANGED <<attempt, budget, level, using, tried>>
  <2>1. at'[r] \in {"between", "failed"}
    BY <1>1, <1>3
  <2>2. StepsLeft(r)' < StepsLeft(r)
    BY <1>1, <1>3, <2>1 DEF StepsLeft, Within
  <2> QED BY <1>3, <2>1, <2>2 DEF Within, Shorter
<1>4. CASE \E seen, cur, usable :
              at[r] = "idle" /\ TryNext(r, 0, Len(keys), 0, seen, cur, usable)
  BY <1>1, <1>4, TryNextCounts DEF Within
<1>5. CASE \E seen, cur, usable, c :
              /\ at[r] \in {"upstream", "between"} /\ c = level[r]
              /\ TryNext(r, attempt[r] + 1, budget[r], c, seen, cur, usable)
  <2>1. /\ at[r] \in {"upstream", "between"}
        /\ at'[r] \in {"upstream", "failed", "exhausted"}
        /\ at'[r] = "upstream" => attempt[r] + 1 < budget[r]
        /\ attempt'[r] = attempt[r] + 1 /\ budget'[r] = budget[r] /\ level'[r] = level[r]
    <3>1. PICK seen, cur, usable, c :
             /\ at[r] \in {"upstream", "between"} /\ c = level[r]
             /\ TryNext(r, attempt[r] + 1, budget[r], c, seen, cur, usable)
      BY <1>5
    <3>2. attempt[r] + 1 \in Nat
      BY <1>1
    <3> QED BY <1>1, <3>1, <3>2, TryNextCounts
  <2>2. StepsLeft(r)' < StepsLeft(r)
    BY <1>1, <2>1 DEF StepsLeft, Within
  <2> QED BY <2>1, <2>2 DEF Within, Shorter
<1>6. CASE MessagesContextWindow(r)
  <2>1. CASE level[r] < LastLevel
    <3> DEFINE c == level[r] + 1
               usable == Usable(ModelOf[r], status, failed)
    <3>1. TryNext(r, 0, Len(keys), c, {}, cursor, usable) /\ r \notin Walkers
      BY <1>6, <2>1 DEF MessagesContextWindow, MessageReqs, Walkers
    <3>2. level[r] < c
      BY <1>1
    <3> HIDE DEF c, usable
    <3> QED BY <1>1, <3>1, <3>2, TryNextCounts DEF Within, Shorter
  <2>2. CASE ~(level[r] < LastLevel)
    BY <1>2, <1>6, <2>2 DEF MessagesContextWindow, Ended
  <2> QED BY <2>1, <2>2
<1>7. CASE ChatRetryable(r) \/ ImageRetryable(r)
  <2> DEFINE usable == Usable(ModelOf[r], status', failed')
             cur == Rotated(ModelOf[r], using[r], usable)
  <2>1. /\ at[r] = "upstream" /\ r \in Walkers
        /\ \/ Finish(r, "failed")
           \/ TryNext(r, attempt[r] + 1, budget[r], 0, tried[r], cur, usable)
    BY <1>7, Zenon DEF ChatRetryable, ImageRetryable, Walkers
  <2> HIDE DEF usable, cur
  <2>2. level[r] = 0
    BY <2>1 DEF Within
  <2> QED BY <1>2, <1>5, <2>1, <2>2 DEF Ended
<1>8. CASE Begin(r)
  BY <1>2, <1>4, <1>8 DEF Begin, Ended
<1>9. CASE Answer(r) \/ ImageException(r)
  BY <1>2, <1>9 DEF Answer, ImageException, Ended
<1>10. CASE MessagesRetryable(r) \/ MessagesException(r) \/ NativeFails(r)
  BY <1>2, <1>3, <1>10 DEF MessagesRetryable, MessagesException, NativeFails, Ended
<1>11. CASE MessagesContinue(r)
  BY <1>5, <1>11 DEF MessagesContinue
<1> QED BY <1>6, <1>7, <1>8, <1>9, <1>10, <1>11 DEF Request

LEMMA WithinStep ==
    ASSUME Typed, WithinInv, [Next]_vars
    PROVE  /\ WithinInv'
           /\ \A r \in Reqs : at[r] # "idle" =>
                 UNCHANGED <<at[r], attempt[r], budget[r], level[r]>> \/ Shorter(r)
<1>1. ASSUME NEW q \in Reqs
      PROVE  /\ Within(q)'
             /\ at[q] # "idle" =>
                   UNCHANGED <<at[q], attempt[q], budget[q], level[q]>> \/ Shorter(q)
  <2>1. Within(q)
    BY DEF WithinInv
  <2>2. CASE UNCHANGED reqVars
    BY <2>1, <2>2 DEF reqVars, Within
  <2>3. CASE \E r \in Reqs : Request(r)
    <3>1. PICK r \in Reqs : Request(r)
      BY <2>3
    <3>2. CASE r = q
      BY <2>1, <3>1, <3>2, OwnStepShortens
    <3>3. CASE r # q
      <4>1. UNCHANGED <<at[q], attempt[q], budget[q], level[q]>>
        BY <3>1, <3>3, OthersHold, OthersLevel
      <4> QED BY <2>1, <4>1 DEF Within
    <3> QED BY <3>2, <3>3
  <2>4. CASE Restart
    <3>1. /\ attempt' = attempt /\ budget' = budget /\ level' = level
          /\ at'[q] = IF at[q] \in {"upstream", "between"} THEN "lost" ELSE at[q]
      BY <2>4 DEF Restart
    <3>2. attempt[q] \in Nat /\ budget[q] \in Nat
      BY DEF Typed, RequestsTyped
    <3>3. CASE at[q] \in {"upstream", "between"}
      <4>1. StepsLeft(q)' = 0 /\ StepsLeft(q) > 0
        BY <2>1, <3>1, <3>2, <3>3 DEF StepsLeft, Within
      <4> QED BY <2>1, <3>1, <3>3, <4>1 DEF Within, Shorter
    <3>4. CASE at[q] \notin {"upstream", "between"}
      BY <2>1, <3>1, <3>4 DEF Within
    <3> QED BY <3>3, <3>4
  <2> QED BY <2>2, <2>3, <2>4 DEF Next, Operator, PerformWrite, WriteFails, vars
<1> QED BY <1>1 DEF WithinInv

\* A request that has begun takes finitely many steps, for any pool, operator
\* and number of restarts.
THEOREM WalksEnd == Spec => WalksGetShorter
<1>1. Init => WithinInv
  <2> SUFFICES ASSUME Init PROVE WithinInv
    OBVIOUS
  <2>1. at = [r \in Reqs |-> "idle"] /\ level = [r \in Reqs |-> 0]
    BY Zenon DEF Init
  <2> QED BY <2>1 DEF WithinInv, Within
<1>2. Typed /\ WithinInv => \A r \in Reqs : level[r] \in 0..LastLevel /\ StepsLeft(r) \in Nat
  <2> SUFFICES ASSUME Typed, WithinInv, NEW r \in Reqs
               PROVE  level[r] \in 0..LastLevel /\ StepsLeft(r) \in Nat
    OBVIOUS
  <2>1. /\ level[r] \in 0..LastLevel /\ attempt[r] \in Nat /\ budget[r] \in Nat
        /\ at[r] \in {"upstream", "between"} => attempt[r] < budget[r]
    BY DEF WithinInv, Within, Typed, RequestsTyped
  <2> QED BY <2>1 DEF StepsLeft
<1>3. Typed /\ WithinInv /\ [Next]_vars =>
        /\ WithinInv'
        /\ [\A r \in Reqs : at[r] # "idle" =>
               UNCHANGED <<at[r], attempt[r], budget[r], level[r]>> \/ Shorter(r)]_vars
  BY WithinStep
<1> QED BY <1>1, <1>2, <1>3, TypedInvariant, PTL DEF Spec, WalksGetShorter
=============================================================================
