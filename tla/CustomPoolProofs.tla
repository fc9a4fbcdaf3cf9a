-------------------------- MODULE CustomPoolProofs --------------------------
(***************************************************************************)
(* Proofs about CustomPool, for any keys, requests, overlapping removals,  *)
(* operations and faults.                                                  *)
(***************************************************************************)
EXTENDS CustomPool, SequenceLemmas, SequenceTheorems, TLAPS

(***************************************************************************)
(* Types                                                                   *)
(***************************************************************************)
MemoryTyped ==
    /\ registered \in BOOLEAN
    /\ keys \in Seq(Keys) /\ IsInjective(keys) /\ (~registered => keys = <<>>)
    /\ idx \in Nat /\ (keys # <<>> => idx < Len(keys)) /\ (keys = <<>> => idx = 0)

TablesTyped ==
    /\ providerRow \in BOOLEAN
    /\ keyRows \in Seq(Keys) /\ IsInjective(keyRows)

WritesTyped == IsABag(writes) /\ BagToSet(writes) \subseteq Write

RequestsTyped ==
    /\ phase \in [Reqs -> {"idle", "walk", "json", "multipart"}]
    /\ DOMAIN plan = Reqs /\ pos \in [Reqs -> Nat]
    /\ alone \subseteq Reqs

OperatorTyped ==
    /\ adding \in BOOLEAN /\ (adding => ~registered)
    /\ removing \in [Removers -> {"idle", "keys", "provider"}]

Typed ==
    /\ MemoryTyped /\ TablesTyped /\ WritesTyped /\ RequestsTyped /\ OperatorTyped
    /\ cooling \in BOOLEAN

LEMMA HeldIsElems == Held = Elems(keys) /\ Saved = Elems(keyRows)
                     /\ Held' = Elems(keys') /\ Saved' = Elems(keyRows')
BY DEF Held, Saved, Elems

\* The next index stays in the list.
LEMMA RotatedIndexFacts ==
    ASSUME NEW ks \in Seq(Keys), NEW i \in Nat, ks # <<>> => i < Len(ks), ks = <<>> => i = 0
    PROVE  /\ RotatedIndex(ks, i) \in Nat
           /\ ks # <<>> => RotatedIndex(ks, i) < Len(ks)
           /\ ks = <<>> => RotatedIndex(ks, i) = 0
<1>1. Len(ks) \in Nat /\ (ks = <<>> <=> Len(ks) = 0)
  OBVIOUS
<1>2. CASE Len(ks) <= 1
  BY <1>1, <1>2 DEF RotatedIndex
<1>3. CASE Len(ks) > 1
  <2>1. (i + 1) % Len(ks) \in 0..Len(ks) - 1
    BY <1>1, <1>3
  <2>2. RotatedIndex(ks, i) = (i + 1) % Len(ks)
    BY <1>1, <1>3 DEF RotatedIndex
  <2> QED BY <1>1, <1>3, <2>1, <2>2
<1> QED BY <1>1, <1>2, <1>3

LEMMA IndexAfterRemovalFacts ==
    ASSUME MemoryTyped, NEW k
    PROVE  LET left == Without(keys, k)
               i    == IndexAfterRemoval(keys, idx, k)
           IN  i \in Nat /\ (left # <<>> => i < Len(left)) /\ (left = <<>> => i = 0)
<1> DEFINE left == Without(keys, k)
           m    == IF left = <<>> THEN 1 ELSE Len(left)
           at   == idx % m
<1>1. left \in Seq(Keys) /\ idx \in Nat
  BY WithoutFacts DEF MemoryTyped
<1> HIDE DEF left
<1>2. Len(left) \in Nat /\ (left # <<>> => Len(left) > 0)
  BY <1>1
<1>3. /\ at \in Nat
      /\ left # <<>> => at < Len(left)
      /\ left = <<>> => at = 0
  <2>1. m \in Nat /\ m > 0 /\ (left = <<>> => m = 1) /\ (left # <<>> => m = Len(left))
    BY <1>2
  <2> HIDE DEF m
  <2>2. at \in 0..m - 1
    BY <1>1, <2>1
  <2> QED BY <2>1, <2>2
<1>4. IndexAfterRemoval(keys, idx, k) \in {at, RotatedIndex(left, at)}
  BY DEF IndexAfterRemoval, left
<1> HIDE DEF at
<1>5. /\ RotatedIndex(left, at) \in Nat
      /\ left # <<>> => RotatedIndex(left, at) < Len(left)
      /\ left = <<>> => RotatedIndex(left, at) = 0
  BY <1>1, <1>3, RotatedIndexFacts
<1> QED BY <1>3, <1>4, <1>5 DEF left

LEMMA InitTyped == Init => Typed
<1> SUFFICES ASSUME Init PROVE Typed
  OBVIOUS
<1> DEFINE none == <<>>
<1>1. none \in Seq(Keys) /\ IsInjective(none) /\ none = <<>>
  BY DEF IsInjective
<1> HIDE DEF none
<1>2. /\ providerRow \in BOOLEAN /\ registered = providerRow /\ keys = keyRows /\ idx = 0
      /\ keyRows = IF providerRow THEN SavedKeys ELSE none
  BY <1>1, Zenon DEF Init
<1>3. keyRows \in Seq(Keys) /\ IsInjective(keyRows)
  BY <1>1, <1>2, CustomPoolAssumption
<1>4. keys # <<>> => Len(keys) > 0
  BY <1>2, <1>3
<1>5. MemoryTyped /\ TablesTyped
  BY <1>1, <1>2, <1>3, <1>4 DEF MemoryTyped, TablesTyped
<1>6. WritesTyped
  BY DEF Init, WritesTyped, EmptyBag, SetToBag, IsABag, BagToSet
<1>7. RequestsTyped /\ OperatorTyped /\ cooling \in BOOLEAN
  BY DEF Init, RequestsTyped, OperatorTyped
<1> QED BY <1>5, <1>6, <1>7 DEF Typed

LEMMA MemoryTypedKept ==
    ASSUME Typed, [Next]_vars
    PROVE  MemoryTyped'
<1> USE DEF Typed
<1>1. CASE UNCHANGED memory
  BY <1>1 DEF memory, MemoryTyped
<1>2. ASSUME registered' = registered, keys' = keys, Rotate PROVE MemoryTyped'
  BY <1>2, RotatedIndexFacts DEF MemoryTyped, Rotate
<1>3. ASSUME idx' = 0, keys' = <<>>, registered' \in BOOLEAN PROVE MemoryTyped'
  <2> DEFINE none == <<>>
  <2>1. none \in Seq(Keys) /\ IsInjective(none) /\ none = <<>>
    BY DEF IsInjective
  <2> HIDE DEF none
  <2> QED BY <1>3, <2>1 DEF MemoryTyped
<1>4. CASE Restart
  <2>1. CASE providerRow
    <3>1. registered' = TRUE /\ keys' = keyRows /\ idx' = 0
      BY <1>4, <2>1 DEF Restart, Load
    <3>2. keyRows # <<>> => Len(keyRows) > 0
      BY DEF TablesTyped
    <3> QED BY <3>1, <3>2 DEF MemoryTyped, TablesTyped
  <2>2. CASE ~providerRow
    <3>1. registered' = providerRow /\ keys' = <<>> /\ idx' = 0
      BY <1>4, <2>2 DEF Restart, Load
    <3> QED BY <1>3, <3>1 DEF TablesTyped
  <2> QED BY <2>1, <2>2 DEF TablesTyped
<1>5. ASSUME NEW k \in Keys, AddApiKey(k) PROVE MemoryTyped'
  <2>1. /\ registered /\ k \notin Elems(keys) /\ keys' = Append(keys, k)
        /\ registered' = registered /\ idx' = idx
    BY <1>5, HeldIsElems DEF AddApiKey
  <2>2. keys' \in Seq(Keys) /\ IsInjective(keys') /\ Len(keys') = Len(keys) + 1
    BY <2>1, AppendFacts DEF MemoryTyped
  <2>3. Len(keys) \in Nat /\ (keys = <<>> \/ idx < Len(keys)) /\ (keys = <<>> => idx = 0)
    BY DEF MemoryTyped
  <2>4. idx < Len(keys') /\ keys' # <<>>
    BY <2>2, <2>3 DEF MemoryTyped
  <2> QED BY <2>1, <2>2, <2>4 DEF MemoryTyped
<1>6. ASSUME NEW k \in Keys, RemoveCustomKey(k) PROVE MemoryTyped'
  <2>1. /\ k \in Elems(keys) /\ keys' = Without(keys, k) /\ registered' = registered
        /\ idx' = IndexAfterRemoval(keys, idx, k)
    BY <1>6, HeldIsElems DEF RemoveCustomKey
  <2>2. keys' \in Seq(Keys) /\ IsInjective(keys')
    BY <2>1, WithoutFacts DEF MemoryTyped
  <2>3. registered
    BY <2>1 DEF Elems, MemoryTyped
  <2> QED BY <2>1, <2>2, <2>3, IndexAfterRemovalFacts DEF MemoryTyped
<1>7. ASSUME NEW r \in Reqs, Serve(r) PROVE MemoryTyped'
  <2>1. \/ UNCHANGED memory
        \/ registered' = registered /\ keys' = keys /\ Rotate
    BY <1>7 DEF Serve, Dispatch, Start, Settle, Retry, ForwardJson, ForwardMultipart,
                Forwarded, ForwardFails, memory
  <2> QED BY <1>1, <1>2, <2>1
<1>8. CASE InsertProvider
  BY <1>1, <1>8 DEF InsertProvider
<1>9. CASE RegisterProvider \/ AddProviderFails
  BY <1>1, <1>3, <1>9 DEF RegisterProvider, AddProviderFails
<1>10. ASSUME NEW d \in Removers, RemoveProvider(d) \/ DeleteKeyRows(d) \/ RemovalFails(d)
       PROVE  MemoryTyped'
  BY <1>1, <1>10 DEF RemoveProvider, DeleteKeyRows, RemovalFails
<1>11. ASSUME NEW d \in Removers, DeleteProviderRow(d) PROVE MemoryTyped'
  BY <1>3, <1>11 DEF DeleteProviderRow
<1>12. ASSUME NEW w \in Write, Perform(w) PROVE MemoryTyped'
  BY <1>1, <1>12 DEF Perform
<1>13. CASE CooldownEnds \/ UNCHANGED vars
  BY <1>1, <1>13 DEF CooldownEnds, vars
<1> QED BY <1>4, <1>5, <1>6, <1>7, <1>8, <1>9, <1>10, <1>11, <1>12, <1>13 DEF Next, Operator

LEMMA TablesTypedKept ==
    ASSUME Typed, [Next]_vars
    PROVE  TablesTyped'
<1> USE DEF Typed, TablesTyped
<1>1. CASE UNCHANGED keyRows /\ providerRow' \in BOOLEAN
  BY <1>1
<1>2. ASSUME keyRows' = <<>>, providerRow' \in BOOLEAN PROVE TablesTyped'
  <2> DEFINE none == <<>>
  <2>1. none \in Seq(Keys) /\ IsInjective(none) /\ none = <<>>
    BY DEF IsInjective
  <2> HIDE DEF none
  <2> QED BY <1>2, <2>1
<1>3. ASSUME NEW w \in Write, Perform(w) PROVE TablesTyped'
  <2>1. /\ providerRow' = providerRow
        /\ \/ keyRows' = keyRows
           \/ keyRows' = Without(keyRows, w.key)
           \/ w.key \notin Saved /\ keyRows' = Append(keyRows, w.key)
    BY <1>3 DEF Perform
  <2>2. w.key \in Keys
    BY DEF Write
  <2>3. Without(keyRows, w.key) \in Seq(Keys) /\ IsInjective(Without(keyRows, w.key))
    BY WithoutFacts
  <2>4. w.key \notin Saved => /\ Append(keyRows, w.key) \in Seq(Keys)
                             /\ IsInjective(Append(keyRows, w.key))
    BY <2>2, HeldIsElems, AppendFacts
  <2> QED BY <2>1, <2>3, <2>4
<1>4. ASSUME NEW r \in Reqs, Serve(r) PROVE TablesTyped'
  BY <1>4 DEF Serve, Dispatch, Start, Settle, Retry, ForwardJson, ForwardMultipart,
              Forwarded, ForwardFails, tables
<1>5. CASE Operator
  <2>1. ASSUME NEW d \in Removers, RemovalFails(d) PROVE TablesTyped'
    <3>1. /\ keyRows' \in {keyRows, <<>>} /\ providerRow' \in {providerRow, FALSE}
      BY <2>1 DEF RemovalFails, tables
    <3> QED BY <1>1, <1>2, <3>1
  <2>2. ASSUME NEW d \in Removers, DeleteKeyRows(d) PROVE TablesTyped'
    BY <1>2, <2>2 DEF DeleteKeyRows
  <2> QED BY <1>1, <1>5, <2>1, <2>2 DEF Operator, AddApiKey, RemoveCustomKey, InsertProvider,
        RegisterProvider, AddProviderFails, RemoveProvider, DeleteProviderRow, tables
<1>6. CASE Restart \/ CooldownEnds \/ UNCHANGED vars
  BY <1>6 DEF Restart, CooldownEnds, vars, tables
<1> QED BY <1>3, <1>4, <1>5, <1>6 DEF Next

LEMMA WritesTypedKept ==
    ASSUME Typed, [Next]_vars
    PROVE  WritesTyped'
<1> USE DEF Typed, WritesTyped, BagToSet
<1>1. CASE UNCHANGED writes
  BY <1>1
<1>2. ASSUME NEW k \in Keys, AddApiKey(k) \/ RemoveCustomKey(k) PROVE WritesTyped'
  <2>1. PICK w \in {Insert(k), Delete(k)} : writes' = writes (+) SetToBag({w})
    BY <1>2 DEF AddApiKey, RemoveCustomKey
  <2>2. w \in Write
    BY DEF Insert, Delete, Write
  <2> DEFINE more == writes (+) SetToBag({w})
  <2>3. IsABag(more) /\ DOMAIN more = DOMAIN writes \cup {w}
    BY BagAdd
  <2> HIDE DEF more
  <2>4. writes' = more
    BY <2>1 DEF more
  <2> QED BY <2>2, <2>3, <2>4
<1>3. ASSUME NEW w \in Write, Perform(w) PROVE WritesTyped'
  <2>1. w \in DOMAIN writes /\ writes' = writes (-) SetToBag({w})
    BY <1>3 DEF Perform
  <2> QED BY <2>1, BagRemove
<1>4. CASE Restart
  BY <1>4 DEF Restart, EmptyBag, SetToBag, IsABag
<1>5. ASSUME NEW r \in Reqs, Serve(r) PROVE WritesTyped'
  BY <1>5 DEF Serve, Dispatch, Start, Settle, Retry, ForwardJson, ForwardMultipart,
              Forwarded, ForwardFails
<1>6. CASE Operator
  BY <1>2, <1>6 DEF Operator, InsertProvider, RegisterProvider, AddProviderFails, RemoveProvider,
        DeleteKeyRows, DeleteProviderRow, RemovalFails
<1>7. CASE CooldownEnds \/ UNCHANGED vars
  BY <1>7 DEF CooldownEnds, vars
<1> QED BY <1>3, <1>4, <1>5, <1>6, <1>7 DEF Next

LEMMA RequestsTypedKept ==
    ASSUME Typed, [Next]_vars
    PROVE  RequestsTyped'
<1> USE DEF Typed, RequestsTyped
<1>1. CASE UNCHANGED reqVars /\ alone' \subseteq alone
  BY <1>1 DEF reqVars
<1>2. ASSUME NEW r \in Reqs, Finish(r) PROVE RequestsTyped'
  BY <1>2 DEF Finish
<1>3. ASSUME NEW r \in Reqs, NEW kind \in {"walk", "json", "multipart"}, NEW ks, Start(r, kind, ks)
      PROVE  RequestsTyped'
  BY <1>3 DEF Start
<1>4. ASSUME NEW r \in Reqs, Retry(r) PROVE RequestsTyped'
  BY <1>2, <1>4 DEF Retry
<1>5. ASSUME NEW r \in Reqs, Serve(r) PROVE RequestsTyped'
  BY <1>2, <1>3, <1>4, <1>5 DEF Serve, Dispatch, Settle, ForwardJson, ForwardMultipart,
        Forwarded, ForwardFails
<1>6. CASE Restart
  BY <1>6 DEF Restart
<1>7. CASE Operator
  BY <1>1, <1>7 DEF Operator, AddApiKey, RemoveCustomKey, InsertProvider, RegisterProvider, AddProviderFails,
        RemoveProvider, DeleteKeyRows, DeleteProviderRow, RemovalFails, history
<1>8. CASE CooldownEnds \/ (\E w \in Write : Perform(w)) \/ UNCHANGED vars
  BY <1>1, <1>8 DEF CooldownEnds, Perform, vars, history
<1> QED BY <1>5, <1>6, <1>7, <1>8 DEF Next

LEMMA OperatorTypedKept ==
    ASSUME Typed, [Next]_vars
    PROVE  OperatorTyped' /\ cooling' \in BOOLEAN
<1> USE DEF Typed, OperatorTyped
<1>1. CASE UNCHANGED operator /\ registered' = registered /\ cooling' \in BOOLEAN
  BY <1>1 DEF operator
<1>2. ASSUME NEW r \in Reqs, Serve(r) PROVE UNCHANGED operator /\ registered' = registered /\ cooling' \in BOOLEAN
  BY <1>2 DEF Serve, Dispatch, Start, Settle, Retry, ForwardJson, ForwardMultipart,
              Forwarded, ForwardFails, memory
<1>3. CASE CooldownEnds \/ (\E w \in Write : Perform(w)) \/ UNCHANGED vars
  BY <1>1, <1>3 DEF CooldownEnds, Perform, vars, memory
<1>4. CASE Restart
  BY <1>4 DEF Restart
<1>5. ASSUME NEW k \in Keys, AddApiKey(k) \/ RemoveCustomKey(k)
      PROVE  UNCHANGED operator /\ registered' = registered /\ cooling' \in BOOLEAN
  BY <1>5 DEF AddApiKey, RemoveCustomKey
<1>6. CASE InsertProvider \/ RegisterProvider \/ AddProviderFails
  <2>1. /\ (adding' = TRUE /\ registered' = FALSE) \/ adding' = FALSE
        /\ removing' = removing /\ cooling' = cooling
    BY <1>6 DEF InsertProvider, RegisterProvider, AddProviderFails, memory, MemoryTyped
  <2> QED BY <2>1
<1>7. ASSUME NEW d \in Removers,
             RemoveProvider(d) \/ DeleteKeyRows(d) \/ DeleteProviderRow(d) \/ RemovalFails(d)
      PROVE  OperatorTyped' /\ cooling' \in BOOLEAN
  <2>1. \E at \in {"idle", "keys", "provider"} : removing' = [removing EXCEPT ![d] = at]
    BY <1>7 DEF RemoveProvider, DeleteKeyRows, DeleteProviderRow, RemovalFails
  <2>2. /\ adding' = adding /\ cooling' = cooling
        /\ registered' = registered \/ registered' = FALSE
    BY <1>7 DEF RemoveProvider, DeleteKeyRows, DeleteProviderRow, RemovalFails, memory
  <2>3. removing' \in [Removers -> {"idle", "keys", "provider"}]
    BY <2>1
  <2>4. adding' \in BOOLEAN /\ (adding' => ~registered') /\ cooling' \in BOOLEAN
    <3>1. adding' \in BOOLEAN /\ cooling' \in BOOLEAN
      BY <2>2
    <3>2. ASSUME adding' PROVE ~registered'
      <4>1. ~registered
        BY <2>2, <3>2
      <4> QED BY <2>2, <4>1
    <3> QED BY <3>1, <3>2
  <2> QED BY <2>3, <2>4
<1> QED BY <1>1, <1>2, <1>3, <1>4, <1>5, <1>6, <1>7 DEF Next, Operator

LEMMA TypedKept == Typed /\ [Next]_vars => Typed'
<1> SUFFICES ASSUME Typed, [Next]_vars PROVE Typed'
  OBVIOUS
<1> QED BY MemoryTypedKept, TablesTypedKept, WritesTypedKept, RequestsTypedKept,
           OperatorTypedKept DEF Typed

THEOREM TypedInvariant == Spec => []Typed
<1> QED BY TypedKept, InitTyped, PTL DEF Spec

\* Every reachable state of a custom provider is well typed: its keys are
\* distinct, in memory and in the table, and the index they share names one.
THEOREM TypeCorrect == Spec => []TypeOK
<1>1. Typed => TypeOK
  BY DEF Typed, TypeOK, MemoryTyped, TablesTyped, WritesTyped, RequestsTyped, OperatorTyped
<1> QED BY <1>1, TypedInvariant, PTL

(***************************************************************************)
(* Registration                                                            *)
(***************************************************************************)
\* Unless two removals overlapped or one lost its last reply, there is at most
\* one, of a provider that is registered, and a provider that is or is about to
\* be registered has its row.
RegistrationInv ==
    ~disturbed =>
        /\ registered \/ adding => providerRow
        /\ \A d \in Removers : removing[d] # "idle" => registered
        /\ \A d, e \in Removers : removing[d] # "idle" /\ removing[e] # "idle" => d = e

LEMMA RegistrationKept == Typed /\ RegistrationInv /\ [Next]_vars => RegistrationInv'
<1> SUFFICES ASSUME Typed, RegistrationInv, [Next]_vars, ~disturbed' PROVE RegistrationInv'
  BY DEF RegistrationInv
<1> USE DEF Typed, OperatorTyped
<1>1. ASSUME UNCHANGED <<registered, operator, providerRow, disturbed>> PROVE RegistrationInv'
  BY <1>1 DEF RegistrationInv, operator
<1>2. ASSUME NEW r \in Reqs, Serve(r) PROVE RegistrationInv'
  BY <1>1, <1>2 DEF Serve, Dispatch, Start, Settle, Retry, ForwardJson, ForwardMultipart,
        Forwarded, ForwardFails, memory, tables
<1>3. CASE CooldownEnds \/ (\E w \in Write : Perform(w)) \/ UNCHANGED vars
  BY <1>1, <1>3 DEF CooldownEnds, Perform, vars, memory, tables, history
<1>4. ASSUME NEW k \in Keys, AddApiKey(k) \/ RemoveCustomKey(k) PROVE RegistrationInv'
  BY <1>1, <1>4 DEF AddApiKey, RemoveCustomKey, tables
<1>5. CASE Restart
  <2>1. /\ registered' = providerRow /\ providerRow' = providerRow /\ adding' = FALSE
        /\ \A d \in Removers : removing'[d] = "idle"
    BY <1>5 DEF Restart, Load, tables
  <2> QED BY <2>1 DEF RegistrationInv
<1>6. CASE InsertProvider
  <2>1. /\ providerRow' = TRUE /\ registered' = registered /\ removing' = removing
        /\ disturbed' = disturbed
    BY <1>6 DEF InsertProvider, memory, history
  <2> QED BY <2>1 DEF RegistrationInv
<1>7. CASE RegisterProvider
  <2>1. /\ adding /\ registered' = TRUE /\ providerRow' = providerRow /\ removing' = removing
        /\ disturbed' = disturbed
    BY <1>7 DEF RegisterProvider, tables, history
  <2> QED BY <2>1 DEF RegistrationInv
<1>8. ASSUME NEW d \in Removers, RemoveProvider(d) PROVE RegistrationInv'
  <2>1. /\ registered /\ UNCHANGED <<registered, providerRow, adding>>
        /\ removing' = [removing EXCEPT ![d] = "keys"]
        /\ ~disturbed /\ Removing = {}
    BY <1>8 DEF RemoveProvider, memory, tables
  <2>2. \A e \in Removers : removing[e] = "idle"
    BY <2>1 DEF Removing
  <2> QED BY <2>1, <2>2 DEF RegistrationInv
<1>9. ASSUME NEW d \in Removers, DeleteKeyRows(d) PROVE RegistrationInv'
  <2>1. /\ removing[d] = "keys" /\ UNCHANGED <<registered, providerRow, adding, disturbed>>
        /\ removing' = [removing EXCEPT ![d] = "provider"]
    BY <1>9 DEF DeleteKeyRows, memory, history
  <2> QED BY <2>1 DEF RegistrationInv
<1>10. ASSUME NEW d \in Removers, DeleteProviderRow(d) PROVE RegistrationInv'
  <2>1. /\ removing[d] = "provider" /\ UNCHANGED <<adding, disturbed>>
        /\ removing' = [removing EXCEPT ![d] = "idle"]
        /\ registered' = FALSE
    BY <1>10 DEF DeleteProviderRow
  <2>2. registered /\ \A e \in Removers : removing'[e] = "idle"
    BY <2>1 DEF RegistrationInv
  <2> QED BY <2>1, <2>2 DEF RegistrationInv
<1>11. ASSUME NEW d \in Removers, RemovalFails(d) PROVE RegistrationInv'
  <2>1. /\ UNCHANGED <<registered, providerRow, adding, disturbed>>
        /\ removing' = [removing EXCEPT ![d] = "idle"]
    BY <1>11 DEF RemovalFails, memory, tables
  <2> QED BY <2>1 DEF RegistrationInv
<1>12. CASE AddProviderFails
  <2>1. /\ UNCHANGED <<registered, providerRow, removing, disturbed>> /\ adding' = FALSE
    BY <1>12 DEF AddProviderFails, memory, tables
  <2> QED BY <2>1 DEF RegistrationInv
<1> QED BY <1>12, <1>2, <1>3, <1>4, <1>5, <1>6, <1>7, <1>8, <1>9, <1>10, <1>11 DEF Next, Operator

LEMMA InitRegistration == Init => RegistrationInv
<1> SUFFICES ASSUME Init PROVE RegistrationInv
  OBVIOUS
<1>1. /\ registered = providerRow /\ adding = FALSE
      /\ removing = [d \in Removers |-> "idle"]
  BY Zenon DEF Init
<1> QED BY <1>1 DEF RegistrationInv

THEOREM RegistrationInvariant == Spec => [](Typed /\ RegistrationInv)
<1> QED BY InitTyped, TypedKept, InitRegistration, RegistrationKept, PTL DEF Spec

\* A provider that requests can reach has its row, whatever crashes, fails or
\* is added again, unless two removals overlapped or one lost its last reply.
THEOREM RegisteredSaved == Spec => []RegisteredIsSaved
<1>1. RegistrationInv => RegisteredIsSaved
  BY DEF RegistrationInv, RegisteredIsSaved
<1> QED BY <1>1, RegistrationInvariant, PTL

(***************************************************************************)
(* The table and memory                                                    *)
(***************************************************************************)
\* A removal has deleted the rows of the keys and not the provider's.
RowsDropped == \E d \in Removers : removing[d] = "provider"

PendingAt(k) == {w \in DOMAIN writes : w.key = k}

\* What memory, the table and the writes under way know of key k.
KeyAgrees(k) ==
    /\ \A v, w \in PendingAt(k) : v = w
    /\ \A w \in PendingAt(k) : writes[w] = 1
    /\ Insert(k) \in PendingAt(k) => k \in Held /\ k \notin Saved /\ Removing = {}
    /\ Delete(k) \in PendingAt(k) => k \notin Held
    /\ RowsDropped => k \notin Saved
    /\ PendingAt(k) = {} /\ ~RowsDropped => (k \in Saved <=> k \in Held)

Excused(k) == k \in stray \/ failed \/ disturbed

KeysAgree == \A k \in Keys : Excused(k) \/ KeyAgrees(k)

LEMMA WriteFacts ==
    ASSUME Typed, NEW k \in Keys
    PROVE  /\ PendingAt(k) \subseteq {Insert(k), Delete(k)}
           /\ Insert(k) # Delete(k) /\ Insert(k).key = k /\ Delete(k).key = k
           /\ Insert(k) \in Write /\ Delete(k) \in Write
           /\ Pending(k) <=> PendingAt(k) # {}
<1>1. DOMAIN writes \subseteq Write
  BY DEF Typed, WritesTyped, BagToSet
<1>2. ASSUME NEW w \in Write, w.key = k PROVE w \in {Insert(k), Delete(k)}
  BY <1>2 DEF Write, Insert, Delete
<1>3. PendingAt(k) \subseteq {Insert(k), Delete(k)}
  BY <1>1, <1>2 DEF PendingAt
<1>4. /\ Insert(k) # Delete(k) /\ Insert(k).key = k /\ Delete(k).key = k
      /\ Insert(k) \in Write /\ Delete(k) \in Write
  BY DEF Insert, Delete, Write
<1>5. Pending(k) <=> PendingAt(k) # {}
  BY DEF Pending, PendingAt, BagToSet
<1> QED BY <1>3, <1>4, <1>5

\* Nothing about key k changes.
SameKey(k) ==
    /\ PendingAt(k)' = PendingAt(k)
    /\ \A w \in PendingAt(k) : writes'[w] = writes[w]
    /\ k \in Held' <=> k \in Held
    /\ k \in Saved' <=> k \in Saved

LEMMA SameKeyAgrees ==
    ASSUME NEW k, KeyAgrees(k), SameKey(k), UNCHANGED removing
    PROVE  KeyAgrees(k)'
BY DEF KeyAgrees, SameKey, RowsDropped, Removing

\* A write for one key is none for another.
LEMMA OtherKeyAdded ==
    ASSUME Typed, NEW w, writes' = writes (+) SetToBag({w}), NEW k, w.key # k
    PROVE  PendingAt(k)' = PendingAt(k) /\ \A v \in PendingAt(k) : writes'[v] = writes[v]
<1> DEFINE more == writes (+) SetToBag({w})
<1>1. DOMAIN more = DOMAIN writes \cup {w} /\ \A v \in DOMAIN writes \ {w} : more[v] = writes[v]
  BY BagAdd DEF Typed, WritesTyped
<1> HIDE DEF more
<1>2. DOMAIN writes' = DOMAIN writes \cup {w}
      /\ \A v \in DOMAIN writes \ {w} : writes'[v] = writes[v]
  BY <1>1 DEF more
<1>3. PendingAt(k)' = PendingAt(k)
  BY <1>2 DEF PendingAt
<1>4. ASSUME NEW v \in PendingAt(k) PROVE writes'[v] = writes[v]
  <2>1. v \in DOMAIN writes \ {w}
    BY DEF PendingAt
  <2> QED BY <1>2, <2>1
<1> QED BY <1>3, <1>4

LEMMA OtherKeyPerformed ==
    ASSUME Typed, NEW w \in DOMAIN writes, writes' = writes (-) SetToBag({w}), NEW k, w.key # k
    PROVE  PendingAt(k)' = PendingAt(k) /\ \A v \in PendingAt(k) : writes'[v] = writes[v]
<1> DEFINE fewer == writes (-) SetToBag({w})
<1>1. /\ DOMAIN fewer \subseteq DOMAIN writes /\ DOMAIN writes \ {w} \subseteq DOMAIN fewer
      /\ \A v \in DOMAIN writes \ {w} : fewer[v] = writes[v]
  BY BagRemove DEF Typed, WritesTyped
<1> HIDE DEF fewer
<1>2. writes' = fewer
  BY DEF fewer
<1> QED BY <1>1, <1>2 DEF PendingAt

\* The first write for key k.
LEMMA FirstWrite ==
    ASSUME Typed, NEW w, writes' = writes (+) SetToBag({w}), PendingAt(w.key) = {}
    PROVE  PendingAt(w.key)' = {w} /\ writes'[w] = 1
<1> DEFINE more == writes (+) SetToBag({w})
<1>1. w \notin DOMAIN writes
  BY DEF PendingAt
<1>2. DOMAIN more = DOMAIN writes \cup {w} /\ more[w] = 1
  BY <1>1, BagAdd DEF Typed, WritesTyped
<1> HIDE DEF more
<1>3. writes' = more
  BY DEF more
<1>4. PendingAt(w.key)' = {w}
  BY <1>2, <1>3 DEF PendingAt
<1> QED BY <1>2, <1>3, <1>4

\* The last write for key k.
LEMMA LastWrite ==
    ASSUME Typed, NEW w \in DOMAIN writes, writes' = writes (-) SetToBag({w}),
           \A v \in PendingAt(w.key) : v = w, writes[w] = 1
    PROVE  PendingAt(w.key)' = {}
<1> DEFINE fewer == writes (-) SetToBag({w})
<1>1. DOMAIN fewer \subseteq DOMAIN writes /\ w \notin DOMAIN fewer
  BY BagRemove DEF Typed, WritesTyped
<1> HIDE DEF fewer
<1>2. writes' = fewer
  BY DEF fewer
<1> QED BY <1>1, <1>2 DEF PendingAt

LEMMA AddKeepsAgreement ==
    ASSUME Typed, KeysAgree, NEW k \in Keys, AddApiKey(k), NEW j \in Keys, ~Excused(j)'
    PROVE  KeyAgrees(j)'
<1>1. /\ k \notin Held /\ keys' = Append(keys, k) /\ keyRows' = keyRows
      /\ writes' = writes (+) SetToBag({Insert(k)})
      /\ stray' = IF Pending(k) \/ Removing # {} THEN stray \cup {k} ELSE stray
      /\ removing' = removing /\ failed' = failed /\ disturbed' = disturbed
  BY DEF AddApiKey, tables, operator
<1>2. KeyAgrees(j)
  BY <1>1 DEF KeysAgree, Excused
<1>3. Held' = Held \cup {k} /\ Saved' = Saved
  BY <1>1, HeldIsElems, AppendFacts DEF Typed, MemoryTyped
<1>4. CASE j # k
  <2>1. Insert(k).key # j
    BY <1>4, WriteFacts
  <2>2. PendingAt(j)' = PendingAt(j) /\ \A v \in PendingAt(j) : writes'[v] = writes[v]
    BY <1>1, <2>1, OtherKeyAdded
  <2>3. SameKey(j)
    BY <1>3, <1>4, <2>2 DEF SameKey
  <2> QED BY <1>1, <1>2, <2>3, SameKeyAgrees
<1>5. CASE j = k
  <2>1. PendingAt(k) = {} /\ Removing = {}
    BY <1>1, <1>5, WriteFacts DEF Excused
  <2>2. ~RowsDropped /\ ~RowsDropped' /\ Removing' = {}
    BY <1>1, <2>1 DEF RowsDropped, Removing
  <2>3. k \notin Saved
    BY <1>1, <1>2, <1>5, <2>1, <2>2 DEF KeyAgrees
  <2>4. PendingAt(k)' = {Insert(k)} /\ writes'[Insert(k)] = 1
    BY <1>1, <2>1, FirstWrite, WriteFacts
  <2> QED BY <1>3, <1>5, <2>2, <2>3, <2>4, WriteFacts DEF KeyAgrees
<1> QED BY <1>4, <1>5

LEMMA RemoveKeepsAgreement ==
    ASSUME Typed, KeysAgree, NEW k \in Keys, RemoveCustomKey(k), NEW j \in Keys, ~Excused(j)'
    PROVE  KeyAgrees(j)'
<1>1. /\ k \in Held /\ keys' = Without(keys, k) /\ keyRows' = keyRows
      /\ writes' = writes (+) SetToBag({Delete(k)})
      /\ stray' = IF Pending(k) THEN stray \cup {k} ELSE stray
      /\ removing' = removing /\ failed' = failed /\ disturbed' = disturbed
  BY DEF RemoveCustomKey, tables, operator
<1>2. KeyAgrees(j)
  BY <1>1 DEF KeysAgree, Excused
<1>3. Held' = Held \ {k} /\ Saved' = Saved
  BY <1>1, HeldIsElems, WithoutFacts DEF Typed, MemoryTyped
<1>4. CASE j # k
  <2>1. Delete(k).key # j
    BY <1>4, WriteFacts
  <2>2. PendingAt(j)' = PendingAt(j) /\ \A v \in PendingAt(j) : writes'[v] = writes[v]
    BY <1>1, <2>1, OtherKeyAdded
  <2>3. SameKey(j)
    BY <1>3, <1>4, <2>2 DEF SameKey
  <2> QED BY <1>1, <1>2, <2>3, SameKeyAgrees
<1>5. CASE j = k
  <2>1. PendingAt(k) = {}
    BY <1>1, <1>5, WriteFacts DEF Excused
  <2>2. RowsDropped' = RowsDropped
    BY <1>1 DEF RowsDropped
  <2>3. RowsDropped => k \notin Saved
    BY <1>2, <1>5 DEF KeyAgrees
  <2>4. PendingAt(k)' = {Delete(k)} /\ writes'[Delete(k)] = 1
    BY <1>1, <2>1, FirstWrite, WriteFacts
  <2> QED BY <1>3, <1>5, <2>2, <2>3, <2>4, WriteFacts DEF KeyAgrees
<1> QED BY <1>4, <1>5

LEMMA PerformKeepsAgreement ==
    ASSUME Typed, KeysAgree, NEW w \in Write, Perform(w), NEW j \in Keys, ~Excused(j)'
    PROVE  KeyAgrees(j)'
<1>1. /\ w \in DOMAIN writes /\ writes' = writes (-) SetToBag({w})
      /\ keys' = keys /\ removing' = removing /\ stray' = stray /\ disturbed' = disturbed
      /\ \/ /\ keyRows' = IF w.op = "delete" THEN Without(keyRows, w.key)
                          ELSE IF w.key \in Saved THEN keyRows
                          ELSE Append(keyRows, w.key)
            /\ failed' = failed
         \/ failed' = TRUE
  BY DEF Perform, memory, operator, BagToSet
<1>2. /\ keyRows' = IF w.op = "delete" THEN Without(keyRows, w.key)
                    ELSE IF w.key \in Saved THEN keyRows
                    ELSE Append(keyRows, w.key)
      /\ failed' = failed
  BY <1>1 DEF Excused
<1>3. KeyAgrees(j)
  BY <1>1, <1>2 DEF KeysAgree, Excused
<1> DEFINE k == w.key
<1>4. k \in Keys /\ w \in {Insert(k), Delete(k)} /\ w \in PendingAt(k)
  BY <1>1, WriteFacts DEF Write, Insert, Delete, PendingAt
<1>5. /\ Held' = Held
      /\ Saved' = IF w.op = "delete" THEN Saved \ {k} ELSE Saved \cup {k}
  <2>1. keyRows \in Seq(Keys) /\ IsInjective(keyRows)
    BY DEF Typed, TablesTyped
  <2>2. Elems(Without(keyRows, k)) = Elems(keyRows) \ {k}
    BY <2>1, WithoutFacts
  <2>3. k \notin Elems(keyRows) => Elems(Append(keyRows, k)) = Elems(keyRows) \cup {k}
    BY <1>4, <2>1, AppendFacts
  <2> QED BY <1>1, <1>2, <2>2, <2>3, HeldIsElems
<1> HIDE DEF k
<1>6. CASE j # k
  <2>1. SameKey(j)
    BY <1>1, <1>5, <1>6, OtherKeyPerformed DEF SameKey, k
  <2> QED BY <1>1, <1>3, <2>1, SameKeyAgrees
<1>7. CASE j = k
  <2>1. (\A v \in PendingAt(k) : v = w) /\ writes[w] = 1
    BY <1>3, <1>4, <1>7 DEF KeyAgrees
  <2>2. PendingAt(k)' = {}
    BY <1>1, <2>1, LastWrite DEF k
  <2>3. RowsDropped' = RowsDropped
    BY <1>1 DEF RowsDropped
  <2>4. CASE w = Insert(k)
    <3>1. w.op = "insert" /\ k \in Held /\ Removing = {}
      BY <1>3, <1>4, <1>7, <2>4 DEF KeyAgrees, Insert
    <3>2. ~RowsDropped /\ k \in Saved'
      BY <1>5, <3>1 DEF RowsDropped, Removing
    <3> QED BY <1>5, <1>7, <2>2, <2>3, <3>1, <3>2 DEF KeyAgrees
  <2>5. CASE w = Delete(k)
    <3>1. w.op = "delete" /\ k \notin Held
      BY <1>3, <1>4, <1>7, <2>5 DEF KeyAgrees, Delete
    <3> QED BY <1>5, <1>7, <2>2, <3>1 DEF KeyAgrees
  <2> QED BY <1>4, <2>4, <2>5
<1> QED BY <1>6, <1>7

\* A step that changes no key and no write.
LEMMA QuietKeepsAgreement ==
    ASSUME KeysAgree, UNCHANGED <<keys, keyRows, writes, removing, failed, disturbed>>,
           stray \subseteq stray', NEW j \in Keys, ~Excused(j)'
    PROVE  KeyAgrees(j)'
<1>1. KeyAgrees(j)
  BY DEF KeysAgree, Excused
<1>2. SameKey(j)
  BY DEF SameKey, PendingAt, Held, Saved
<1> QED BY <1>1, <1>2, SameKeyAgrees

LEMMA RemovalKeepsAgreement ==
    ASSUME Typed, RegistrationInv, KeysAgree, NEW d \in Removers,
           RemoveProvider(d) \/ DeleteKeyRows(d) \/ DeleteProviderRow(d) \/ RemovalFails(d),
           NEW j \in Keys, ~Excused(j)'
    PROVE  KeyAgrees(j)'
<1> USE DEF Typed, OperatorTyped
<1>1. writes' = writes /\ PendingAt(j)' = PendingAt(j)
  BY DEF RemoveProvider, DeleteKeyRows, DeleteProviderRow, RemovalFails, PendingAt
<1>2. ASSUME RemoveProvider(d) PROVE KeyAgrees(j)'
  <2>1. /\ keys' = keys /\ keyRows' = keyRows /\ failed' = failed
        /\ removing' = [removing EXCEPT ![d] = "keys"]
        /\ disturbed' = (disturbed \/ Removing # {})
        /\ stray' = stray \cup {k \in Keys : Pending(k)}
    BY <1>2 DEF RemoveProvider, memory, tables
  <2>2. PendingAt(j) = {} /\ Removing = {} /\ ~Excused(j)
    BY <2>1, WriteFacts DEF Excused
  <2>3. ~RowsDropped /\ ~RowsDropped'
    BY <2>1, <2>2 DEF RowsDropped, Removing
  <2>4. Held' = Held /\ Saved' = Saved
    BY <2>1 DEF Held, Saved
  <2> QED BY <1>1, <2>2, <2>3, <2>4 DEF KeysAgree, KeyAgrees
<1>3. ASSUME DeleteKeyRows(d) PROVE KeyAgrees(j)'
  <2>1. /\ removing[d] = "keys" /\ keys' = keys /\ keyRows' = <<>>
        /\ removing' = [removing EXCEPT ![d] = "provider"]
        /\ UNCHANGED <<failed, disturbed, stray>>
    BY <1>3 DEF DeleteKeyRows, memory, history
  <2>2. KeyAgrees(j)
    BY <2>1 DEF KeysAgree, Excused
  <2>3. Held' = Held /\ Saved' = {} /\ RowsDropped'
    BY <2>1 DEF Held, Saved, RowsDropped
  <2>4. Removing # {}
    BY <2>1 DEF Removing
  <2> QED BY <1>1, <2>2, <2>3, <2>4 DEF KeyAgrees
<1>4. ASSUME DeleteProviderRow(d) PROVE KeyAgrees(j)'
  <2>1. /\ removing[d] = "provider" /\ keys' = <<>> /\ keyRows' = keyRows
        /\ removing' = [removing EXCEPT ![d] = "idle"]
        /\ UNCHANGED <<failed, disturbed, stray>>
    BY <1>4 DEF DeleteProviderRow
  <2>2. KeyAgrees(j) /\ ~disturbed
    BY <2>1 DEF KeysAgree, Excused
  <2>3. RowsDropped /\ Removing # {} /\ j \notin Saved
    BY <2>1, <2>2 DEF RowsDropped, Removing, KeyAgrees
  <2>4. \A e \in Removers : removing'[e] = "idle"
    BY <2>1, <2>2 DEF RegistrationInv
  <2>5. ~RowsDropped' /\ Held' = {} /\ Saved' = Saved
    BY <2>1, <2>4 DEF RowsDropped, Held, Saved
  <2> QED BY <1>1, <2>2, <2>3, <2>5 DEF KeyAgrees
<1>5. ~RemovalFails(d)
  BY DEF RemovalFails, Excused
<1> QED BY <1>2, <1>3, <1>4, <1>5

\* The process starts with what the table holds.
LEMMA RestartKeepsAgreement ==
    ASSUME Restart, NEW j \in Keys, ~Excused(j)'
    PROVE  KeyAgrees(j)'
<1>1. /\ writes' = EmptyBag /\ keyRows' = keyRows
      /\ keys' = IF providerRow THEN keyRows ELSE <<>>
      /\ stray' = IF providerRow THEN {} ELSE Saved
      /\ \A d \in Removers : removing'[d] = "idle"
  BY DEF Restart, Load, tables
<1>2. PendingAt(j)' = {}
  BY <1>1 DEF PendingAt, EmptyBag, SetToBag
<1>3. ~RowsDropped' /\ Saved' = Saved
  BY <1>1 DEF RowsDropped, Saved
<1>4. j \in Saved' <=> j \in Held'
  <2>1. CASE providerRow
    BY <1>1, <2>1 DEF Saved, Held
  <2>2. CASE ~providerRow
    BY <1>1, <1>3, <2>2 DEF Held, Excused
  <2> QED BY <2>1, <2>2
<1> QED BY <1>2, <1>3, <1>4 DEF KeyAgrees

LEMMA AgreementKept == Typed /\ RegistrationInv /\ KeysAgree /\ [Next]_vars => KeysAgree'
<1> SUFFICES ASSUME Typed, RegistrationInv, KeysAgree, [Next]_vars,
                    NEW j \in Keys, ~Excused(j)'
             PROVE  KeyAgrees(j)'
  BY DEF KeysAgree
<1>1. ASSUME NEW r \in Reqs, Serve(r) PROVE KeyAgrees(j)'
  <2>1. UNCHANGED <<keys, keyRows, writes, removing, failed, disturbed, stray>>
    BY <1>1 DEF Serve, Dispatch, Start, Settle, Retry, ForwardJson, ForwardMultipart,
        Forwarded, ForwardFails, memory, tables, operator
  <2> QED BY <2>1, QuietKeepsAgreement
<1>2. CASE CooldownEnds \/ InsertProvider \/ UNCHANGED vars
  <2>1. UNCHANGED <<keys, keyRows, writes, removing, failed, disturbed, stray>>
    BY <1>2 DEF CooldownEnds, InsertProvider, vars, memory, tables, operator, history
  <2> QED BY <2>1, QuietKeepsAgreement
<1>3. CASE RegisterProvider
  <2>1. /\ adding /\ keys' = <<>>
        /\ UNCHANGED <<keyRows, writes, removing, failed, disturbed, stray>>
    BY <1>3 DEF RegisterProvider, tables, history
  <2>2. keys' = keys
    BY <2>1 DEF Typed, MemoryTyped, OperatorTyped
  <2> QED BY <2>1, <2>2, QuietKeepsAgreement
<1>4. ~AddProviderFails
  BY DEF AddProviderFails, Excused
<1> QED BY <1>1, <1>2, <1>3, <1>4, AddKeepsAgreement, RemoveKeepsAgreement, PerformKeepsAgreement,
           RemovalKeepsAgreement, RestartKeepsAgreement DEF Next, Operator

LEMMA InitAgreement == Init => KeysAgree
<1> SUFFICES ASSUME Init, NEW k \in Keys PROVE KeyAgrees(k)
  BY DEF KeysAgree
<1>1. keys = keyRows /\ writes = EmptyBag /\ removing = [d \in Removers |-> "idle"]
  BY Zenon DEF Init
<1>2. PendingAt(k) = {} /\ ~RowsDropped /\ Held = Saved
  BY <1>1 DEF PendingAt, EmptyBag, SetToBag, RowsDropped, Held, Saved
<1> QED BY <1>2 DEF KeyAgrees

\* When all is quiet a restart would find the keys the process has, apart from
\* those whose writes ran side by side with others.
THEOREM QuietTableMatches == Spec => []QuietTableMatchesMemory
<1>1. Typed /\ KeysAgree => QuietTableMatchesMemory
  <2> SUFFICES ASSUME Typed, KeysAgree, writes = EmptyBag, Removing = {}, ~failed, ~disturbed
               PROVE  Saved \ stray = Held \ stray
    BY DEF QuietTableMatchesMemory
  <2>1. Saved \subseteq Keys /\ Held \subseteq Keys
    BY DEF Typed, MemoryTyped, TablesTyped, Saved, Held
  <2>2. ~RowsDropped
    BY DEF RowsDropped, Removing
  <2>3. ASSUME NEW k \in Keys \ stray PROVE k \in Saved <=> k \in Held
    <3>1. PendingAt(k) = {}
      BY DEF PendingAt, EmptyBag, SetToBag
    <3> QED BY <2>2, <2>3, <3>1 DEF KeysAgree, KeyAgrees, Excused
  <2> QED BY <2>1, <2>3
<1> QED BY <1>1, InitAgreement, AgreementKept, RegistrationInvariant, PTL DEF Spec

(***************************************************************************)
(* Requests that nothing interferes with                                   *)
(***************************************************************************)
\* The rest of the request's plan is the list from the current key on.
FollowsIndex(r) ==
    /\ phase[r] # "idle" /\ keys # <<>> /\ registered
    /\ \A q \in Reqs : phase[q] # "idle" => q = r
    /\ pos[r] \in 1..Len(plan[r])
    /\ \A i \in Nat : pos[r] + i <= Len(plan[r]) =>
            plan[r][pos[r] + i] = keys[((idx + i) % Len(keys)) + 1]

LoneInv == \A r \in alone : FollowsIndex(r)

\* Walking on from the next index is walking on by one more.
LEMMA NextIndexWalks ==
    ASSUME NEW ks \in Seq(Keys), ks # <<>>, NEW i \in Nat, i < Len(ks), NEW j \in Nat
    PROVE  (RotatedIndex(ks, i) + j) % Len(ks) = (i + (j + 1)) % Len(ks)
<1>1. Len(ks) \in Nat /\ Len(ks) > 0
  OBVIOUS
<1>2. CASE Len(ks) = 1
  <2>1. \A n \in Nat : n % 1 = 0
    OBVIOUS
  <2>2. RotatedIndex(ks, i) = i
    BY <1>2 DEF RotatedIndex
  <2> QED BY <1>2, <2>1, <2>2
<1>3. CASE Len(ks) > 1 /\ i + 1 < Len(ks)
  <2>1. RotatedIndex(ks, i) = i + 1
    BY <1>1, <1>3 DEF RotatedIndex
  <2> QED BY <1>1, <1>3, <2>1
<1>4. CASE Len(ks) > 1 /\ i + 1 = Len(ks)
  <2>1. RotatedIndex(ks, i) = 0
    BY <1>1, <1>4 DEF RotatedIndex
  <2>2. i + (j + 1) = j + Len(ks)
    BY <1>1, <1>4
  <2>3. (j + Len(ks)) % Len(ks) = j % Len(ks)
    BY <1>1, WrapAround
  <2> QED BY <2>1, <2>2, <2>3
<1>5. Len(ks) = 1 \/ (Len(ks) > 1 /\ i + 1 < Len(ks)) \/ (Len(ks) > 1 /\ i + 1 = Len(ks))
  <2>1. \A n \in Nat : n > 0 /\ i < n => n = 1 \/ (n > 1 /\ i + 1 < n) \/ (n > 1 /\ i + 1 = n)
    OBVIOUS
  <2>2. i < Len(ks)
    OBVIOUS
  <2> QED BY <1>1, <2>1, <2>2, Zenon
<1> QED BY <1>2, <1>3, <1>4, <1>5

\* A request that starts alone begins with the current key.
LEMMA StartFollows ==
    ASSUME Typed, LoneInv, NEW r \in Reqs, NEW kind \in {"walk", "json", "multipart"},
           NEW ks \in {Snapshot, <<Current>>}, Start(r, kind, ks)
    PROVE  LoneInv'
<1> USE DEF Typed, RequestsTyped, MemoryTyped
<1>1. /\ phase[r] = "idle" /\ registered /\ keys # <<>>
      /\ phase' = [phase EXCEPT ![r] = kind]
      /\ plan' = [plan EXCEPT ![r] = ks] /\ pos' = [pos EXCEPT ![r] = 1]
      /\ alone' = IF Busy = {} THEN {r} ELSE {}
      /\ registered' = registered /\ keys' = keys /\ idx' = idx
  BY DEF Start, memory
<1>2. CASE Busy # {}
  BY <1>1, <1>2 DEF LoneInv
<1>3. CASE Busy = {}
  <2>1. \A q \in Reqs : phase[q] = "idle"
    BY <1>3 DEF Busy
  <2>2. Len(keys) \in Nat /\ Len(keys) > 0 /\ idx \in Nat
    BY <1>1
  <2>3. /\ 1 \in 1..Len(ks)
        /\ \A i \in Nat : 1 + i <= Len(ks) => ks[1 + i] = keys[((idx + i) % Len(keys)) + 1]
    <3>1. CASE ks = Snapshot
      <4>1. Len(ks) = Len(keys)
        BY <2>2, <3>1 DEF Snapshot
      <4>2. ASSUME NEW i \in Nat, 1 + i <= Len(keys)
            PROVE  Snapshot[1 + i] = keys[((idx + i) % Len(keys)) + 1]
        <5>1. 1 + i \in 1..Len(keys) /\ idx + (1 + i) - 1 = idx + i
          BY <2>2, <4>2
        <5> QED BY <5>1 DEF Snapshot
      <4> QED BY <2>2, <3>1, <4>1, <4>2
    <3>2. CASE ks = <<Current>>
      <4>1. Len(ks) = 1 /\ ks[1] = keys[(idx % Len(keys)) + 1]
        BY <1>1, <3>2 DEF Current
      <4>2. \A i \in Nat : 1 + i <= 1 => i = 0 /\ 1 + i = 1 /\ idx + i = idx
        BY <2>2
      <4> QED BY <4>1, <4>2
    <3> QED BY <3>1, <3>2
  <2>4. phase'[r] # "idle" /\ \A q \in Reqs : phase'[q] # "idle" => q = r
    BY <1>1, <2>1
  <2>5. plan'[r] = ks /\ pos'[r] = 1
    BY <1>1
  <2>6. FollowsIndex(r)'
    BY <1>1, <2>3, <2>4, <2>5 DEF FollowsIndex
  <2> QED BY <1>1, <1>3, <2>6 DEF LoneInv
<1> QED BY <1>2, <1>3

\* A retry moves the request and the index together.
LEMMA RetryFollows ==
    ASSUME Typed, LoneInv, NEW r \in Reqs, phase[r] = "walk", pos[r] < Len(plan[r]), Rotate,
           pos' = [pos EXCEPT ![r] = @ + 1], UNCHANGED <<phase, plan, alone, registered, keys>>
    PROVE  LoneInv'
<1> SUFFICES ASSUME NEW q \in alone PROVE FollowsIndex(q)'
  BY DEF LoneInv
<1>1. FollowsIndex(r) /\ q = r
  BY DEF LoneInv, FollowsIndex
<1>2. keys \in Seq(Keys) /\ keys # <<>> /\ idx \in Nat /\ idx < Len(keys) /\ Len(keys) \in Nat
  BY <1>1 DEF FollowsIndex, Typed, MemoryTyped
<1>3. pos[r] \in Nat /\ pos'[r] = pos[r] + 1 /\ Len(plan[r]) \in Int
  <2>1. pos[r] \in 1..Len(plan[r])
    BY <1>1 DEF FollowsIndex
  <2>2. pos[r] \in Nat /\ pos'[r] = pos[r] + 1
    BY DEF Typed, RequestsTyped
  <2> QED BY <2>1, <2>2
<1>4. ASSUME NEW i \in Nat, pos'[r] + i <= Len(plan[r])
      PROVE  plan[r][pos'[r] + i] = keys[((idx' + i) % Len(keys)) + 1]
  <2>1. pos[r] + (i + 1) <= Len(plan[r]) /\ pos'[r] + i = pos[r] + (i + 1) /\ i + 1 \in Nat
    BY <1>3, <1>4
  <2>2. plan[r][pos[r] + (i + 1)] = keys[((idx + (i + 1)) % Len(keys)) + 1]
    BY <1>1, <2>1 DEF FollowsIndex
  <2>3. (idx' + i) % Len(keys) = (idx + (i + 1)) % Len(keys)
    BY <1>2, NextIndexWalks DEF Rotate
  <2> QED BY <2>1, <2>2, <2>3
<1>5. pos'[r] \in 1..Len(plan[r])
  BY <1>1, <1>3 DEF FollowsIndex
<1> QED BY <1>1, <1>4, <1>5 DEF FollowsIndex

LEMMA LoneKept == Typed /\ LoneInv /\ [Next]_vars => LoneInv'
<1> SUFFICES ASSUME Typed, LoneInv, [Next]_vars PROVE LoneInv'
  OBVIOUS
<1>1. CASE alone' = {}
  BY <1>1 DEF LoneInv
<1>2. ASSUME UNCHANGED <<memory, reqVars, alone>> PROVE LoneInv'
  BY <1>2 DEF LoneInv, FollowsIndex, memory, reqVars
<1>3. ASSUME NEW r \in Reqs, phase[r] # "idle", Finish(r) PROVE LoneInv'
  <2>1. alone \subseteq {r}
    BY <1>3 DEF LoneInv, FollowsIndex
  <2>2. alone' = {}
    BY <1>3, <2>1 DEF Finish
  <2> QED BY <1>1, <2>2
<1>4. ASSUME NEW r \in Reqs, Serve(r) PROVE LoneInv'
  <2>1. CASE Dispatch(r) \/ ForwardJson(r) \/ ForwardMultipart(r)
    BY <2>1, StartFollows DEF Dispatch, ForwardJson, ForwardMultipart
  <2>2. CASE Retry(r)
    BY <1>3, <2>2, RetryFollows DEF Retry
  <2>3. CASE Settle(r) \/ Forwarded(r) \/ \E limited \in BOOLEAN : ForwardFails(r, limited)
    <3>1. phase[r] # "idle" /\ Finish(r)
      BY <2>3 DEF Settle, Forwarded, ForwardFails
    <3> QED BY <1>3, <3>1
  <2> QED BY <1>4, <2>1, <2>2, <2>3 DEF Serve
<1>5. CASE Operator
  <2>1. CASE RegisterProvider
    <3>1. ~registered /\ alone' = alone
      BY <2>1 DEF RegisterProvider, history, Typed, OperatorTyped
    <3>2. alone = {}
      BY <3>1 DEF LoneInv, FollowsIndex
    <3> QED BY <1>1, <3>1, <3>2
  <2>2. CASE InsertProvider \/ AddProviderFails \/ \E d \in Removers : DeleteKeyRows(d) \/ RemovalFails(d)
    BY <1>2, <2>2 DEF InsertProvider, AddProviderFails, DeleteKeyRows, RemovalFails, history
  <2> QED BY <1>1, <1>5, <2>1, <2>2 DEF Operator, AddApiKey, RemoveCustomKey, RemoveProvider,
        DeleteProviderRow
<1>6. CASE Restart
  BY <1>1, <1>6 DEF Restart
<1>7. CASE CooldownEnds \/ (\E w \in Write : Perform(w)) \/ UNCHANGED vars
  BY <1>2, <1>7 DEF CooldownEnds, Perform, vars, history
<1> QED BY <1>4, <1>5, <1>6, <1>7 DEF Next

\* A request that nothing interferes with leaves the shared index on the key
\* that answered it, for any number of keys.
THEOREM LoneRequestFollowed == Spec => []LoneRequestLandsOnCurrent
<1>1. Init => LoneInv
  BY DEF Init, LoneInv
<1>2. Typed /\ LoneInv => LoneRequestLandsOnCurrent
  <2> SUFFICES ASSUME Typed, LoneInv, NEW r \in alone PROVE plan[r][pos[r]] = Current
    BY DEF LoneRequestLandsOnCurrent
  <2>1. FollowsIndex(r) /\ pos[r] \in Nat /\ idx \in Nat
    BY DEF LoneInv, Typed, RequestsTyped, MemoryTyped
  <2>2. pos[r] + 0 = pos[r] /\ idx + 0 = idx /\ pos[r] + 0 <= Len(plan[r])
    BY <2>1 DEF FollowsIndex
  <2>3. plan[r][pos[r] + 0] = keys[((idx + 0) % Len(keys)) + 1]
    BY <2>1, <2>2 DEF FollowsIndex
  <2> QED BY <2>1, <2>2, <2>3 DEF FollowsIndex, Current
<1> QED BY <1>1, <1>2, LoneKept, TypedInvariant, PTL DEF Spec

(***************************************************************************)
(* A walk gets shorter                                                     *)
(***************************************************************************)
\* Attempts a request has left: the one in hand and those of its snapshot.
StepsLeft(r) == IF phase[r] = "idle" THEN 0 ELSE 1 + Len(plan[r]) - pos[r]

\* However often the operator adds and removes keys meanwhile, every step of a
\* request under way uses up one of the attempts its snapshot allowed it, and
\* no step of anybody else gives it more: a request ends after as many attempts
\* as the provider had keys when it began.
WalksGetShorter ==
    /\ [](\A r \in Reqs : StepsLeft(r) \in Nat)
    /\ [][\A r \in Reqs : phase[r] # "idle" =>
              UNCHANGED <<phase[r], plan[r], pos[r]>> \/ StepsLeft(r)' < StepsLeft(r)]_vars

\* A request under way stands at a position of its snapshot.
Planned(r) == phase[r] # "idle" => Len(plan[r]) \in Nat /\ pos[r] \in 1..Len(plan[r])

PlannedInv == Typed /\ \A r \in Reqs : Planned(r)

\* A request's own step.
LEMMA ServeShortens ==
    ASSUME PlannedInv, NEW r \in Reqs, Serve(r)
    PROVE  /\ Planned(r)'
           /\ phase[r] # "idle" => StepsLeft(r)' < StepsLeft(r)
           /\ \A q \in Reqs \ {r} : UNCHANGED <<phase[q], plan[q], pos[q]>>
<1> USE DEF PlannedInv, Typed, RequestsTyped
<1>1. CASE phase[r] # "idle" /\ Finish(r)
  <2>1. phase'[r] = "idle" /\ \A q \in Reqs \ {r} : UNCHANGED <<phase[q], plan[q], pos[q]>>
    BY <1>1 DEF Finish
  <2>2. StepsLeft(r)' = 0 /\ StepsLeft(r) > 0
    BY <1>1, <2>1 DEF StepsLeft, Planned
  <2> QED BY <2>1, <2>2 DEF Planned
<1>2. ASSUME NEW kind \in {"walk", "json", "multipart"}, NEW ks, Start(r, kind, ks),
             Len(ks) \in Nat, Len(ks) > 0
      PROVE  /\ Planned(r)' /\ phase[r] = "idle"
             /\ \A q \in Reqs \ {r} : UNCHANGED <<phase[q], plan[q], pos[q]>>
  BY <1>2 DEF Start, Planned
<1>3. CASE Dispatch(r)
  <2>1. Start(r, "walk", Snapshot)
    BY <1>3 DEF Dispatch
  <2>2. keys \in Seq(Keys) /\ keys # <<>>
    BY <2>1 DEF Start, MemoryTyped
  <2>3. Len(Snapshot) = Len(keys) /\ Len(keys) \in Nat /\ Len(keys) > 0
    BY <2>2 DEF Snapshot
  <2> QED BY <1>2, <2>1, <2>3
<1>4. CASE ForwardJson(r) \/ ForwardMultipart(r)
  <2>1. Start(r, "json", <<Current>>) \/ Start(r, "multipart", <<Current>>)
    BY <1>4 DEF ForwardJson, ForwardMultipart
  <2>2. Len(<<Current>>) = 1 /\ 1 \in Nat /\ 1 > 0
    OBVIOUS
  <2> QED BY <1>2, <2>1, <2>2
<1>5. CASE Retry(r)
  <2>1. CASE pos[r] < Len(plan[r])
    <3>1. pos' = [pos EXCEPT ![r] = @ + 1] /\ UNCHANGED <<phase, plan>> /\ phase[r] = "walk"
      BY <1>5, <2>1 DEF Retry
    <3>2. Len(plan[r]) \in Nat /\ pos[r] \in Nat /\ pos'[r] = pos[r] + 1
      BY <3>1 DEF Planned
    <3>3. Planned(r)'
      BY <2>1, <3>1, <3>2 DEF Planned
    <3>4. StepsLeft(r)' < StepsLeft(r)
      BY <3>1, <3>2 DEF StepsLeft
    <3> QED BY <3>1, <3>3, <3>4
  <2>2. CASE ~(pos[r] < Len(plan[r]))
    BY <1>1, <1>5, <2>2 DEF Retry
  <2> QED BY <2>1, <2>2
<1>6. CASE Settle(r) \/ Forwarded(r) \/ \E limited \in BOOLEAN : ForwardFails(r, limited)
  BY <1>1, <1>6 DEF Settle, Forwarded, ForwardFails
<1> QED BY <1>3, <1>4, <1>5, <1>6 DEF Serve

LEMMA PlannedStep ==
    ASSUME PlannedInv, [Next]_vars
    PROVE  /\ PlannedInv'
           /\ \A r \in Reqs : phase[r] # "idle" =>
                  UNCHANGED <<phase[r], plan[r], pos[r]>> \/ StepsLeft(r)' < StepsLeft(r)
<1>1. Typed'
  BY TypedKept DEF PlannedInv
<1>2. ASSUME NEW q \in Reqs
      PROVE  /\ Planned(q)'
             /\ phase[q] # "idle" =>
                    UNCHANGED <<phase[q], plan[q], pos[q]>> \/ StepsLeft(q)' < StepsLeft(q)
  <2>1. Planned(q)
    BY DEF PlannedInv
  <2>2. CASE UNCHANGED reqVars
    BY <2>1, <2>2 DEF reqVars, Planned
  <2>3. ASSUME NEW r \in Reqs, Serve(r)
        PROVE  /\ Planned(q)'
               /\ phase[q] # "idle" =>
                      UNCHANGED <<phase[q], plan[q], pos[q]>> \/ StepsLeft(q)' < StepsLeft(q)
    <3>1. CASE r = q
      BY <2>3, <3>1, ServeShortens
    <3>2. CASE r # q
      <4>1. UNCHANGED <<phase[q], plan[q], pos[q]>>
        BY <2>3, <3>2, ServeShortens
      <4> QED BY <2>1, <4>1 DEF Planned
    <3> QED BY <3>1, <3>2
  <2>4. CASE Restart
    <3>1. phase'[q] = "idle"
      BY <2>4 DEF Restart
    <3>2. StepsLeft(q)' = 0 /\ (phase[q] # "idle" => StepsLeft(q) > 0)
      BY <2>1, <3>1 DEF StepsLeft, Planned
    <3> QED BY <3>1, <3>2 DEF Planned
  <2>5. CASE Operator
    BY <2>2, <2>5 DEF Operator, AddApiKey, RemoveCustomKey, InsertProvider, RegisterProvider, AddProviderFails,
          RemoveProvider, DeleteKeyRows, DeleteProviderRow, RemovalFails
  <2>6. CASE CooldownEnds \/ (\E w \in Write : Perform(w)) \/ UNCHANGED vars
    BY <2>2, <2>6 DEF CooldownEnds, Perform, vars
  <2> QED BY <2>3, <2>4, <2>5, <2>6 DEF Next
<1> QED BY <1>1, <1>2 DEF PlannedInv

\* A request ends after at most as many attempts as the provider had keys when
\* it began, whatever happens to the keys meanwhile.
THEOREM WalksEnd == Spec => WalksGetShorter
<1>1. Init => PlannedInv
  <2> SUFFICES ASSUME Init PROVE PlannedInv
    OBVIOUS
  <2>1. phase = [r \in Reqs |-> "idle"]
    BY DEF Init
  <2> QED BY <2>1, InitTyped DEF PlannedInv, Planned
<1>2. PlannedInv => \A r \in Reqs : StepsLeft(r) \in Nat
  BY DEF PlannedInv, Planned, StepsLeft
<1>3. PlannedInv /\ [Next]_vars =>
        /\ PlannedInv'
        /\ [\A r \in Reqs : phase[r] # "idle" =>
               UNCHANGED <<phase[r], plan[r], pos[r]>> \/ StepsLeft(r)' < StepsLeft(r)]_vars
  BY PlannedStep
<1> QED BY <1>1, <1>2, <1>3, PTL DEF Spec, WalksGetShorter
=============================================================================
