------------------------ MODULE MigrationDrainProofs ------------------------
(***************************************************************************)
(* Safety of the cutover gate for every set of requests and PUTs.          *)
(***************************************************************************)
EXTENDS MigrationDrain, FiniteSetTheorems, TLAPS

Serving == {r \in Reqs : InService(r)}

\* What GateIsSaved rests on: until two PUTs overlap or one fails, at most one
\* is under way, and the gate has the value it is about to save.
OneWriter ==
    ~raced => /\ \A p, q \in Puts : put[p] = "saving" /\ put[q] = "saving" => p = q
              /\ \A p \in Puts : put[p] = "saving" => draining = Wanted[p]

DrainInv == TypeOK /\ ActiveCountsInService /\ OneWriter /\ GateIsSaved

\* A request that enters service is one more to count.
LEMMA OneMore ==
    ASSUME NEW r \in Reqs, ~InService(r), InService(r)',
           \A s \in Reqs \ {r} : InService(s)' <=> InService(s)
    PROVE  Cardinality(Serving') = Cardinality(Serving) + 1
<1>1. IsFiniteSet(Serving)
  BY DrainAssumption, FS_Subset DEF Serving
<1>2. Serving' = Serving \cup {r} /\ r \notin Serving
  BY DEF Serving
<1> QED BY <1>1, <1>2, FS_AddElement

\* A request that leaves service is one less to count, and there was one.
LEMMA OneLess ==
    ASSUME NEW r \in Reqs, InService(r), ~InService(r)',
           \A s \in Reqs \ {r} : InService(s)' <=> InService(s)
    PROVE  /\ Cardinality(Serving') = Cardinality(Serving) - 1
           /\ Cardinality(Serving) > 0 /\ Cardinality(Serving) \in Nat
<1>1. IsFiniteSet(Serving)
  BY DrainAssumption, FS_Subset DEF Serving
<1>2. Serving' = Serving \ {r} /\ r \in Serving
  BY DEF Serving
<1>3. Cardinality(Serving) \in Nat /\ Cardinality(Serving) # 0
  BY <1>1, <1>2, FS_CardinalityType, FS_EmptySet
<1> QED BY <1>1, <1>2, <1>3, FS_RemoveElement

\* A step that moves no request in or out of service leaves the count alone.
LEMMA SameServing ==
    ASSUME \A s \in Reqs : InService(s)' <=> InService(s)
    PROVE  Cardinality(Serving') = Cardinality(Serving)
<1>1. Serving' = Serving
  BY DEF Serving
<1> QED BY <1>1

\* A fresh process counts nothing and has the gate of the database.
LEMMA InitDrain == Init => DrainInv
<1> SUFFICES ASSUME Init PROVE DrainInv
  OBVIOUS
<1>1. Serving = {}
  BY DEF Init, Serving, InService
<1>2. Cardinality(Serving) = 0
  BY <1>1, FS_EmptySet
<1>3. ActiveCountsInService
  BY <1>2 DEF Init, ActiveCountsInService, Serving
<1>4. TypeOK
  <2>1. 0 \in 0..MaxRestarts
    BY DrainAssumption
  <2>2. /\ at \in [Reqs -> Where] /\ put \in [Puts -> PutState]
        /\ draining \in BOOLEAN
    BY DEF Init, Where, PutState
  <2>3. active = 0 /\ restarts = 0 /\ raced = FALSE /\ saved \in BOOLEAN
    BY DEF Init
  <2> QED BY <2>1, <2>2, <2>3 DEF TypeOK
<1> QED BY <1>3, <1>4 DEF DrainInv, OneWriter, GateIsSaved, Init

\* Each step of a request keeps the count exact, and only an open gate lets it
\* grow.
LEMMA RequestCounts ==
    ASSUME DrainInv, NEW r \in Reqs, Request(r)
    PROVE  DrainInv' /\ (draining /\ draining' => active' <= active)
<1> USE DEF DrainInv
<1>1. /\ draining' = draining /\ saved' = saved /\ put' = put /\ raced' = raced
      /\ restarts' = restarts
  BY DEF Request, Enter, Raise, Respond, BodyEnds, gateVars
<1>2. OneWriter' /\ GateIsSaved'
  BY <1>1 DEF OneWriter, GateIsSaved
<1>3. active \in Nat /\ active = Cardinality(Serving) /\ at \in [Reqs -> Where]
  BY DEF TypeOK, ActiveCountsInService, Serving
<1>4. SUFFICES /\ at' \in [Reqs -> Where] /\ active' \in Nat
               /\ active' = Cardinality(Serving')
               /\ draining => active' <= active
  BY <1>1, <1>2 DEF TypeOK, ActiveCountsInService, Serving
<1>5. CASE Enter(r) /\ draining
  <2>1. at' = [at EXCEPT ![r] = "refused"] /\ active' = active /\ at[r] = "idle"
    BY <1>5 DEF Enter
  <2>2. \A s \in Reqs : InService(s)' <=> InService(s)
    BY <2>1, <1>3 DEF InService
  <2>3. Cardinality(Serving') = Cardinality(Serving)
    BY <2>2, SameServing
  <2> QED BY <2>1, <2>3, <1>3 DEF Where
<1>6. CASE Enter(r) /\ ~draining
  <2>1. at' = [at EXCEPT ![r] = "handling"] /\ active' = active + 1 /\ at[r] = "idle"
    BY <1>6 DEF Enter
  <2>2. /\ ~InService(r) /\ InService(r)'
        /\ \A s \in Reqs \ {r} : InService(s)' <=> InService(s)
    BY <2>1, <1>3 DEF InService
  <2>3. Cardinality(Serving') = Cardinality(Serving) + 1
    BY <2>2, OneMore
  <2> QED BY <2>1, <2>3, <1>3, <1>6 DEF Where
<1>7. CASE Respond(r)
  <2>1. /\ at' = [at EXCEPT ![r] = "relaying"] /\ active' = active
        /\ at[r] = "handling"
    BY <1>7 DEF Respond
  <2>2. \A s \in Reqs : InService(s)' <=> InService(s)
    BY <2>1, <1>3 DEF InService
  <2>3. Cardinality(Serving') = Cardinality(Serving)
    BY <2>2, SameServing
  <2> QED BY <2>1, <2>3, <1>3 DEF Where
<1>8. CASE Raise(r) \/ BodyEnds(r)
  <2>1. /\ at' = [at EXCEPT ![r] = "done"] /\ active' = active - 1
        /\ at[r] \in {"handling", "relaying"}
    BY <1>8 DEF Raise, BodyEnds
  <2>2. /\ InService(r) /\ ~InService(r)'
        /\ \A s \in Reqs \ {r} : InService(s)' <=> InService(s)
    BY <2>1, <1>3 DEF InService
  <2>3. /\ Cardinality(Serving') = Cardinality(Serving) - 1
        /\ Cardinality(Serving) > 0
    BY <2>2, OneLess
  <2> QED BY <2>1, <2>3, <1>3 DEF Where
<1> QED BY <1>5, <1>6, <1>7, <1>8 DEF Request

\* The operator's PUTs move no request; what they save is what they set.
LEMMA PutSaves ==
    ASSUME DrainInv, NEW p \in Puts,
           SetDrain(p) \/ SaveDrain(p) \/ SaveDrainFails(p)
    PROVE  DrainInv' /\ active' = active
<1> USE DEF DrainInv
<1>1. at' = at /\ active' = active /\ restarts' = restarts
  BY DEF SetDrain, SaveDrain, SaveDrainFails
<1>2. ActiveCountsInService'
  BY <1>1 DEF ActiveCountsInService, InService
<1>3. /\ Wanted[p] \in BOOLEAN
      /\ draining \in BOOLEAN /\ saved \in BOOLEAN /\ raced \in BOOLEAN
      /\ put \in [Puts -> PutState]
  BY DrainAssumption DEF TypeOK
<1>4. TypeOK'
  <2>1. /\ draining' \in {draining, Wanted[p]} /\ saved' \in {saved, Wanted[p]}
        /\ raced' \in BOOLEAN
        /\ \E s \in PutState : put' = [put EXCEPT ![p] = s]
    BY <1>3 DEF SetDrain, SaveDrain, SaveDrainFails, PutState
  <2>2. put' \in [Puts -> PutState]
    BY <2>1, <1>3
  <2> QED BY <2>1, <2>2, <1>1, <1>3 DEF TypeOK
<1>5. CASE SetDrain(p)
  BY <1>1, <1>2, <1>3, <1>4, <1>5 DEF SetDrain, OneWriter, GateIsSaved
<1>6. CASE SaveDrain(p)
  BY <1>1, <1>2, <1>3, <1>4, <1>6 DEF SaveDrain, OneWriter, GateIsSaved
<1>7. CASE SaveDrainFails(p)
  BY <1>1, <1>2, <1>3, <1>4, <1>7 DEF SaveDrainFails, OneWriter, GateIsSaved
<1> QED BY <1>5, <1>6, <1>7

\* A restart counts from zero and loads the gate.
LEMMA RestartLoads ==
    ASSUME DrainInv, Restart
    PROVE  DrainInv' /\ active' <= active
<1> USE DEF DrainInv
<1>1. /\ active' = 0 /\ draining' = saved' /\ raced' = FALSE
      /\ at' = [r \in Reqs |-> IF InService(r) THEN "lost" ELSE at[r]]
      /\ put' = [p \in Puts |-> IF put[p] = "saving" THEN "lost" ELSE put[p]]
      /\ restarts < MaxRestarts /\ restarts' = restarts + 1
  BY DEF Restart
<1>2. saved' \in BOOLEAN
  BY DrainAssumption DEF Restart, TypeOK
<1>3. Serving' = {}
  BY <1>1 DEF Serving, InService
<1>4. ActiveCountsInService'
  BY <1>1, <1>3, FS_EmptySet DEF ActiveCountsInService, Serving
<1>5. \A p \in Puts : put'[p] # "saving"
  BY <1>1
<1>6. OneWriter' /\ GateIsSaved'
  BY <1>1, <1>5 DEF OneWriter, GateIsSaved
<1>7. at' \in [Reqs -> Where] /\ put' \in [Puts -> PutState]
  BY <1>1 DEF TypeOK, Where, PutState
<1>8. restarts' \in 0..MaxRestarts
  BY <1>1, DrainAssumption DEF TypeOK
<1>9. TypeOK'
  BY <1>1, <1>2, <1>7, <1>8 DEF TypeOK
<1> QED BY <1>1, <1>4, <1>6, <1>9 DEF TypeOK

\* One step, stuttering included.
LEMMA StepDrains ==
    ASSUME DrainInv, [Next]_vars
    PROVE  DrainInv' /\ (draining /\ draining' => active' <= active)
<1>1. CASE UNCHANGED vars
  BY <1>1 DEF vars, gateVars, DrainInv, TypeOK, ActiveCountsInService, InService,
              OneWriter, GateIsSaved
<1>2. CASE \E r \in Reqs : Request(r)
  BY <1>2, RequestCounts
<1>3. CASE \E p \in Puts : SetDrain(p) \/ SaveDrain(p) \/ SaveDrainFails(p)
  BY <1>3, PutSaves DEF DrainInv, TypeOK
<1>4. CASE Restart
  BY <1>4, RestartLoads
<1> QED BY <1>1, <1>2, <1>3, <1>4 DEF Next

\* The invariant holds in every reachable state.
THEOREM DrainInvariant == Spec => []DrainInv
<1>1. Init => DrainInv
  BY InitDrain
<1>2. DrainInv /\ [Next]_vars => DrainInv'
  BY StepDrains
<1> QED BY <1>1, <1>2, PTL DEF Spec

\* The gate, the count and the states of the calls keep their types.
THEOREM DrainTypeCorrect == Spec => []TypeOK
<1>1. DrainInv => TypeOK
  BY DEF DrainInv
<1> QED BY <1>1, DrainInvariant, PTL

\* The count shown to the operator is exact, whatever ends the requests.
THEOREM CountIsExact == Spec => []ActiveCountsInService
<1>1. DrainInv => ActiveCountsInService
  BY DEF DrainInv
<1> QED BY <1>1, DrainInvariant, PTL

\* A restart finds the gate where the last PUT put it, unless PUTs overlapped
\* or the write of one failed.
THEOREM GateSurvivesRestart == Spec => []GateIsSaved
<1>1. DrainInv => GateIsSaved
  BY DEF DrainInv
<1> QED BY <1>1, DrainInvariant, PTL

\* Behind a closed gate the count never grows.
THEOREM CountShrinks == Spec => DrainingOnlyShrinks
<1>1. DrainInv /\ [Next]_vars => [draining /\ draining' => active' <= active]_vars
  BY StepDrains
<1> QED BY <1>1, DrainInvariant, PTL DEF Spec, DrainingOnlyShrinks
=============================================================================
