---------------------------- MODULE GatewayProofs ----------------------------
(***************************************************************************)
(* Proofs about Gateway, for any models, settings, quotas and number of    *)
(* requests, admin calls, deaths and Redis errors.                         *)
(***************************************************************************)
EXTENDS Gateway, SequenceLemmas, FiniteSetTheorems, TLAPS

(***************************************************************************)
(* The invariant: what is true of the key and the breakers, and, for each  *)
(* request, what is true of it alone                                       *)
(***************************************************************************)
Typed ==
    /\ row \in [exists : BOOLEAN, live : BOOLEAN, quota : Nat, settings : Settings]
    /\ Accepted(row.settings)
    /\ used \in Nat /\ resets \in Nat
    /\ fails \in [Models -> 0..MaxFails] /\ ttl \subseteq Models
    /\ \A m \in ttl : fails[m] > 0
    /\ phase \in [Reqs -> Phases] /\ status \in [Reqs -> Statuses]
    /\ owed \in [Reqs -> 0..MaxTok]
    /\ seen \in [Reqs -> Settings \cup {NoSettings}]
    /\ route \in [Reqs -> Seq(Models)] /\ left \in [Reqs -> SUBSET Nat]
    /\ tried \in [Reqs -> SUBSET Models] /\ passed \in [Reqs -> SUBSET Models]
    /\ DOMAIN model = Reqs

\* The walk of request r along its route.
Walk(r) ==
    /\ left[r] \subseteq DOMAIN route[r]
    /\ phase[r] = "idle" => ~Routed(r)
    /\ phase[r] = "filter" => left[r] = DOMAIN route[r]
    /\ phase[r] \in {"filter", "route", "record", "expire"} => Routed(r) /\ left[r] # {}
    /\ Routed(r) =>
        /\ \A i \in DOMAIN route[r] : i \in left[r] \/ route[r][i] \in tried[r] \cup passed[r]
        /\ phase[r] \in {"call", "bill", "stream"} => left[r] # {}
        /\ phase[r] = "failed" => left[r] = {} /\ tried[r] # {}

\* The settings request r works with were accepted, and its route is theirs.
Permitted(r) ==
    /\ Accepted(seen[r])
    /\ Routed(r) => \E n \in DOMAIN seen[r].routes : route[r] = seen[r].routes[n]

\* What DispatchIsPermitted says of request r.
Dispatched(r) ==
    phase[r] \in {"call", "media"} =>
        \/ phase[r] = "call" /\ Routed(r) /\ model[r] \in Image(route[r])
        \/ /\ model[r] \notin RoutedCandidates(seen[r])
           /\ \/ seen[r].allowed = {} \/ model[r] \in seen[r].allowed
              \/ phase[r] = "media" /\ model[r] \in DOMAIN seen[r].routes

RequestInv(r) == Walk(r) /\ Permitted(r) /\ Dispatched(r)

GatewayInv == Typed /\ \A r \in Reqs : RequestInv(r)

\* The candidate in hand is a model of the route, at its first position left.
LEMMA CandidateFacts ==
    ASSUME GatewayInv, NEW r \in Reqs, left[r] # {}
    PROVE  /\ Min(left[r]) \in left[r] /\ Min(left[r]) \in DOMAIN route[r]
           /\ Candidate(r) = route[r][Min(left[r])]
           /\ Candidate(r) \in Models /\ Candidate(r) \in Image(route[r])
           /\ \A i \in left[r] : Min(left[r]) <= i
           /\ Min(left[r]) \in Nat
<1>1. left[r] \in SUBSET Nat /\ left[r] \subseteq DOMAIN route[r] /\ route[r] \in Seq(Models)
  BY DEF GatewayInv, Typed, RequestInv, Walk
<1>2. /\ Min(left[r]) \in left[r] /\ Min(left[r]) \in Nat
      /\ \A i \in left[r] : Min(left[r]) <= i
  BY <1>1, MinFacts
<1>3. \A i \in DOMAIN route[r] : route[r][i] \in Models
  BY <1>1
<1> QED BY <1>1, <1>2, <1>3 DEF Candidate, Image

\* A name resolves to itself or to a renamed model.
LEMMA ResolveFacts ==
    ASSUME NEW s, NEW name
    PROVE  Resolve(s, name) = name \/ Resolve(s, name) \in DOMAIN s.aliases
<1>1. CASE \E m \in DOMAIN s.aliases : s.aliases[m] = name
  <2>1. (CHOOSE m \in DOMAIN s.aliases : s.aliases[m] = name) \in DOMAIN s.aliases
    BY <1>1
  <2> QED BY <1>1, <2>1 DEF Resolve
<1>2. CASE ~\E m \in DOMAIN s.aliases : s.aliases[m] = name
  BY <1>2 DEF Resolve
<1> QED BY <1>1, <1>2

\* A request that is over carries nothing into its next life.
LEMMA OverFacts ==
    ASSUME GatewayInv, NEW r \in Reqs, Over(r)
    PROVE  RequestInv(r)' /\ phase'[r] = "idle"
<1>1. /\ phase'[r] = "idle" /\ route'[r] = <<>> /\ left'[r] = {} /\ seen'[r] = NoSettings
  BY DEF Over, GatewayInv, Typed, Idle
<1>2. Accepted(NoSettings)
  BY DEF Accepted, AliasesAccepted, RoutesAccepted, NoSettings, OneToOne
<1> QED BY <1>1, <1>2 DEF RequestInv, Walk, Permitted, Dispatched, Routed

\* The candidate in hand failed.
LEMMA NextCandidateFacts ==
    ASSUME GatewayInv, NEW r \in Reqs, NextCandidate(r), Routed(r), left[r] # {}
    PROVE  RequestInv(r)' /\ phase'[r] \in {"failed", "route"}
<1>1. /\ left'[r] = left[r] \ {Min(left[r])}
      /\ tried'[r] = tried[r] \cup {Candidate(r)}
      /\ phase'[r] = IF left'[r] = {} THEN "failed" ELSE "route"
      /\ route' = route /\ seen' = seen /\ passed' = passed
  BY DEF NextCandidate, GatewayInv, Typed
<1>2. Walk(r)'
  BY <1>1, CandidateFacts DEF GatewayInv, RequestInv, Walk, Routed
<1>3. Permitted(r)' /\ Dispatched(r)'
  BY <1>1 DEF GatewayInv, RequestInv, Permitted, Dispatched, Routed
<1> QED BY <1>1, <1>2, <1>3 DEF RequestInv

(***************************************************************************)
(* Steps of a request                                                      *)
(***************************************************************************)
\* What request q carries is untouched.
Same(q) ==
    /\ phase'[q] = phase[q] /\ seen'[q] = seen[q]
    /\ route'[q] = route[q] /\ left'[q] = left[q]
    /\ model'[q] = model[q] /\ status'[q] = status[q] /\ owed'[q] = owed[q]
    /\ tried'[q] = tried[q] /\ passed'[q] = passed[q]

LEMMA SameKeeps ==
    ASSUME GatewayInv, NEW q \in Reqs, Same(q)
    PROVE  RequestInv(q)'
BY DEF GatewayInv, RequestInv, Walk, Permitted, Dispatched, Routed, Same

\* A step of one request.
StepOf(r) ==
    \/ \E name \in Names : AskRoute(r, name) \/ AskModel(r, name) \/ AskMedia(r, name)
    \/ Serve(r) \/ Die(r)

\* No request touches what another one carries.
LEMMA OthersSame ==
    ASSUME GatewayInv, NEW r \in Reqs, StepOf(r), NEW q \in Reqs \ {r}
    PROVE  Same(q)
<1> USE DEF GatewayInv, Typed
<1>1. ASSUME NEW name \in Names, AskRoute(r, name) \/ AskModel(r, name) \/ AskMedia(r, name) PROVE Same(q)
  BY <1>1 DEF AskRoute, AskModel, AskMedia, Admit, Same
<1>2. CASE Over(r)
  BY <1>2 DEF Over, Same
<1>3. ASSUME NextCandidate(r) PROVE Same(q)
  BY <1>3 DEF NextCandidate, Same
<1>4. CASE Filter(r) \/ TryCandidate(r)
  BY <1>4 DEF Filter, TryCandidate, requestVars, Same
<1>5. CASE Fail(r) \/ StreamBill(r) \/ MediaEnds(r) \/ StreamBreaksOff(r) \/ Die(r)
  BY <1>2, <1>5 DEF Fail, StreamBill, MediaEnds, StreamBreaksOff, Die
<1>6. ASSUME NEW n \in 0..MaxTok, Answer(r, n) \/ StreamEnds(r, n) PROVE Same(q)
  BY <1>6 DEF Answer, StreamEnds, Same
<1>7. CASE AnswerStream(r)
  BY <1>7 DEF AnswerStream, Same
<1>8. ASSUME NEW kind \in Statuses, Refused(r, kind) PROVE Same(q)
  BY <1>8 DEF Refused, Same
<1>9. CASE Bill(r)
  BY <1>2, <1>9 DEF Bill, Same
<1>10. CASE RecordSuccess(r)
  BY <1>2, <1>10 DEF RecordSuccess, Same
<1>11. CASE RecordNothing(r) \/ Expire(r)
  BY <1>3, <1>11 DEF RecordNothing, Expire
<1>12. CASE RecordFailure(r)
  BY <1>12 DEF RecordFailure, Same
<1> QED BY <1>1, <1>4, <1>5, <1>6, <1>7, <1>8, <1>9, <1>10, <1>11, <1>12
        DEF StepOf, Serve

\* A request named with a route begins with all its candidates left.
LEMMA AskRouteKeeps ==
    ASSUME GatewayInv, NEW r \in Reqs, NEW name \in Names, AskRoute(r, name)
    PROVE  RequestInv(r)'
<1> DEFINE m == Resolve(row.settings, name)
<1> HIDE DEF m
<1>1. /\ m \in DOMAIN row.settings.routes /\ Accepted(row.settings)
      /\ phase'[r] = "filter" /\ seen'[r] = row.settings
      /\ route'[r] = row.settings.routes[m] /\ left'[r] = DOMAIN row.settings.routes[m]
  BY DEF AskRoute, Admit, GatewayInv, Typed, m
<1>2. row.settings.routes[m] # <<>> /\ row.settings.routes[m] \in Seq(Models)
  BY <1>1, GatewayAssumption DEF Accepted, RoutesAccepted, GatewayInv, Typed
<1>3. DOMAIN row.settings.routes[m] # {}
  BY <1>2
<1>4. Walk(r)'
  BY <1>1, <1>2, <1>3 DEF Walk, Routed
<1> QED BY <1>1, <1>4 DEF RequestInv, Permitted, Dispatched, Routed

\* A model asked for by name, or behind a rename, is permitted.
LEMMA AskModelKeeps ==
    ASSUME GatewayInv, NEW r \in Reqs, NEW name \in Names, AskModel(r, name)
    PROVE  RequestInv(r)'
<1> DEFINE m == Resolve(row.settings, name)
<1> HIDE DEF m
<1>1. /\ m \notin DOMAIN row.settings.routes /\ ~Denied(row.settings, m, {})
      /\ phase[r] = "idle" /\ phase'[r] = "call" /\ seen'[r] = row.settings
      /\ route' = route /\ left' = left /\ model'[r] = m
      /\ Accepted(row.settings)
  BY DEF AskModel, Admit, GatewayInv, Typed, Idle, m
<1>2. ~Routed(r) /\ ~Routed(r)' /\ left[r] \subseteq DOMAIN route[r]
  BY <1>1 DEF GatewayInv, RequestInv, Walk, Routed
<1> QED BY <1>1, <1>2 DEF RequestInv, Walk, Permitted, Dispatched, Denied, Routed

\* An endpoint without routes passes what it would for a model, and the names
\* of routes, which are no candidates.
LEMMA AskMediaKeeps ==
    ASSUME GatewayInv, NEW r \in Reqs, NEW name \in Names, AskMedia(r, name)
    PROVE  RequestInv(r)'
<1> DEFINE m == Resolve(row.settings, name)
<1> HIDE DEF m
<1>1. /\ ~Denied(row.settings, m, {})
      /\ phase[r] = "idle" /\ phase'[r] = "media" /\ seen'[r] = row.settings
      /\ route' = route /\ left' = left /\ model'[r] = m
      /\ Accepted(row.settings)
  BY DEF AskMedia, Admit, GatewayInv, Typed, Idle, m
<1>2. ~Routed(r) /\ ~Routed(r)' /\ left[r] \subseteq DOMAIN route[r]
  BY <1>1 DEF GatewayInv, RequestInv, Walk, Routed
<1>3. m \in DOMAIN row.settings.routes => m \notin RoutedCandidates(row.settings)
  BY <1>1 DEF Accepted, RoutesAccepted, RoutedCandidates
<1> QED BY <1>1, <1>2, <1>3 DEF RequestInv, Walk, Permitted, Dispatched, Denied, Routed

\* The candidates kept are some of those left, and never none.
LEMMA FilterKeeps ==
    ASSUME GatewayInv, NEW r \in Reqs, Filter(r)
    PROVE  RequestInv(r)'
<1>1. left[r] # {} /\ Routed(r) /\ left[r] \subseteq DOMAIN route[r]
  BY DEF Filter, GatewayInv, RequestInv, Walk
<1>2. PICK kept \in {left[r], Eligible(route[r], left[r])} :
        /\ phase'[r] = IF kept = {} THEN "failed" ELSE "route"
        /\ left'[r] = kept
        /\ passed'[r] = {route[r][i] : i \in left[r] \ kept}
        /\ route' = route /\ seen' = seen /\ tried' = tried
  BY DEF Filter, GatewayInv, Typed
<1>3. kept # {} /\ kept \subseteq left[r]
  BY <1>1 DEF Eligible
<1>4. left[r] = DOMAIN route[r]
  BY DEF Filter, GatewayInv, RequestInv, Walk
<1>5. Walk(r)'
  BY <1>1, <1>2, <1>3, <1>4 DEF Walk, Routed
<1> QED BY <1>2, <1>3, <1>5 DEF RequestInv, Permitted, Dispatched, Routed, GatewayInv

\* A candidate that is dispatched is one of the route: its name may be a rename,
\* but no accepted rename leads to another route or to a private candidate.
LEMMA TryCandidateKeeps ==
    ASSUME GatewayInv, NEW r \in Reqs, TryCandidate(r)
    PROVE  RequestInv(r)'
<1> DEFINE c == Candidate(r)
           m == Resolve(seen[r], c)
<1>1. left[r] # {} /\ Routed(r) /\ phase[r] = "route"
  BY DEF TryCandidate, GatewayInv, RequestInv, Walk
<1>2. c \in Image(route[r])
  BY <1>1, CandidateFacts
<1>3. m = c \/ m \in DOMAIN seen[r].aliases
  BY ResolveFacts
<1>4. UNCHANGED <<seen, route, left, tried, passed>>
  BY DEF TryCandidate
<1>5. \/ phase'[r] = "record"
      \/ /\ phase'[r] = "call" /\ model'[r] = m
         /\ ~Denied(seen[r], m, {c})
  BY DEF TryCandidate, GatewayInv, Typed
<1>6. Accepted(seen[r]) /\ \E n \in DOMAIN seen[r].routes : route[r] = seen[r].routes[n]
  BY <1>1 DEF GatewayInv, RequestInv, Permitted
<1> HIDE DEF c, m
<1>7. m \notin DOMAIN seen[r].routes
  <2>1. CASE m = c
    BY <2>1, <1>2, <1>6 DEF Accepted, RoutesAccepted
  <2>2. CASE m \in DOMAIN seen[r].aliases
    BY <2>2, <1>6 DEF Accepted, RoutesAccepted
  <2> QED BY <2>1, <2>2, <1>3
<1>8. Dispatched(r)'
  <2>1. CASE phase'[r] = "record"
    BY <2>1 DEF Dispatched
  <2>2. CASE phase'[r] = "call" /\ model'[r] = m /\ ~Denied(seen[r], m, {c})
    <3>1. m = c \/ (m \notin RoutedCandidates(seen[r]) /\ (seen[r].allowed = {} \/ m \in seen[r].allowed))
      BY <2>2, <1>7 DEF Denied
    <3> QED BY <2>2, <3>1, <1>1, <1>2, <1>4 DEF Dispatched, Routed
  <2> QED BY <2>1, <2>2, <1>5
<1>9. Walk(r)'
  BY <1>1, <1>4, <1>5 DEF Walk, Routed, GatewayInv, RequestInv
<1>10. Permitted(r)'
  BY <1>4 DEF Permitted, Routed, GatewayInv, RequestInv
<1> QED BY <1>8, <1>9, <1>10 DEF RequestInv

\* Every other step of a request.
LEMMA RestKeeps ==
    ASSUME GatewayInv, NEW r \in Reqs, Serve(r) \/ Die(r), ~Filter(r), ~TryCandidate(r)
    PROVE  RequestInv(r)'
<1> DEFINE Stays == UNCHANGED <<seen, route, left, tried, passed>>
<1>1. CASE Over(r)
  BY <1>1, OverFacts
<1>2. ASSUME phase[r] \in {"record", "expire"}, NextCandidate(r) PROVE RequestInv(r)'
  BY <1>2, NextCandidateFacts DEF GatewayInv, RequestInv, Walk
<1>3. CASE Fail(r) \/ StreamBill(r) \/ MediaEnds(r) \/ StreamBreaksOff(r) \/ Die(r)
  BY <1>1, <1>3 DEF Fail, StreamBill, MediaEnds, StreamBreaksOff, Die
<1>4. CASE RecordNothing(r) \/ Expire(r)
  BY <1>2, <1>4 DEF RecordNothing, Expire
<1>5. ASSUME Stays,
             \/ /\ phase[r] = "call"
                /\ \/ phase'[r] = "bill"
                   \/ phase'[r] = IF Routed(r) THEN "record" ELSE "stream"
                   \/ phase'[r] = IF Routed(r) THEN "record" ELSE "failed"
             \/ phase[r] = "stream" /\ phase'[r] = "streambill"
             \/ phase[r] = "bill" /\ Routed(r) /\ phase'[r] = "record"
             \/ phase[r] = "record" /\ phase'[r] \in {"stream", "expire"}
      PROVE  RequestInv(r)'
  BY <1>5 DEF GatewayInv, RequestInv, Walk, Permitted, Dispatched, Routed
<1>6. ASSUME NEW n \in 0..MaxTok, Answer(r, n) \/ StreamEnds(r, n) PROVE RequestInv(r)'
  BY <1>5, <1>6 DEF Answer, StreamEnds, GatewayInv, Typed
<1>7. CASE AnswerStream(r)
  BY <1>5, <1>7 DEF AnswerStream, GatewayInv, Typed
<1>8. ASSUME NEW kind \in Statuses, Refused(r, kind) PROVE RequestInv(r)'
  BY <1>5, <1>8 DEF Refused, GatewayInv, Typed
<1>9. CASE Bill(r)
  BY <1>1, <1>5, <1>9 DEF Bill, GatewayInv, Typed
<1>10. CASE RecordSuccess(r)
  BY <1>1, <1>5, <1>10 DEF RecordSuccess, GatewayInv, Typed
<1>11. CASE RecordFailure(r)
  BY <1>5, <1>11 DEF RecordFailure, GatewayInv, Typed
<1> QED BY <1>3, <1>4, <1>6, <1>7, <1>8, <1>9, <1>10, <1>11 DEF Serve

\* Whatever a request does, its own invariant and those of the others hold on.
LEMMA RequestsKeep ==
    ASSUME GatewayInv, [Next]_vars
    PROVE  \A q \in Reqs : RequestInv(q)'
<1>1. ASSUME NEW r \in Reqs, StepOf(r), NEW q \in Reqs PROVE RequestInv(q)'
  <2>1. RequestInv(r)'
    BY <1>1, AskRouteKeeps, AskModelKeeps, AskMediaKeeps, FilterKeeps, TryCandidateKeeps, RestKeeps
       DEF StepOf
  <2>2. CASE q # r
    BY <2>2, <1>1, OthersSame, SameKeeps
  <2> QED BY <2>1, <2>2
<1>2. ASSUME UNCHANGED requestVars, NEW q \in Reqs PROVE RequestInv(q)'
  BY <1>2, SameKeeps DEF requestVars, Same
<1>3. CASE Admin
  <2>1. UNCHANGED requestVars
    BY <1>3 DEF Admin, UpdateKey, ResetUsage, DeleteKey, KeyExpires
  <2> QED BY <2>1, <1>2
<1>4. ASSUME NEW c \in Models, CooldownEnds(c) PROVE UNCHANGED requestVars
  BY <1>4 DEF CooldownEnds
<1>5. CASE UNCHANGED vars
  BY <1>5, <1>2 DEF vars
<1> QED BY <1>1, <1>2, <1>3, <1>4, <1>5 DEF Next, StepOf

(***************************************************************************)
(* Types                                                                   *)
(***************************************************************************)
KeyTyped ==
    /\ row \in [exists : BOOLEAN, live : BOOLEAN, quota : Nat, settings : Settings]
    /\ Accepted(row.settings)
    /\ used \in Nat /\ resets \in Nat

BreakerTyped ==
    /\ fails \in [Models -> 0..MaxFails] /\ ttl \subseteq Models
    /\ \A m \in ttl : fails[m] > 0

RequestsTyped ==
    /\ phase \in [Reqs -> Phases] /\ status \in [Reqs -> Statuses]
    /\ owed \in [Reqs -> 0..MaxTok]
    /\ seen \in [Reqs -> Settings \cup {NoSettings}]
    /\ route \in [Reqs -> Seq(Models)] /\ left \in [Reqs -> SUBSET Nat]
    /\ tried \in [Reqs -> SUBSET Models] /\ passed \in [Reqs -> SUBSET Models]
    /\ DOMAIN model = Reqs

LEMMA TypedParts ==
    /\ Typed <=> KeyTyped /\ BreakerTyped /\ RequestsTyped
    /\ Typed' <=> KeyTyped' /\ BreakerTyped' /\ RequestsTyped'
BY DEF Typed, KeyTyped, BreakerTyped, RequestsTyped

LEMMA RequestsTypedKept ==
    ASSUME GatewayInv, NEW r \in Reqs, StepOf(r)
    PROVE  RequestsTyped'
<1> USE DEF GatewayInv, Typed
<1>1. "idle" \in Phases /\ "none" \in Statuses /\ 0 \in 0..MaxTok
  BY GatewayAssumption DEF Phases, Statuses
<1>2. CASE Over(r)
  <2>1. /\ phase' \in [Reqs -> Phases] /\ status' \in [Reqs -> Statuses]
        /\ owed' \in [Reqs -> 0..MaxTok] /\ DOMAIN model' = Reqs
    BY <1>1, <1>2 DEF Over, Idle
  <2>2. /\ seen' \in [Reqs -> Settings \cup {NoSettings}]
        /\ left' \in [Reqs -> SUBSET Nat]
        /\ tried' \in [Reqs -> SUBSET Models] /\ passed' \in [Reqs -> SUBSET Models]
    BY <1>2 DEF Over
  <2>3. route' \in [Reqs -> Seq(Models)]
    <3> DEFINE none == <<>>
    <3>1. none \in Seq(Models)
      OBVIOUS
    <3> HIDE DEF none
    <3>2. route' = [route EXCEPT ![r] = none]
      BY <1>2 DEF Over, none
    <3> QED BY <3>1, <3>2
  <2> QED BY <2>1, <2>2, <2>3 DEF RequestsTyped
<1>3. ASSUME NextCandidate(r), phase[r] \in {"record", "expire"} PROVE RequestsTyped'
  <2>1. Candidate(r) \in Models
    BY <1>3, CandidateFacts DEF RequestInv, Walk
  <2>2. left' \in [Reqs -> SUBSET Nat] /\ tried' \in [Reqs -> SUBSET Models]
    BY <1>3, <2>1 DEF NextCandidate
  <2>3. phase' \in [Reqs -> Phases] /\ status' \in [Reqs -> Statuses]
    BY <1>3 DEF NextCandidate, Phases, Statuses
  <2>4. UNCHANGED <<seen, route, model, owed, passed>>
    BY <1>3 DEF NextCandidate
  <2> QED BY <2>2, <2>3, <2>4 DEF RequestsTyped
<1>4. ASSUME NEW name \in Names, AskRoute(r, name) PROVE RequestsTyped'
  <2> DEFINE m == Resolve(row.settings, name)
  <2> HIDE DEF m
  <2>1. /\ m \in DOMAIN row.settings.routes
        /\ seen' = [seen EXCEPT ![r] = row.settings]
        /\ route' = [route EXCEPT ![r] = row.settings.routes[m]]
        /\ left' = [left EXCEPT ![r] = DOMAIN row.settings.routes[m]]
        /\ phase' = [phase EXCEPT ![r] = "filter"]
        /\ UNCHANGED <<model, status, owed, tried, passed>>
    BY <1>4 DEF AskRoute, Admit, m
  <2>2. row.settings.routes[m] \in Seq(Models) /\ row.settings \in Settings
    BY <2>1, GatewayAssumption
  <2>3. DOMAIN row.settings.routes[m] \in SUBSET Nat
    BY <2>2
  <2> QED BY <2>1, <2>2, <2>3 DEF RequestsTyped, Phases
<1>5. ASSUME NEW name \in Names, AskModel(r, name) \/ AskMedia(r, name) PROVE RequestsTyped'
  BY <1>5 DEF AskModel, AskMedia, Admit, RequestsTyped, Phases
<1>6. CASE Filter(r)
  <2>1. left[r] \subseteq DOMAIN route[r] /\ route[r] \in Seq(Models)
    BY DEF RequestInv, Walk
  <2>2. \A i \in left[r] : route[r][i] \in Models
    BY <2>1
  <2>3. PICK kept \in {left[r], Eligible(route[r], left[r])} :
            /\ phase' = [phase EXCEPT ![r] = IF kept = {} THEN "failed" ELSE "route"]
            /\ left' = [left EXCEPT ![r] = kept]
            /\ passed' = [passed EXCEPT ![r] = {route[r][i] : i \in left[r] \ kept}]
            /\ UNCHANGED <<seen, route, model, status, owed, tried>>
    BY <1>6 DEF Filter
  <2>4. kept \subseteq left[r]
    BY DEF Eligible
  <2>5. kept \in SUBSET Nat /\ {route[r][i] : i \in left[r] \ kept} \in SUBSET Models
    BY <2>2, <2>4
  <2> QED BY <2>3, <2>5 DEF RequestsTyped, Phases
<1>7. CASE TryCandidate(r)
  BY <1>7 DEF TryCandidate, RequestsTyped, Phases, Statuses
<1>8. CASE Fail(r) \/ StreamBill(r) \/ MediaEnds(r) \/ StreamBreaksOff(r) \/ Die(r)
  BY <1>2, <1>8 DEF Fail, StreamBill, MediaEnds, StreamBreaksOff, Die
<1>9. ASSUME NEW n \in 0..MaxTok, Answer(r, n) \/ StreamEnds(r, n) PROVE RequestsTyped'
  <2>1. owed' \in [Reqs -> 0..MaxTok] /\ DOMAIN model' = Reqs
    <3>1. owed' = [owed EXCEPT ![r] = n]
      BY <1>9 DEF Answer, StreamEnds
    <3>2. model' = model \/ model' = [model EXCEPT ![r] = ""]
      BY <1>9 DEF Answer, StreamEnds
    <3>3. owed' \in [Reqs -> 0..MaxTok]
      BY <3>1
    <3>4. DOMAIN model' = Reqs
      BY <3>2
    <3> QED BY <3>3, <3>4
  <2>2. /\ \/ status' = [status EXCEPT ![r] = "ok"] /\ phase' = [phase EXCEPT ![r] = "bill"]
           \/ status' = status /\ phase' = [phase EXCEPT ![r] = "streambill"]
        /\ UNCHANGED <<seen, route, left, tried, passed>>
    BY <1>9 DEF Answer, StreamEnds
  <2>3. phase' \in [Reqs -> Phases] /\ status' \in [Reqs -> Statuses]
    BY <2>2 DEF Phases, Statuses
  <2> QED BY <2>1, <2>2, <2>3 DEF RequestsTyped
<1>10. CASE AnswerStream(r)
  BY <1>10 DEF AnswerStream, RequestsTyped, Phases, Statuses
<1>11. ASSUME NEW kind \in Statuses, Refused(r, kind) PROVE RequestsTyped'
  BY <1>11 DEF Refused, RequestsTyped, Phases, Statuses
<1>12. CASE Bill(r)
  BY <1>1, <1>2, <1>12 DEF Bill, RequestsTyped, Phases
<1>13. CASE RecordSuccess(r)
  BY <1>2, <1>13 DEF RecordSuccess, RequestsTyped, Phases
<1>14. CASE RecordNothing(r) \/ Expire(r)
  BY <1>3, <1>14 DEF RecordNothing, Expire
<1>15. CASE RecordFailure(r)
  BY <1>15 DEF RecordFailure, RequestsTyped, Phases
<1> QED BY <1>4, <1>5, <1>6, <1>7, <1>8, <1>9, <1>10, <1>11, <1>12, <1>13, <1>14, <1>15
        DEF StepOf, Serve

\* The counters and their expiry times.
LEMMA BreakerTypedKept ==
    ASSUME GatewayInv, [Next]_vars
    PROVE  BreakerTyped'
<1> USE DEF GatewayInv, Typed
<1>1. CASE UNCHANGED <<fails, ttl>>
  BY <1>1 DEF BreakerTyped
<1>2. ASSUME NEW r \in Reqs, RecordSuccess(r) PROVE BreakerTyped'
  <2>1. \/ /\ fails' = [fails EXCEPT ![Candidate(r)] = 0] /\ ttl' = ttl \ {Candidate(r)}
        \/ UNCHANGED <<fails, ttl>>
    BY <1>2 DEF RecordSuccess, breakerVars
  <2>2. 0 \in 0..MaxFails
    BY GatewayAssumption
  <2> QED BY <1>1, <2>1, <2>2 DEF BreakerTyped
<1>3. ASSUME NEW r \in Reqs, RecordFailure(r) PROVE BreakerTyped'
  <2>1. /\ fails' = [fails EXCEPT ![Candidate(r)] = Smaller(@ + 1, MaxFails)]
        /\ ttl' = ttl
    BY <1>3 DEF RecordFailure
  <2>2. Candidate(r) \in Models
    BY <1>3, CandidateFacts DEF RecordFailure, RequestInv, Walk
  <2>3. \A n \in 0..MaxFails : Smaller(n + 1, MaxFails) \in 0..MaxFails
                               /\ Smaller(n + 1, MaxFails) > 0
    BY GatewayAssumption DEF Smaller
  <2>4. fails' \in [Models -> 0..MaxFails] /\ fails'[Candidate(r)] > 0
    BY <2>1, <2>2, <2>3
  <2> QED BY <2>1, <2>4 DEF BreakerTyped
<1>4. ASSUME NEW r \in Reqs, Expire(r) PROVE BreakerTyped'
  <2>1. Candidate(r) \in Models
    BY <1>4, CandidateFacts DEF Expire, RequestInv, Walk
  <2>2. fails' = fails /\ \/ ttl' = ttl
                          \/ fails[Candidate(r)] > 0 /\ ttl' = ttl \cup {Candidate(r)}
    BY <1>4 DEF Expire
  <2> QED BY <2>1, <2>2 DEF BreakerTyped
<1>5. ASSUME NEW c \in Models, CooldownEnds(c) PROVE BreakerTyped'
  BY <1>5, GatewayAssumption DEF CooldownEnds, BreakerTyped
<1>6. ASSUME NEW r \in Reqs, StepOf(r), ~RecordSuccess(r), ~RecordFailure(r), ~Expire(r)
      PROVE  UNCHANGED <<fails, ttl>>
  BY <1>6 DEF StepOf, Serve, AskRoute, AskModel, AskMedia, Filter, TryCandidate, Fail, Answer, StreamEnds,
              AnswerStream, StreamBreaksOff, Refused, Bill, StreamBill, MediaEnds, RecordNothing, Die,
              breakerVars
<1>7. CASE Admin \/ UNCHANGED vars
  BY <1>7, <1>1 DEF Admin, UpdateKey, ResetUsage, DeleteKey, KeyExpires, breakerVars, vars
<1>8. ASSUME NEW r \in Reqs, StepOf(r) PROVE BreakerTyped'
  BY <1>1, <1>2, <1>3, <1>4, <1>6, <1>8
<1> QED BY <1>5, <1>7, <1>8 DEF Next, StepOf

\* The row, and what is billed to it.
LEMMA KeyTypedKept ==
    ASSUME GatewayInv, [Next]_vars
    PROVE  KeyTyped'
<1> USE DEF GatewayInv, Typed
<1>1. CASE UNCHANGED <<row, used, resets>>
  BY <1>1 DEF KeyTyped
<1>2. ASSUME NEW r \in Reqs, Bill(r) \/ StreamBill(r) PROVE KeyTyped'
  <2>1. row' = row /\ resets' = resets /\ (used' = used \/ used' = used + owed[r])
    BY <1>2 DEF Bill, StreamBill, BillRouterKey
  <2>2. owed[r] \in Nat
    BY GatewayAssumption
  <2> QED BY <2>1, <2>2 DEF KeyTyped
<1>3. ASSUME NEW r \in Reqs, StepOf(r), ~Bill(r), ~StreamBill(r)
      PROVE  UNCHANGED <<row, used, resets>>
  BY <1>3 DEF StepOf, Serve, AskRoute, AskModel, AskMedia, Filter, TryCandidate, Fail, Answer, StreamEnds,
              AnswerStream, MediaEnds, StreamBreaksOff, Refused, RecordSuccess, RecordFailure, Expire,
              RecordNothing, Die, keyVars
<1>4. CASE Admin
  <2>1. ASSUME NEW q \in Quotas, NEW t \in Settings, NEW live \in {row.live, TRUE},
               NEW reset \in BOOLEAN, UpdateKey(q, t, live, reset)
        PROVE  KeyTyped'
    <3>1. live \in BOOLEAN /\ q \in Nat
      BY GatewayAssumption
    <3>2. /\ row' = [exists |-> TRUE, live |-> live, quota |-> q, settings |-> t]
          /\ Accepted(t) /\ used' = used /\ (resets' = resets \/ resets' = resets + 1)
      BY <2>1 DEF UpdateKey
    <3> QED BY <3>1, <3>2 DEF KeyTyped
  <2>2. CASE ResetUsage
    BY <2>2 DEF ResetUsage, KeyTyped
  <2>3. CASE DeleteKey \/ KeyExpires
    <3>1. \/ row' = [row EXCEPT !.exists = FALSE] /\ used' = 0
          \/ row' = [row EXCEPT !.live = FALSE] /\ used' = used
      BY <2>3 DEF DeleteKey, KeyExpires
    <3>2. resets' = resets
      BY <2>3 DEF DeleteKey, KeyExpires
    <3>3. row' \in [exists : BOOLEAN, live : BOOLEAN, quota : Nat, settings : Settings]
      BY <3>1
    <3>4. row'.settings = row.settings
      BY <3>1
    <3> QED BY <3>1, <3>2, <3>3, <3>4 DEF KeyTyped
  <2> QED BY <1>4, <2>1, <2>2, <2>3 DEF Admin
<1>5. ASSUME NEW c \in Models, CooldownEnds(c) PROVE KeyTyped'
  BY <1>1, <1>5 DEF CooldownEnds, keyVars
<1>6. CASE UNCHANGED vars
  BY <1>1, <1>6 DEF vars, keyVars
<1>7. ASSUME NEW r \in Reqs, StepOf(r) PROVE KeyTyped'
  BY <1>1, <1>2, <1>3, <1>7
<1> QED BY <1>4, <1>5, <1>6, <1>7 DEF Next, StepOf

(***************************************************************************)
(* The invariant holds                                                     *)
(***************************************************************************)
LEMMA InitGives == Init => GatewayInv
<1> SUFFICES ASSUME Init PROVE GatewayInv
  OBVIOUS
<1>1. KeyTyped
  BY GatewayAssumption DEF Init, KeyTyped
<1>2. BreakerTyped
  <2>1. fails = [m \in Models |-> 0] /\ ttl = {}
    BY Zenon DEF Init
  <2>2. 0 \in 0..MaxFails
    BY GatewayAssumption
  <2> QED BY <2>1, <2>2 DEF BreakerTyped
<1>3. RequestsTyped
  <2>1. route \in [Reqs -> Seq(Models)]
    <3> DEFINE none == <<>>
    <3>1. none \in Seq(Models)
      OBVIOUS
    <3> HIDE DEF none
    <3>2. route = [r \in Reqs |-> none]
      BY DEF Init, none
    <3> QED BY <3>1, <3>2
  <2>2. /\ phase \in [Reqs -> Phases] /\ status \in [Reqs -> Statuses]
        /\ owed \in [Reqs -> 0..MaxTok]
    <3>1. /\ phase = [r \in Reqs |-> "idle"] /\ status = [r \in Reqs |-> "none"]
          /\ owed = [r \in Reqs |-> 0]
      BY Zenon DEF Init, Idle
    <3>2. 0 \in 0..MaxTok
      BY GatewayAssumption
    <3> QED BY <3>1, <3>2 DEF Phases, Statuses
  <2>3. /\ seen \in [Reqs -> Settings \cup {NoSettings}] /\ left \in [Reqs -> SUBSET Nat]
        /\ tried \in [Reqs -> SUBSET Models] /\ passed \in [Reqs -> SUBSET Models]
        /\ DOMAIN model = Reqs
    BY DEF Init
  <2> QED BY <2>1, <2>2, <2>3 DEF RequestsTyped
<1>4. ASSUME NEW r \in Reqs PROVE RequestInv(r)
  <2>1. phase[r] = "idle" /\ route[r] = <<>> /\ left[r] = {} /\ seen[r] = NoSettings
    BY DEF Init, Idle
  <2>2. Accepted(NoSettings)
    BY DEF Accepted, AliasesAccepted, RoutesAccepted, NoSettings, OneToOne
  <2> QED BY <2>1, <2>2 DEF RequestInv, Walk, Permitted, Dispatched, Routed
<1> QED BY <1>1, <1>2, <1>3, <1>4, TypedParts DEF GatewayInv

LEMMA StepKeeps == GatewayInv /\ [Next]_vars => GatewayInv'
<1> SUFFICES ASSUME GatewayInv, [Next]_vars PROVE GatewayInv'
  OBVIOUS
<1>1. RequestsTyped'
  <2>1. ASSUME NEW r \in Reqs, StepOf(r) PROVE RequestsTyped'
    BY <2>1, RequestsTypedKept
  <2>2. ASSUME UNCHANGED requestVars PROVE RequestsTyped'
    BY <2>2, TypedParts DEF requestVars, RequestsTyped, GatewayInv
  <2>3. CASE Admin \/ UNCHANGED vars
    BY <2>2, <2>3 DEF Admin, UpdateKey, ResetUsage, DeleteKey, KeyExpires, vars
  <2>4. ASSUME NEW c \in Models, CooldownEnds(c) PROVE RequestsTyped'
    BY <2>2, <2>4 DEF CooldownEnds
  <2> QED BY <2>1, <2>3, <2>4 DEF Next, StepOf
<1>2. KeyTyped' /\ BreakerTyped'
  BY KeyTypedKept, BreakerTypedKept
<1>3. \A r \in Reqs : RequestInv(r)'
  BY RequestsKeep
<1> QED BY <1>1, <1>2, <1>3, TypedParts DEF GatewayInv

THEOREM GatewayInvariant == Spec => []GatewayInv
<1> QED BY InitGives, StepKeeps, PTL DEF Spec

\* Every request's position stands in its route, and a request that is about
\* to try a candidate has one.
THEOREM TypeCorrect == Spec => []TypeOK
<1>1. GatewayInv => TypeOK
  BY DEF GatewayInv, Typed, TypeOK, RequestInv, Walk
<1> QED BY <1>1, GatewayInvariant, PTL

\* Whatever settings the admin API accepts, a call goes to a candidate of the
\* route that was named or to a model the allowlist holds, or to what a route is
\* named, and that only where routes are not walked.
THEOREM DispatchPermitted == Spec => []DispatchIsPermitted
<1>1. GatewayInv => DispatchIsPermitted
  BY DEF GatewayInv, RequestInv, Dispatched, DispatchIsPermitted
<1> QED BY <1>1, GatewayInvariant, PTL

\* A route is walked in its configured order, and none of its candidates is
\* left out.
THEOREM RouteInOrder == Spec => []RouteTriesInOrder
<1>1. GatewayInv => RouteTriesInOrder
  <2> SUFFICES ASSUME GatewayInv, NEW r \in Reqs, Routed(r)
               PROVE  /\ phase[r] \in {"call", "bill", "stream"} =>
                            \E i \in left[r] : /\ route[r][i] = Candidate(r)
                                               /\ Before(r, i) \subseteq tried[r] \cup passed[r]
                      /\ phase[r] = "failed" => /\ tried[r] # {}
                                                /\ Image(route[r]) \subseteq tried[r] \cup passed[r]
    BY DEF RouteTriesInOrder
  <2>1. /\ route[r] \in Seq(Models) /\ left[r] \subseteq DOMAIN route[r]
        /\ \A i \in DOMAIN route[r] : i \in left[r] \/ route[r][i] \in tried[r] \cup passed[r]
    BY DEF GatewayInv, Typed, RequestInv, Walk
  <2>2. CASE phase[r] \in {"call", "bill", "stream"}
    <3> DEFINE first == Min(left[r])
    <3>1. left[r] # {}
      BY <2>2 DEF GatewayInv, RequestInv, Walk
    <3>2. /\ first \in left[r] /\ first \in Nat /\ first \in DOMAIN route[r]
          /\ route[r][first] = Candidate(r) /\ \A i \in left[r] : first <= i
      BY <3>1, CandidateFacts
    <3> HIDE DEF first
    <3>3. ASSUME NEW j \in 1..first - 1 PROVE route[r][j] \in tried[r] \cup passed[r]
      <4>1. j \in DOMAIN route[r] /\ ~(first <= j)
        BY <2>1, <3>2
      <4> QED BY <4>1, <2>1, <3>2
    <3>4. Before(r, first) \subseteq tried[r] \cup passed[r]
      BY <3>3 DEF Before
    <3> QED BY <2>2, <3>2, <3>4
  <2>3. CASE phase[r] = "failed"
    <3>1. left[r] = {} /\ tried[r] # {}
      BY <2>3 DEF GatewayInv, RequestInv, Walk
    <3> QED BY <2>1, <2>3, <3>1 DEF Image
  <2> QED BY <2>2, <2>3
<1> QED BY <1>1, GatewayInvariant, PTL

(***************************************************************************)
(* The circuit breaker closes                                              *)
(***************************************************************************)
\* Request r is about to set the expiry of model c.
Expiring(r, c) == phase[r] = "expire" /\ Candidate(r) = c

WillClose(c) == c \in ttl \cup orphaned \/ \E r \in Reqs : Expiring(r, c)

\* Another request that is about to set an expiry still is.
LEMMA ExpiringKept ==
    ASSUME GatewayInv, NEW r \in Reqs, StepOf(r), NEW q \in Reqs \ {r}, NEW c, Expiring(q, c)
    PROVE  Expiring(q, c)'
BY OthersSame DEF Same, Expiring, Candidate

\* A step that leaves Redis alone.
LEMMA QuietKeepsClosing ==
    ASSUME GatewayInv, NEW r \in Reqs, StepOf(r), phase[r] # "expire",
           UNCHANGED breakerVars, NEW c, WillClose(c)
    PROVE  WillClose(c)'
<1>1. ASSUME NEW q \in Reqs, Expiring(q, c) PROVE Expiring(q, c)'
  BY <1>1, ExpiringKept DEF Expiring
<1> QED BY <1>1 DEF WillClose, breakerVars

LEMMA StepKeepsClosing ==
    ASSUME GatewayInv, OpenBreakerWillClose, [Next]_vars
    PROVE  OpenBreakerWillClose'
<1> USE DEF GatewayInv, Typed
<1> SUFFICES ASSUME NEW c \in Models, fails'[c] > 0 PROVE WillClose(c)'
  BY DEF OpenBreakerWillClose, WillClose, Expiring
<1>1. fails[c] > 0 => WillClose(c)
  BY DEF OpenBreakerWillClose, WillClose, Expiring
<1>2. fails[c] \in Nat
  BY GatewayAssumption
<1>3. ASSUME NEW r \in Reqs, RecordSuccess(r) PROVE WillClose(c)'
  <2>1. phase[r] = "record" /\ StepOf(r)
    BY <1>3 DEF RecordSuccess, StepOf, Serve
  <2>2. CASE UNCHANGED breakerVars
    BY <1>1, <2>1, <2>2, QuietKeepsClosing DEF breakerVars
  <2>3. CASE /\ fails' = [fails EXCEPT ![Candidate(r)] = 0]
             /\ ttl' = ttl \ {Candidate(r)} /\ orphaned' = orphaned \ {Candidate(r)}
    <3>1. c # Candidate(r) /\ fails[c] > 0
      BY <2>3
    <3>2. ASSUME NEW q \in Reqs, Expiring(q, c) PROVE Expiring(q, c)'
      BY <2>1, <3>2, ExpiringKept DEF Expiring
    <3> QED BY <1>1, <2>3, <3>1, <3>2 DEF WillClose
  <2> QED BY <1>3, <2>2, <2>3 DEF RecordSuccess
<1>4. ASSUME NEW r \in Reqs, RecordFailure(r) PROVE WillClose(c)'
  <2>1. phase[r] = "record" /\ StepOf(r)
    BY <1>4 DEF RecordFailure, StepOf, Serve
  <2>2. /\ fails' = [fails EXCEPT ![Candidate(r)] = Smaller(@ + 1, MaxFails)]
        /\ UNCHANGED <<ttl, orphaned, route, left>>
        /\ phase' = [phase EXCEPT ![r] = "expire"]
    BY <1>4 DEF RecordFailure
  <2>3. CASE c = Candidate(r)
    BY <2>2, <2>3 DEF WillClose, Expiring, Candidate
  <2>4. CASE c # Candidate(r)
    <3>1. fails[c] > 0
      BY <2>2, <2>4
    <3>2. ASSUME NEW q \in Reqs, Expiring(q, c) PROVE Expiring(q, c)'
      BY <2>1, <3>2, ExpiringKept DEF Expiring
    <3> QED BY <1>1, <2>2, <3>1, <3>2 DEF WillClose
  <2> QED BY <2>3, <2>4
<1>5. ASSUME NEW r \in Reqs, Expire(r) PROVE WillClose(c)'
  <2>1. /\ StepOf(r) /\ fails' = fails
        /\ \/ /\ ttl' = IF fails[Candidate(r)] > 0 THEN ttl \cup {Candidate(r)} ELSE ttl
              /\ orphaned' = orphaned \ {Candidate(r)}
           \/ ttl' = ttl /\ orphaned' = orphaned \cup Unexpiring(Candidate(r))
    BY <1>5 DEF Expire, StepOf, Serve
  <2>2. CASE c = Candidate(r)
    BY <2>1, <2>2 DEF WillClose, Unexpiring
  <2>3. CASE c # Candidate(r)
    <3>1. ASSUME NEW q \in Reqs, Expiring(q, c) PROVE Expiring(q, c)'
      BY <2>1, <2>3, <3>1, ExpiringKept DEF Expiring
    <3>2. c \in ttl \cup orphaned => c \in ttl' \cup orphaned'
      BY <2>1, <2>3
    <3> QED BY <1>1, <2>1, <3>1, <3>2 DEF WillClose
  <2> QED BY <2>2, <2>3
<1>6. ASSUME NEW r \in Reqs, Die(r) PROVE WillClose(c)'
  <2>1. /\ StepOf(r) /\ fails' = fails /\ ttl' = ttl
        /\ orphaned' = orphaned \cup
                IF phase[r] = "expire" THEN Unexpiring(Candidate(r)) ELSE {}
    BY <1>6 DEF Die, StepOf
  <2>2. ASSUME NEW q \in Reqs, Expiring(q, c) PROVE WillClose(c)'
    <3>1. CASE q = r
      BY <2>1, <2>2, <3>1 DEF Expiring, Unexpiring, WillClose
    <3>2. CASE q # r
      BY <2>1, <2>2, <3>2, ExpiringKept DEF WillClose
    <3> QED BY <3>1, <3>2
  <2> QED BY <1>1, <2>1, <2>2 DEF WillClose
<1>7. ASSUME NEW r \in Reqs, StepOf(r), ~RecordSuccess(r), ~RecordFailure(r), ~Expire(r), ~Die(r)
      PROVE  WillClose(c)'
  <2>1. UNCHANGED breakerVars /\ phase[r] # "expire"
    BY <1>7 DEF StepOf, Serve, AskRoute, AskModel, AskMedia, Admit, Idle, Filter, TryCandidate, Fail,
                Answer, StreamEnds, AnswerStream, StreamBreaksOff, Refused, Bill, StreamBill, MediaEnds,
                RecordNothing
  <2> QED BY <1>1, <1>7, <2>1, QuietKeepsClosing DEF breakerVars
<1>8. ASSUME UNCHANGED requestVars, fails[c] > 0, c \in ttl => c \in ttl', orphaned' = orphaned
      PROVE  WillClose(c)'
  BY <1>1, <1>8 DEF WillClose, Expiring, Candidate, requestVars
<1>9. ASSUME NEW d \in Models, CooldownEnds(d) PROVE WillClose(c)'
  <2>1. c # d
    BY <1>9 DEF CooldownEnds
  <2> QED BY <1>8, <1>9, <2>1 DEF CooldownEnds
<1>10. CASE Admin \/ UNCHANGED vars
  BY <1>8, <1>10 DEF Admin, UpdateKey, ResetUsage, DeleteKey, KeyExpires, vars, breakerVars
<1>11. ASSUME NEW r \in Reqs, StepOf(r) PROVE WillClose(c)'
  BY <1>3, <1>4, <1>5, <1>6, <1>7, <1>11
<1> QED BY <1>9, <1>10, <1>11 DEF Next, StepOf

\* A breaker that is open will close, whatever requests, successes, failures
\* and cooldowns interleave, unless the EXPIRE that follows its INCR was lost.
THEOREM BreakerCloses == Spec => []OpenBreakerWillClose
<1>1. Init => OpenBreakerWillClose
  <2>1. ASSUME Init PROVE fails = [m \in Models |-> 0]
    BY <2>1, Zenon DEF Init
  <2> QED BY <2>1 DEF OpenBreakerWillClose
<1>2. GatewayInv /\ OpenBreakerWillClose /\ [Next]_vars => OpenBreakerWillClose'
  BY StepKeepsClosing
<1> QED BY <1>1, <1>2, GatewayInvariant, PTL DEF Spec

(***************************************************************************)
(* The quota                                                               *)
(***************************************************************************)
\* Requests whose answer may still be charged to the row.
CanBill == {r \in Reqs : phase[r] # "idle" /\ ~(phase[r] = "record" /\ status[r] = "ok")}

\* The answers of the requests admitted so far fit: each was admitted below
\* the quota, and is charged once.
QuotaInv ==
    /\ peak \in Nat /\ row.quota <= peak /\ unlimited \in BOOLEAN
    /\ ~unlimited => row.quota > 0
    /\ \A r \in Reqs : phase[r] = "bill" => status[r] = "ok"
    /\ ~unlimited =>
        used + Cardinality(CanBill) * MaxTok <= peak - 1 + Cardinality(Reqs) * MaxTok

LEMMA Product ==
    ASSUME NEW m \in Nat, NEW a \in Nat, NEW b \in Nat, a <= b
    PROVE  a * m <= b * m /\ (a + 1) * m = a * m + m /\ a * m \in Nat /\ b * m \in Nat
<1>1. PICK d \in Nat : b = a + d
  BY b - a \in Nat, b = a + (b - a)
<1>2. (a + d) * m = a * m + d * m /\ d * m \in Nat /\ a * m \in Nat
  OBVIOUS
<1> QED BY <1>1, <1>2

LEMMA CanBillFinite ==
    /\ IsFiniteSet(CanBill) /\ Cardinality(CanBill) \in Nat
    /\ Cardinality(Reqs) \in Nat /\ Cardinality(CanBill) <= Cardinality(Reqs)
BY GatewayAssumption, FS_Subset, FS_CardinalityType DEF CanBill

\* A request that is charged, or over, makes room; no other step needs any.
LEMMA RoomKept ==
    ASSUME GatewayInv, QuotaInv, CanBill' \subseteq CanBill, used' = used,
           UNCHANGED <<peak, unlimited>>
    PROVE  ~unlimited' =>
            used' + Cardinality(CanBill)' * MaxTok <= peak' - 1 + Cardinality(Reqs) * MaxTok
<1>1. /\ Cardinality(CanBill)' \in Nat /\ Cardinality(CanBill) \in Nat
      /\ Cardinality(CanBill)' <= Cardinality(CanBill)
  BY CanBillFinite, FS_Subset, FS_CardinalityType
<1>2. Cardinality(CanBill)' * MaxTok <= Cardinality(CanBill) * MaxTok
  BY <1>1, Product, GatewayAssumption
<1>3. /\ used \in Nat /\ peak \in Nat /\ MaxTok \in Nat /\ Cardinality(Reqs) \in Nat
  BY CanBillFinite, GatewayAssumption DEF GatewayInv, Typed, QuotaInv
<1> DEFINE before == Cardinality(CanBill) * MaxTok
           after  == Cardinality(CanBill)' * MaxTok
           all    == Cardinality(Reqs) * MaxTok
<1>4. before \in Nat /\ after \in Nat /\ all \in Nat /\ after <= before
  BY <1>1, <1>2, <1>3, Product
<1>5. ~unlimited => used + before <= peak - 1 + all
  BY DEF QuotaInv
<1> HIDE DEF before, after, all
<1>6. ~unlimited' => used' + after <= peak' - 1 + all
  BY <1>3, <1>4, <1>5
<1> QED BY <1>6 DEF after, all

\* A request is admitted below the quota.
LEMMA AdmissionKeepsRoom ==
    ASSUME GatewayInv, QuotaInv, NEW r \in Reqs, phase[r] = "idle", Verify,
           CanBill' \subseteq CanBill \cup {r}, UNCHANGED <<row, used, peak, unlimited>>
    PROVE  ~unlimited' =>
            used' + Cardinality(CanBill)' * MaxTok <= peak' - 1 + Cardinality(Reqs) * MaxTok
<1> SUFFICES ASSUME ~unlimited
             PROVE  used + Cardinality(CanBill)' * MaxTok <= peak - 1 + Cardinality(Reqs) * MaxTok
  OBVIOUS
<1>1. used <= peak - 1 /\ used \in Nat /\ peak \in Nat
  BY DEF QuotaInv, Verify, GatewayInv, Typed
<1>2. CanBill' \subseteq Reqs
  BY DEF CanBill
<1>3. /\ Cardinality(CanBill)' \in Nat /\ Cardinality(Reqs) \in Nat
      /\ Cardinality(CanBill)' <= Cardinality(Reqs)
  BY <1>2, GatewayAssumption, FS_Subset, FS_CardinalityType
<1> DEFINE after == Cardinality(CanBill)' * MaxTok
           all   == Cardinality(Reqs) * MaxTok
<1>4. after \in Nat /\ all \in Nat /\ after <= all
  BY <1>3, Product, GatewayAssumption
<1> HIDE DEF after, all
<1>5. used + after <= peak - 1 + all
  BY <1>1, <1>4
<1> QED BY <1>5 DEF after, all

\* An answer is charged by a request that is then done with charging.
LEMMA BillKeepsRoom ==
    ASSUME GatewayInv, QuotaInv, NEW r \in CanBill, CanBill' \subseteq CanBill \ {r},
           used' = used \/ used' = used + owed[r], UNCHANGED <<peak, unlimited>>
    PROVE  ~unlimited' =>
            used' + Cardinality(CanBill)' * MaxTok <= peak' - 1 + Cardinality(Reqs) * MaxTok
<1>1. r \in Reqs
  BY DEF CanBill
<1>2. /\ used \in Nat /\ peak \in Nat /\ MaxTok \in Nat /\ owed[r] \in 0..MaxTok
      /\ Cardinality(Reqs) \in Nat
  BY <1>1, CanBillFinite, GatewayAssumption DEF GatewayInv, Typed, QuotaInv
<1>3. /\ Cardinality(CanBill \ {r}) = Cardinality(CanBill) - 1
      /\ Cardinality(CanBill \ {r}) \in Nat /\ IsFiniteSet(CanBill \ {r})
      /\ Cardinality(CanBill) \in Nat
  BY CanBillFinite, FS_RemoveElement, FS_CardinalityType
<1>4. Cardinality(CanBill)' \in Nat /\ Cardinality(CanBill)' <= Cardinality(CanBill \ {r})
  BY <1>3, FS_Subset, FS_CardinalityType
<1> DEFINE rest   == Cardinality(CanBill \ {r})
           before == Cardinality(CanBill) * MaxTok
           after  == Cardinality(CanBill)' * MaxTok
           all    == Cardinality(Reqs) * MaxTok
<1>5. /\ before = rest * MaxTok + MaxTok /\ rest * MaxTok \in Nat
      /\ after \in Nat /\ all \in Nat /\ after <= rest * MaxTok
  <2>1. Cardinality(CanBill) = rest + 1
    BY <1>3
  <2>2. (rest + 1) * MaxTok = rest * MaxTok + MaxTok /\ rest * MaxTok \in Nat
    BY <1>2, <1>3, Product
  <2>3. after <= rest * MaxTok /\ after \in Nat
    BY <1>2, <1>3, <1>4, Product
  <2>4. all \in Nat
    BY <1>2, Product
  <2> QED BY <2>1, <2>2, <2>3, <2>4
<1>6. ~unlimited => used + before <= peak - 1 + all
  BY DEF QuotaInv
<1>7. used' <= used + MaxTok /\ used' \in Nat
  BY <1>2
<1> HIDE DEF rest, before, after, all
<1>8. ASSUME ~unlimited' PROVE used' + after <= peak' - 1 + all
  <2>1. used + before <= peak - 1 + all /\ peak' = peak
    BY <1>6, <1>8
  <2> DEFINE others == rest * MaxTok
  <2>2. before = others + MaxTok /\ others \in Nat /\ after <= others
    BY <1>5
  <2> HIDE DEF others
  <2>3. used + MaxTok \in Nat /\ (used + MaxTok) + after <= peak - 1 + all
    BY <1>2, <1>5, <2>1, <2>2
  <2>4. \A v \in Nat : v <= used + MaxTok => v + after <= peak - 1 + all
    BY <1>2, <1>5, <2>3
  <2>5. used' + after <= peak - 1 + all
    BY <1>7, <2>4, Zenon
  <2> QED BY <2>1, <2>5
<1> QED BY <1>8 DEF after, all

\* A step of a request changes neither the quota nor what it was.
LEMMA RequestKeepsQuota ==
    ASSUME GatewayInv, QuotaInv, NEW r \in Reqs, StepOf(r)
    PROVE  QuotaInv'
<1> USE DEF GatewayInv, Typed
<1>1. UNCHANGED <<row, peak, unlimited>>
  BY DEF StepOf, Serve, AskRoute, AskModel, AskMedia, Filter, TryCandidate, Fail, Answer, StreamEnds,
         AnswerStream, StreamBreaksOff, Refused, Bill, StreamBill, MediaEnds, RecordSuccess, RecordNothing,
         RecordFailure, Expire, Die, keyVars
<1>2. \A q \in Reqs \ {r} : phase'[q] = phase[q] /\ status'[q] = status[q]
  BY OthersSame DEF Same
<1>3. CanBill' \subseteq CanBill \cup {r}
  BY <1>2 DEF CanBill
<1> DEFINE Room == ~unlimited => used + Cardinality(CanBill) * MaxTok
                                    <= peak - 1 + Cardinality(Reqs) * MaxTok
<1>4. ASSUME phase'[r] = "bill" => status'[r] = "ok", Room' PROVE QuotaInv'
  BY <1>1, <1>2, <1>4 DEF QuotaInv
<1> HIDE DEF Room
<1>5. ASSUME r \notin CanBill', used' = used PROVE Room'
  BY <1>1, <1>3, <1>5, RoomKept DEF Room
<1>6. ASSUME r \in CanBill, used' = used PROVE Room'
  BY <1>1, <1>3, <1>6, RoomKept DEF Room
<1>7. ASSUME Over(r), used' = used PROVE QuotaInv'
  <2>1. phase'[r] = "idle" /\ r \notin CanBill'
    BY <1>7 DEF Over, Idle, CanBill
  <2> QED BY <1>4, <1>5, <1>7, <2>1
<1>8. ASSUME r \in CanBill, r \notin CanBill', phase'[r] # "bill",
             used' = used \/ used' = used + owed[r]
      PROVE  QuotaInv'
  <2>1. CanBill' \subseteq CanBill \ {r}
    BY <1>3, <1>8
  <2>2. Room'
    BY <1>1, <1>8, <2>1, BillKeepsRoom DEF Room
  <2> QED BY <1>4, <1>8, <2>2
<1>9. ASSUME r \in CanBill, used' = used, phase'[r] = "bill" => status'[r] = "ok"
      PROVE  QuotaInv'
  <2>1. Room'
    BY <1>6, <1>9
  <2> QED BY <1>4, <1>9, <2>1
<1>10. ASSUME NEW name \in Names, AskRoute(r, name) \/ AskModel(r, name) \/ AskMedia(r, name) PROVE QuotaInv'
  <2>1. /\ phase[r] = "idle" /\ Verify /\ used' = used
        /\ phase'[r] # "bill"
    BY <1>10 DEF AskRoute, AskModel, AskMedia, Admit, keyVars, Idle
  <2>2. Room'
    BY <1>1, <1>3, <2>1, AdmissionKeepsRoom DEF Room
  <2> QED BY <1>4, <2>1, <2>2
<1>11. CASE Fail(r) \/ MediaEnds(r) \/ StreamBreaksOff(r) \/ Die(r)
  BY <1>7, <1>11 DEF Fail, MediaEnds, StreamBreaksOff, Die, keyVars
<1>12. CASE Filter(r) \/ TryCandidate(r)
  <2>1. phase[r] \in {"filter", "route"} /\ used' = used /\ phase'[r] # "bill"
    BY <1>12 DEF Filter, TryCandidate, keyVars
  <2>2. r \in CanBill
    BY <2>1 DEF CanBill
  <2> QED BY <1>9, <2>1, <2>2
<1>13. ASSUME NEW n \in 0..MaxTok, Answer(r, n) \/ StreamEnds(r, n) PROVE QuotaInv'
  <2>1. phase[r] \in {"call", "stream"} /\ used' = used /\ (phase'[r] = "bill" => status'[r] = "ok")
    BY <1>13 DEF Answer, StreamEnds, keyVars
  <2>2. r \in CanBill
    BY <2>1 DEF CanBill
  <2> QED BY <1>9, <2>1, <2>2
<1>14. CASE AnswerStream(r) \/ \E kind \in Statuses : Refused(r, kind)
  <2>1. phase[r] = "call" /\ used' = used /\ phase'[r] # "bill"
    BY <1>14 DEF AnswerStream, Refused, keyVars
  <2>2. r \in CanBill
    BY <2>1 DEF CanBill
  <2> QED BY <1>9, <2>1, <2>2
<1>15. CASE Bill(r)
  <2>1. /\ phase[r] = "bill" /\ status[r] = "ok"
        /\ used' = used \/ used' = used + owed[r]
    BY <1>15 DEF Bill, BillRouterKey, QuotaInv
  <2>2. \/ phase'[r] = "idle"
        \/ phase'[r] = "record" /\ status'[r] = "ok"
    BY <1>15, <2>1 DEF Bill, Over, Idle
  <2>3. r \in CanBill /\ r \notin CanBill'
    BY <2>1, <2>2 DEF CanBill
  <2> QED BY <1>8, <2>1, <2>2, <2>3
<1>16. CASE StreamBill(r)
  <2>1. phase[r] = "streambill" /\ phase'[r] = "idle" /\ (used' = used \/ used' = used + owed[r])
    BY <1>16 DEF StreamBill, BillRouterKey, Over, Idle
  <2>2. r \in CanBill /\ r \notin CanBill'
    BY <2>1 DEF CanBill
  <2> QED BY <1>8, <2>1, <2>2
<1>17. CASE RecordSuccess(r)
  <2>1. CASE status[r] = "ok"
    BY <1>7, <1>17, <2>1 DEF RecordSuccess, keyVars
  <2>2. CASE status[r] # "ok"
    <3>1. phase[r] = "record" /\ phase'[r] = "stream" /\ used' = used
      BY <1>17, <2>2 DEF RecordSuccess, keyVars
    <3>2. r \in CanBill
      BY <2>2, <3>1 DEF CanBill
    <3> QED BY <1>9, <3>1, <3>2
  <2> QED BY <2>1, <2>2
<1>18. CASE RecordNothing(r) \/ RecordFailure(r) \/ Expire(r)
  <2>1. phase[r] = "expire" \/ (phase[r] = "record" /\ status[r] # "ok")
    BY <1>18 DEF RecordNothing, RecordFailure, Expire
  <2>2. used' = used
    BY <1>18 DEF RecordNothing, RecordFailure, Expire, keyVars
  <2>3. CASE RecordNothing(r) \/ Expire(r)
    <3>1. phase' = [phase EXCEPT ![r] = IF left'[r] = {} THEN "failed" ELSE "route"]
      BY <2>3 DEF RecordNothing, Expire, NextCandidate
    <3>2. phase'[r] # "bill"
      BY <3>1
    <3>3. r \in CanBill
      BY <2>1 DEF CanBill
    <3> QED BY <1>9, <2>2, <3>2, <3>3
  <2>4. CASE RecordFailure(r)
    <3>1. phase'[r] = "expire"
      BY <2>4 DEF RecordFailure
    <3>2. r \in CanBill
      BY <2>1 DEF CanBill
    <3> QED BY <1>9, <2>2, <3>1, <3>2
  <2> QED BY <1>18, <2>3, <2>4
<1> QED BY <1>10, <1>11, <1>12, <1>13, <1>14, <1>15, <1>16, <1>17, <1>18 DEF StepOf, Serve

\* The admin API only raises the highest quota, and only lowers what is used.
LEMMA AdminKeepsQuota ==
    ASSUME GatewayInv, QuotaInv, Admin
    PROVE  QuotaInv'
<1>1. UNCHANGED <<phase, status>>
  BY DEF Admin, UpdateKey, ResetUsage, DeleteKey, KeyExpires, requestVars
<1>2. CanBill' = CanBill
  BY <1>1 DEF CanBill
<1> DEFINE before == Cardinality(CanBill) * MaxTok
           all    == Cardinality(Reqs) * MaxTok
<1>3. before \in Nat /\ all \in Nat /\ before <= all
  BY CanBillFinite, Product, GatewayAssumption
<1>4. Cardinality(CanBill)' * MaxTok = before
  BY <1>2
<1> HIDE DEF before, all
<1>5. /\ used \in Nat /\ peak \in Nat /\ row.quota \in Nat /\ row.quota <= peak
      /\ unlimited \in BOOLEAN /\ (~unlimited => row.quota > 0)
      /\ (~unlimited => used + before <= peak - 1 + all)
  BY DEF GatewayInv, Typed, QuotaInv, before, all
<1>6. ASSUME used' \in Nat, used' <= used, row'.quota \in Nat, row'.quota <= peak',
             peak' \in Nat, peak <= peak', unlimited' \in BOOLEAN,
             unlimited => unlimited', ~unlimited' => row'.quota > 0
      PROVE  QuotaInv'
  <2>1. ASSUME ~unlimited' PROVE used' + before <= peak' - 1 + all
    <3>1. used + before <= peak - 1 + all
      BY <1>5, <1>6, <2>1, Zenon
    <3>2. /\ used \in Nat /\ used' \in Nat /\ used' <= used
          /\ peak \in Nat /\ peak' \in Nat /\ peak <= peak'
      BY <1>5, <1>6, Zenon
    <3>3. \A v, p \in Nat : v <= used /\ peak <= p => v + before <= p - 1 + all
      BY <1>3, <1>5, <3>1
    <3> QED BY <3>2, <3>3, Zenon
  <2>2. \A r \in Reqs : phase'[r] = "bill" => status'[r] = "ok"
    BY <1>1 DEF QuotaInv
  <2> QED BY <1>4, <1>6, <2>1, <2>2 DEF QuotaInv, all
<1>7. ASSUME NEW q \in Quotas, NEW t \in Settings, NEW live \in {row.live, TRUE},
             NEW reset \in BOOLEAN, UpdateKey(q, t, live, reset)
      PROVE  QuotaInv'
  <2>1. q \in Nat
    BY GatewayAssumption
  <2>2. /\ row'.quota = q /\ used' = used
        /\ peak' = IF q > peak THEN q ELSE peak
        /\ unlimited' = (unlimited \/ q = 0)
    BY <1>7 DEF UpdateKey
  <2>3. peak' \in Nat /\ peak <= peak' /\ q <= peak'
    BY <1>5, <2>1, <2>2
  <2>4. unlimited' \in BOOLEAN /\ (unlimited => unlimited') /\ (~unlimited' => q # 0)
    BY <2>2, Zenon
  <2>5. ~unlimited' => q > 0
    BY <2>1, <2>4
  <2> QED BY <1>5, <1>6, <2>1, <2>2, <2>3, <2>4, <2>5
<1>8. CASE ResetUsage \/ DeleteKey \/ KeyExpires
  <2>1. row'.quota = row.quota
    <3>1. \/ row' = row
          \/ row' = [row EXCEPT !.exists = FALSE]
          \/ row' = [row EXCEPT !.live = FALSE]
      BY <1>8 DEF ResetUsage, DeleteKey, KeyExpires
    <3>2. row \in [exists : BOOLEAN, live : BOOLEAN, quota : Nat, settings : Settings]
      BY DEF GatewayInv, Typed
    <3> QED BY <3>1, <3>2
  <2>2. (used' = 0 \/ used' = used) /\ peak' = peak /\ unlimited' = unlimited
    BY <1>8 DEF ResetUsage, DeleteKey, KeyExpires
  <2> QED BY <1>5, <1>6, <2>1, <2>2
<1> QED BY <1>7, <1>8 DEF Admin

\* However requests, resets and changes of the quota interleave, the row never
\* shows more than the highest quota less one and one answer per request.
THEOREM QuotaBounded == Spec => []QuotaOverrunBounded
<1>1. Init => QuotaInv
  <2> SUFFICES ASSUME Init PROVE QuotaInv
    OBVIOUS
  <2>1. /\ phase = [r \in Reqs |-> "idle"] /\ used = 0 /\ peak = row.quota
        /\ unlimited = (row.quota = 0)
    BY Zenon DEF Init, Idle
  <2>2. row.quota \in Nat
    BY InitGives DEF GatewayInv, Typed
  <2>3. CanBill = {}
    BY <2>1 DEF CanBill
  <2>4. Cardinality(CanBill) = 0
    BY <2>3, FS_EmptySet
  <2>5. unlimited \in BOOLEAN /\ (~unlimited => row.quota # 0)
    BY <2>1, Zenon
  <2> DEFINE all == Cardinality(Reqs) * MaxTok
  <2>6. all \in Nat /\ 0 * MaxTok = 0
    BY CanBillFinite, Product, GatewayAssumption
  <2> HIDE DEF all
  <2>7. ~unlimited => 0 <= peak - 1 + all
    BY <2>1, <2>2, <2>5, <2>6
  <2>8. ~unlimited => used + Cardinality(CanBill) * MaxTok <= peak - 1 + all
    BY <2>1, <2>4, <2>6, <2>7
  <2> QED BY <2>1, <2>2, <2>5, <2>8 DEF QuotaInv, all
<1>2. GatewayInv /\ QuotaInv /\ [Next]_vars => QuotaInv'
  <2> SUFFICES ASSUME GatewayInv, QuotaInv, [Next]_vars PROVE QuotaInv'
    OBVIOUS
  <2>1. ASSUME UNCHANGED <<row, used, peak, unlimited, phase, status>> PROVE QuotaInv'
    <3>1. CanBill' = CanBill
      BY <2>1 DEF CanBill
    <3> QED BY <2>1, <3>1 DEF QuotaInv
  <2>2. ASSUME NEW c \in Models, CooldownEnds(c) PROVE QuotaInv'
    BY <2>1, <2>2 DEF CooldownEnds, keyVars, requestVars
  <2>3. CASE UNCHANGED vars
    BY <2>1, <2>3 DEF vars, keyVars, requestVars
  <2> QED BY <2>2, <2>3, RequestKeepsQuota, AdminKeepsQuota DEF Next, StepOf
<1>3. GatewayInv /\ QuotaInv => QuotaOverrunBounded
  <2> SUFFICES ASSUME GatewayInv, QuotaInv, ~unlimited
               PROVE  used <= peak + Cardinality(Reqs) * MaxTok - 1
    BY DEF QuotaOverrunBounded
  <2> DEFINE held == Cardinality(CanBill) * MaxTok
             all  == Cardinality(Reqs) * MaxTok
  <2>1. held \in Nat /\ all \in Nat
    BY CanBillFinite, Product, GatewayAssumption
  <2>2. used + held <= peak - 1 + all /\ used \in Nat /\ peak \in Nat
    BY DEF GatewayInv, Typed, QuotaInv
  <2> HIDE DEF held, all
  <2>3. used <= peak + all - 1
    BY <2>1, <2>2
  <2> QED BY <2>3 DEF all
<1> QED BY <1>1, <1>2, <1>3, GatewayInvariant, PTL DEF Spec

(***************************************************************************)
(* A walk gets shorter                                                     *)
(***************************************************************************)
\* How far a request is from the end of its work for one candidate.
PhaseSteps(p) ==
    CASE p = "filter" -> 8 [] p = "route"  -> 7 [] p = "call"       -> 6
      [] p = "bill"   -> 5 [] p = "record" -> 4 [] p = "expire"     -> 3
      [] p = "stream" -> 2 [] p = "failed" -> 1 [] p = "streambill" -> 1
      [] p = "media"  -> 1
      [] p = "idle"   -> 0

\* The steps a request has left, at most: a candidate costs five, from the
\* check of its name to the EXPIRE of its breaker.
StepsLeft(r) == 5 * Cardinality(left[r]) + PhaseSteps(phase[r])

\* Whatever the admin API and the other requests do to the key, its quota and
\* the breakers, every step of a request under way uses up one of finitely
\* many, and nobody else gives it more: the failover chain never goes back to a
\* candidate that failed, and no candidate is called, billed or recorded twice.
WalksGetShorter ==
    /\ [](\A r \in Reqs : StepsLeft(r) \in Nat)
    /\ [][\A r \in Reqs : phase[r] # "idle" =>
              UNCHANGED <<phase[r], left[r]>> \/ StepsLeft(r)' < StepsLeft(r)]_vars

\* The candidates left can be counted.
LEMMA LeftFinite ==
    ASSUME GatewayInv, NEW r \in Reqs
    PROVE  IsFiniteSet(left[r]) /\ Cardinality(left[r]) \in Nat
<1>1. left[r] \subseteq DOMAIN route[r] /\ route[r] \in Seq(Models)
  BY DEF GatewayInv, Typed, RequestInv, Walk
<1>2. DOMAIN route[r] = 1..Len(route[r]) /\ Len(route[r]) \in Int /\ 1 \in Int
  BY <1>1
<1>3. IsFiniteSet(DOMAIN route[r])
  BY <1>2, FS_Interval
<1> QED BY <1>1, <1>3, FS_Subset, FS_CardinalityType

LEMMA PhaseStepsFacts ==
    /\ \A p \in Phases : PhaseSteps(p) \in 0..8 /\ (p # "idle" => PhaseSteps(p) > 0)
    /\ PhaseSteps("idle") = 0 /\ PhaseSteps("failed") = 1 /\ PhaseSteps("streambill") = 1
      /\ PhaseSteps("media") = 1
    /\ PhaseSteps("stream") = 2 /\ PhaseSteps("expire") = 3 /\ PhaseSteps("record") = 4
    /\ PhaseSteps("bill") = 5 /\ PhaseSteps("call") = 6 /\ PhaseSteps("route") = 7 /\ PhaseSteps("filter") = 8
<1>1. /\ PhaseSteps("idle") = 0 /\ PhaseSteps("failed") = 1 /\ PhaseSteps("streambill") = 1
      /\ PhaseSteps("media") = 1
      /\ PhaseSteps("stream") = 2 /\ PhaseSteps("expire") = 3 /\ PhaseSteps("record") = 4
      /\ PhaseSteps("bill") = 5 /\ PhaseSteps("call") = 6 /\ PhaseSteps("route") = 7 /\ PhaseSteps("filter") = 8
  BY DEF PhaseSteps
<1>2. ASSUME NEW p \in Phases PROVE PhaseSteps(p) \in 0..8 /\ (p # "idle" => PhaseSteps(p) > 0)
  <2>1. p \in {"idle", "filter", "route", "call", "bill", "record", "expire", "stream",
               "streambill", "media", "failed"}
    BY DEF Phases
  <2> QED BY <1>1, <2>1
<1> QED BY <1>1, <1>2

\* With no more candidates than before, a later phase is progress.
LEMMA LaterIsShorter ==
    ASSUME GatewayInv, NEW r \in Reqs, left'[r] \subseteq left[r],
           PhaseSteps(phase'[r]) < PhaseSteps(phase[r]), phase'[r] \in Phases
    PROVE  StepsLeft(r)' < StepsLeft(r)
<1> DEFINE before == Cardinality(left[r])
           after == Cardinality(left'[r])
<1>1. before \in Nat /\ after \in Nat /\ after <= before
  BY LeftFinite, FS_Subset, FS_CardinalityType
<1>2. PhaseSteps(phase[r]) \in 0..8 /\ PhaseSteps(phase'[r]) \in 0..8
  BY PhaseStepsFacts DEF GatewayInv, Typed
<1>3. StepsLeft(r) = 5 * before + PhaseSteps(phase[r]) /\ StepsLeft(r)' = 5 * after + PhaseSteps(phase'[r])
  BY DEF StepsLeft
<1> HIDE DEF before, after
<1> QED BY <1>1, <1>2, <1>3

\* A candidate that failed does not come back, so the next one is progress.
LEMMA NextCandidateIsShorter ==
    ASSUME GatewayInv, NEW r \in Reqs, phase[r] \in {"record", "expire"}, NextCandidate(r)
    PROVE  StepsLeft(r)' < StepsLeft(r)
<1> DEFINE before == Cardinality(left[r])
           after == Cardinality(left'[r])
<1>1. left[r] # {} /\ Routed(r) /\ Min(left[r]) \in left[r]
  BY CandidateFacts DEF GatewayInv, RequestInv, Walk
<1>2. left'[r] = left[r] \ {Min(left[r])} /\ phase'[r] \in {"failed", "route"}
  BY <1>1, NextCandidateFacts DEF NextCandidate, GatewayInv, Typed
<1>3. before \in Nat /\ after = before - 1
  BY <1>1, <1>2, LeftFinite, FS_RemoveElement
<1>4. StepsLeft(r) = 5 * before + PhaseSteps(phase[r]) /\ StepsLeft(r)' = 5 * after + PhaseSteps(phase'[r])
  BY DEF StepsLeft
<1> HIDE DEF before, after
<1>5. PhaseSteps(phase[r]) \in 3..4 /\ PhaseSteps(phase'[r]) \in {1, 7}
  BY <1>2, PhaseStepsFacts
<1> QED BY <1>3, <1>4, <1>5

\* A request that is over has nothing left to do.
LEMMA OverIsShorter ==
    ASSUME GatewayInv, NEW r \in Reqs, phase[r] # "idle", Over(r)
    PROVE  StepsLeft(r)' < StepsLeft(r)
<1>1. phase'[r] = "idle" /\ left'[r] = {} /\ phase[r] \in Phases
  BY DEF Over, Idle, GatewayInv, Typed
<1>2. PhaseSteps(phase'[r]) < PhaseSteps(phase[r]) /\ phase'[r] \in Phases
  BY <1>1, PhaseStepsFacts DEF Phases
<1> QED BY <1>1, <1>2, LaterIsShorter

\* Every step of a request under way.
LEMMA StepIsShorter ==
    ASSUME GatewayInv, NEW r \in Reqs, phase[r] # "idle", StepOf(r)
    PROVE  StepsLeft(r)' < StepsLeft(r)
<1> USE DEF GatewayInv, Typed
<1>1. ASSUME NEW p \in Phases, phase' = [phase EXCEPT ![r] = p],
             PhaseSteps(p) < PhaseSteps(phase[r]), left'[r] \subseteq left[r]
      PROVE  StepsLeft(r)' < StepsLeft(r)
  <2>1. phase'[r] = p
    BY <1>1
  <2> QED BY <1>1, <2>1, LaterIsShorter
<1>2. CASE Filter(r)
  <2>1. PICK kept \in {left[r], Eligible(route[r], left[r])} :
            /\ phase' = [phase EXCEPT ![r] = IF kept = {} THEN "failed" ELSE "route"]
            /\ left' = [left EXCEPT ![r] = kept]
    BY <1>2 DEF Filter
  <2>2. kept \subseteq left[r] /\ left'[r] = kept /\ phase[r] = "filter"
    BY <1>2, <2>1 DEF Filter, Eligible
  <2>3. PICK p \in {"failed", "route"} : phase' = [phase EXCEPT ![r] = p]
    BY <2>1
  <2>4. p \in Phases /\ PhaseSteps(p) < PhaseSteps(phase[r])
    BY <2>2, PhaseStepsFacts DEF Phases
  <2> QED BY <1>1, <2>2, <2>3, <2>4
<1>3. CASE TryCandidate(r)
  BY <1>1, <1>3, PhaseStepsFacts DEF TryCandidate, Phases
<1>4. ASSUME NEW n \in 0..MaxTok, Answer(r, n) \/ StreamEnds(r, n)
      PROVE  StepsLeft(r)' < StepsLeft(r)
  <2>1. /\ left' = left
        /\ \/ phase[r] = "call" /\ phase' = [phase EXCEPT ![r] = "bill"]
           \/ phase[r] = "stream" /\ phase' = [phase EXCEPT ![r] = "streambill"]
    BY <1>4 DEF Answer, StreamEnds
  <2>2. "bill" \in Phases /\ "streambill" \in Phases
    BY DEF Phases
  <2> QED BY <1>1, <2>1, <2>2, PhaseStepsFacts
<1>5. ASSUME AnswerStream(r) \/ \E kind \in Statuses : Refused(r, kind)
      PROVE  StepsLeft(r)' < StepsLeft(r)
  <2>1. phase[r] = "call" /\ left' = left
    BY <1>5 DEF AnswerStream, Refused
  <2>2. PICK p \in {"record", "stream", "failed"} : phase' = [phase EXCEPT ![r] = p]
    BY <1>5 DEF AnswerStream, Refused
  <2>3. p \in Phases /\ PhaseSteps(p) < PhaseSteps(phase[r])
    BY <2>1, PhaseStepsFacts DEF Phases
  <2> QED BY <1>1, <2>1, <2>2, <2>3
<1>6. CASE Bill(r)
  BY <1>1, <1>6, OverIsShorter, PhaseStepsFacts DEF Bill, Phases
<1>7. CASE RecordSuccess(r)
  <2>1. phase[r] = "record"
    BY <1>7 DEF RecordSuccess
  <2>2. Over(r) \/ (phase' = [phase EXCEPT ![r] = "stream"] /\ left' = left)
    BY <1>7 DEF RecordSuccess
  <2>3. "stream" \in Phases /\ PhaseSteps("stream") < PhaseSteps(phase[r])
    BY <2>1, PhaseStepsFacts DEF Phases
  <2> QED BY <1>1, <2>2, <2>3, OverIsShorter
<1>8. CASE RecordFailure(r)
  <2>1. phase[r] = "record" /\ phase' = [phase EXCEPT ![r] = "expire"] /\ left' = left
    BY <1>8 DEF RecordFailure
  <2>2. "expire" \in Phases /\ PhaseSteps("expire") < PhaseSteps(phase[r])
    BY <2>1, PhaseStepsFacts DEF Phases
  <2> QED BY <1>1, <2>1, <2>2
<1>9. CASE RecordNothing(r) \/ Expire(r)
  BY <1>9, NextCandidateIsShorter DEF RecordNothing, Expire
<1>10. CASE Fail(r) \/ StreamBill(r) \/ MediaEnds(r) \/ StreamBreaksOff(r) \/ Die(r)
  BY <1>10, OverIsShorter DEF Fail, StreamBill, MediaEnds, StreamBreaksOff, Die
<1>11. ASSUME NEW name \in Names PROVE ~AskRoute(r, name) /\ ~AskModel(r, name) /\ ~AskMedia(r, name)
  BY DEF AskRoute, AskModel, AskMedia, Admit, Idle
<1> QED BY <1>2, <1>3, <1>4, <1>5, <1>6, <1>7, <1>8, <1>9, <1>10, <1>11 DEF StepOf, Serve

\* A request of a router key takes finitely many steps, for any routes and
\* whatever fails, dies or changes meanwhile.
THEOREM WalksEnd == Spec => WalksGetShorter
<1>1. GatewayInv => \A r \in Reqs : StepsLeft(r) \in Nat
  <2> SUFFICES ASSUME GatewayInv, NEW r \in Reqs PROVE StepsLeft(r) \in Nat
    OBVIOUS
  <2>1. Cardinality(left[r]) \in Nat /\ PhaseSteps(phase[r]) \in 0..8
    BY LeftFinite, PhaseStepsFacts DEF GatewayInv, Typed
  <2> QED BY <2>1 DEF StepsLeft
<1>2. GatewayInv /\ [Next]_vars =>
        [\A r \in Reqs : phase[r] # "idle" =>
            UNCHANGED <<phase[r], left[r]>> \/ StepsLeft(r)' < StepsLeft(r)]_vars
  <2> SUFFICES ASSUME GatewayInv, Next, NEW q \in Reqs, phase[q] # "idle"
               PROVE  UNCHANGED <<phase[q], left[q]>> \/ StepsLeft(q)' < StepsLeft(q)
    BY Zenon
  <2>1. ASSUME NEW r \in Reqs, StepOf(r)
        PROVE  UNCHANGED <<phase[q], left[q]>> \/ StepsLeft(q)' < StepsLeft(q)
    <3>1. CASE r = q
      BY <2>1, <3>1, StepIsShorter
    <3>2. CASE r # q
      BY <2>1, <3>2, OthersSame DEF Same
    <3> QED BY <3>1, <3>2
  <2>2. CASE UNCHANGED requestVars
    BY <2>2 DEF requestVars
  <2>3. ASSUME NEW c \in Models, CooldownEnds(c) PROVE UNCHANGED requestVars
    BY <2>3 DEF CooldownEnds
  <2>4. CASE Admin
    BY <2>2, <2>4 DEF Admin, UpdateKey, ResetUsage, DeleteKey, KeyExpires
  <2> QED BY <2>1, <2>2, <2>3, <2>4 DEF Next, StepOf
<1> QED BY <1>1, <1>2, GatewayInvariant, StepKeeps, InitGives, PTL DEF Spec, WalksGetShorter
=============================================================================
