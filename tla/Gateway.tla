------------------------------- MODULE Gateway -------------------------------
(***************************************************************************)
(* Requests of one router key: the key's row in Postgres with its token    *)
(* quota, the failover chains of its model routes, and the circuit breaker *)
(* of each route candidate in Redis.  A step ends where the code awaits a  *)
(* database, Redis or the upstream; every such call may fail, and the      *)
(* process of a request may die.  Which key of which provider serves a     *)
(* call is the business of the pools; here a call has an outcome.          *)
(***************************************************************************)
EXTENDS KeyAccess, FiniteSets, SequencesExt

CONSTANTS
    Reqs,       \* requests that may be in flight together
    Settings,   \* settings an operator may submit
    Quotas,     \* token quotas an operator may submit, 0 for none
    FirstQuotas,\* those the key is made with
    MaxTok,     \* tokens of one answer, at most
    MaxRequests,\* bound: requests begun
    MaxOps,     \* bound: calls of the admin API
    MaxDeaths,  \* bound: processes that die
    MaxFails    \* bound: failures a breaker counts

ASSUME GatewayAssumption ==
    /\ IsFiniteSet(Reqs)
    /\ Quotas \subseteq Nat /\ FirstQuotas \subseteq Quotas
    /\ {MaxTok, MaxRequests, MaxOps, MaxDeaths, MaxFails} \subseteq Nat
    /\ MaxFails > 0
    /\ \A s \in Settings : \A n \in DOMAIN s.routes : s.routes[n] \in Seq(Models)

VARIABLES
    row,        \* the key's row: does it exist, has it expired, its quota and settings
    used,       \* tokens_used of the row
    resets,     \* admin calls between their two UPDATEs
    fails,      \* the breaker's counter per model, 0 for no key in Redis
    ttl,        \* models whose breaker has an expiry
    phase,      \* where each request is
    seen,       \* settings each request read with the row
    route,      \* the candidates of the route each request named, <<>> for none
    left,       \* positions in it of those it may still try
    model,      \* the model each request is calling
    status,     \* outcome of the call in hand
    owed,       \* tokens of the answer in hand
    begun, ops, deaths,     \* bounds
    peak,       \* history: the highest quota the key had
    unlimited,  \* history: the key had no quota at some time
    tried,      \* history: candidates that failed in this request
    passed,     \* history: candidates passed over because their breaker was open
    orphaned    \* history: models whose breaker lost its EXPIRE

keyVars     == <<row, used, resets, ops>>
breakerVars == <<fails, ttl, orphaned>>
requestVars == <<phase, seen, route, left, model, status, owed, tried, passed>>
vars == <<keyVars, breakerVars, requestVars, begun, deaths, peak, unlimited>>

NoSettings == [allowed |-> {}, aliases |-> <<>>, routes |-> <<>>]
Idle       == "idle"
Phases     == {"idle", "filter", "route", "call", "bill", "record", "expire", "stream", "streambill",
               "media", "failed"}
Statuses   == {"none", "ok", "stream", "client", "upstream"}

TypeOK ==
    /\ row.exists \in BOOLEAN /\ row.live \in BOOLEAN /\ row.quota \in Nat
    /\ used \in Nat /\ resets \in Nat
    /\ fails \in [Models -> 0..MaxFails] /\ ttl \subseteq Models
    /\ \A m \in ttl : fails[m] > 0
    /\ phase \in [Reqs -> Phases] /\ status \in [Reqs -> Statuses]
    /\ owed \in [Reqs -> 0..MaxTok]
    /\ route \in [Reqs -> Seq(Models)]
    /\ \A r \in Reqs :
        /\ left[r] \subseteq DOMAIN route[r]
        /\ phase[r] \in {"route", "record", "expire"} => left[r] # {}

Init ==
    /\ row \in [exists : {TRUE}, live : {TRUE}, quota : FirstQuotas,
                settings : {s \in Settings : Accepted(s)}]
    /\ used = 0 /\ resets = 0
    /\ fails = [m \in Models |-> 0] /\ ttl = {}
    /\ phase = [r \in Reqs |-> Idle]
    /\ seen = [r \in Reqs |-> NoSettings]
    /\ route = [r \in Reqs |-> <<>>] /\ left = [r \in Reqs |-> {}]
    /\ model = [r \in Reqs |-> ""]
    /\ status = [r \in Reqs |-> "none"]
    /\ owed = [r \in Reqs |-> 0]
    /\ begun = 0 /\ ops = 0 /\ deaths = 0
    /\ peak = row.quota /\ unlimited = (row.quota = 0)
    /\ tried = [r \in Reqs |-> {}] /\ passed = [r \in Reqs |-> {}]
    /\ orphaned = {}

(***************************************************************************)
(* Admission                                                               *)
(***************************************************************************)
\* Mutant: the quota is tested for being exceeded, not for being used up.
VerifyLate == row.exists /\ row.live /\ (row.quota = 0 \/ used <= row.quota)

\* verify_router_api_key: one SELECT.
Verify == row.exists /\ row.live /\ (row.quota = 0 \/ used < row.quota)

\* The request keeps the settings of the row it read.
Admit(r) ==
    /\ phase[r] = Idle /\ begun < MaxRequests /\ begun' = begun + 1
    /\ Verify
    /\ seen' = [seen EXCEPT ![r] = row.settings]

\* A known name is a route, a rename or a model.
AskRoute(r, name) ==
    LET m == Resolve(row.settings, name)
    IN  /\ Admit(r)
        /\ m \in DOMAIN row.settings.routes
        /\ route' = [route EXCEPT ![r] = row.settings.routes[m]]
        /\ left' = [left EXCEPT ![r] = DOMAIN row.settings.routes[m]]
        /\ phase' = [phase EXCEPT ![r] = "filter"]
        /\ UNCHANGED <<keyVars, breakerVars, model, status, owed, tried, passed,
                       deaths, peak, unlimited>>

AskModel(r, name) ==
    LET m == Resolve(row.settings, name)
    IN  /\ Admit(r)
        /\ m \notin DOMAIN row.settings.routes /\ ~Denied(row.settings, m, {})
        /\ model' = [model EXCEPT ![r] = m]
        /\ phase' = [phase EXCEPT ![r] = "call"]
        /\ UNCHANGED <<keyVars, breakerVars, route, left, status, owed, tried, passed,
                       deaths, peak, unlimited>>

\* The endpoints of images, audio and videos pass the name of a route as well,
\* but walk none: a route's name is then called as if it were a model.
AskMedia(r, name) ==
    LET m == Resolve(row.settings, name)
    IN  /\ Admit(r)
        /\ ~Denied(row.settings, m, {})
        /\ model' = [model EXCEPT ![r] = m]
        /\ phase' = [phase EXCEPT ![r] = "media"]
        /\ UNCHANGED <<keyVars, breakerVars, route, left, status, owed, tried, passed,
                       deaths, peak, unlimited>>

(***************************************************************************)
(* Model routes                                                            *)
(***************************************************************************)
Closed(c) == fails[c] = 0

\* Mutant: a route whose candidates all cool down has none to try.
EligibleOnly(candidates, positions) == {i \in positions : Closed(candidates[i])}

\* "eligible or candidates".
Eligible(candidates, positions) ==
    LET eligible == {i \in positions : Closed(candidates[i])}
    IN  IF eligible = {} THEN positions ELSE eligible

\* One MGET; if Redis does not answer, every candidate is attempted.
Filter(r) ==
    /\ phase[r] = "filter"
    /\ \E kept \in {left[r], Eligible(route[r], left[r])} :
        /\ phase' = [phase EXCEPT ![r] = IF kept = {} THEN "failed" ELSE "route"]
        /\ left' = [left EXCEPT ![r] = kept]
        /\ passed' = [passed EXCEPT ![r] = {route[r][i] : i \in left[r] \ kept}]
    /\ UNCHANGED <<keyVars, breakerVars, seen, route, model, status, owed, tried,
                   begun, deaths, peak, unlimited>>

\* The candidate in hand: the candidates are tried in the route's order.
Candidate(r) == route[r][Min(left[r])]

\* The endpoint called with a private request for the next candidate: its
\* name is resolved and checked again, under the settings read at first.
TryCandidate(r) ==
    LET c == Candidate(r)
        m == Resolve(seen[r], c)
    IN  /\ phase[r] = "route"
        /\ IF Denied(seen[r], m, {c})
           THEN /\ phase' = [phase EXCEPT ![r] = "record"]
                /\ status' = [status EXCEPT ![r] = "upstream"]
                /\ UNCHANGED model
           ELSE /\ phase' = [phase EXCEPT ![r] = "call"]
                /\ model' = [model EXCEPT ![r] = m]
                /\ UNCHANGED status
        /\ UNCHANGED <<keyVars, breakerVars, seen, route, left, owed, tried, passed,
                       begun, deaths, peak, unlimited>>

Routed(r) == route[r] # <<>>

\* A request is over: its handler returns.
Over(r) ==
    /\ phase' = [phase EXCEPT ![r] = Idle]
    /\ route' = [route EXCEPT ![r] = <<>>]
    /\ left' = [left EXCEPT ![r] = {}]
    /\ seen' = [seen EXCEPT ![r] = NoSettings]
    /\ model' = [model EXCEPT ![r] = ""]
    /\ status' = [status EXCEPT ![r] = "none"]
    /\ owed' = [owed EXCEPT ![r] = 0]
    /\ tried' = [tried EXCEPT ![r] = {}]
    /\ passed' = [passed EXCEPT ![r] = {}]

\* Mutant: the loop takes a step too many.
NextCandidateLate(r) ==
    /\ tried' = [tried EXCEPT ![r] = @ \cup {Candidate(r)}]
    /\ left' = [left EXCEPT ![r] = @ \ {Min(left[r])}]
    /\ phase' = [phase EXCEPT ![r] = IF left[r] = {} THEN "failed" ELSE "route"]
    /\ status' = [status EXCEPT ![r] = "none"]
    /\ UNCHANGED <<seen, route, model, owed, passed>>

\* The candidate failed: on to the next, or the last response is returned.
NextCandidate(r) ==
    /\ tried' = [tried EXCEPT ![r] = @ \cup {Candidate(r)}]
    /\ left' = [left EXCEPT ![r] = @ \ {Min(left[r])}]
    /\ phase' = [phase EXCEPT ![r] = IF left'[r] = {} THEN "failed" ELSE "route"]
    /\ status' = [status EXCEPT ![r] = "none"]
    /\ UNCHANGED <<seen, route, model, owed, passed>>

Fail(r) ==
    /\ phase[r] = "failed"
    /\ Over(r)
    /\ UNCHANGED <<keyVars, breakerVars, begun, deaths, peak, unlimited>>

(***************************************************************************)
(* The upstream call and its bill                                          *)
(***************************************************************************)
\* An answer as one JSON body, with the tokens it cost.
Answer(r, tokens) ==
    /\ phase[r] = "call"
    /\ status' = [status EXCEPT ![r] = "ok"]
    /\ owed' = [owed EXCEPT ![r] = tokens]
    /\ phase' = [phase EXCEPT ![r] = "bill"]
    /\ model' = [model EXCEPT ![r] = ""]
    /\ UNCHANGED <<keyVars, breakerVars, seen, route, left, tried, passed,
                   begun, deaths, peak, unlimited>>

\* The StreamingResponse object, a 200 whatever will come through it.
AnswerStream(r) ==
    /\ phase[r] = "call"
    /\ status' = [status EXCEPT ![r] = "stream"]
    /\ phase' = [phase EXCEPT ![r] = IF Routed(r) THEN "record" ELSE "stream"]
    /\ model' = [model EXCEPT ![r] = ""]
    /\ UNCHANGED <<keyVars, breakerVars, seen, route, left, owed, tried, passed,
                   begun, deaths, peak, unlimited>>

\* An error status: of the kind the breaker counts, or the client's own.
Refused(r, kind) ==
    /\ phase[r] = "call" /\ kind \in {"client", "upstream"}
    /\ status' = [status EXCEPT ![r] = kind]
    /\ phase' = [phase EXCEPT ![r] = IF Routed(r) THEN "record" ELSE "failed"]
    /\ model' = [model EXCEPT ![r] = ""]
    /\ UNCHANGED <<keyVars, breakerVars, seen, route, left, owed, tried, passed,
                   begun, deaths, peak, unlimited>>

\* _bill_router_key: one UPDATE, of no row once the key is deleted; a failed
\* one is printed and forgotten.
BillRouterKey(r) ==
    \/ /\ row.exists
       /\ used' = used + owed[r]
    \/ UNCHANGED used

\* A JSON answer is billed before its route hears of it.
Bill(r) ==
    /\ phase[r] = "bill"
    /\ BillRouterKey(r)
    /\ IF Routed(r)
       THEN /\ phase' = [phase EXCEPT ![r] = "record"]
            /\ owed' = [owed EXCEPT ![r] = 0]
            /\ UNCHANGED <<seen, route, left, model, status, tried, passed>>
       ELSE Over(r)
    /\ UNCHANGED <<row, resets, ops, breakerVars, begun, deaths, peak, unlimited>>

\* A stream is billed when it ends.
StreamEnds(r, tokens) ==
    /\ phase[r] = "stream"
    /\ owed' = [owed EXCEPT ![r] = tokens]
    /\ phase' = [phase EXCEPT ![r] = "streambill"]
    /\ UNCHANGED <<keyVars, breakerVars, seen, route, left, model, status, tried, passed,
                   begun, deaths, peak, unlimited>>

StreamBill(r) ==
    /\ phase[r] = "streambill"
    /\ BillRouterKey(r)
    /\ Over(r)
    /\ UNCHANGED <<row, resets, ops, breakerVars, begun, deaths, peak, unlimited>>

\* A stream that fails, or whose client leaves, is not billed everywhere.
StreamBreaksOff(r) ==
    /\ phase[r] = "stream"
    /\ Over(r)
    /\ UNCHANGED <<keyVars, breakerVars, begun, deaths, peak, unlimited>>

\* What these endpoints return, an answer or an error, is not billed.
MediaEnds(r) ==
    /\ phase[r] = "media"
    /\ Over(r)
    /\ UNCHANGED <<keyVars, breakerVars, begun, deaths, peak, unlimited>>

(***************************************************************************)
(* The circuit breaker                                                     *)
(***************************************************************************)
Smaller(x, y) == IF x < y THEN x ELSE y

\* record_model_route_result.  A success deletes the counter.
RecordSuccess(r) ==
    LET c == Candidate(r)
    IN  /\ phase[r] = "record" /\ status[r] \in {"ok", "stream"}
        /\ \/ /\ fails' = [fails EXCEPT ![c] = 0]
              /\ ttl' = ttl \ {c} /\ orphaned' = orphaned \ {c}
           \/ UNCHANGED breakerVars
        /\ IF status[r] = "ok" THEN Over(r)
           ELSE /\ phase' = [phase EXCEPT ![r] = "stream"]
                /\ UNCHANGED <<seen, route, left, model, status, owed, tried, passed>>
        /\ UNCHANGED <<keyVars, begun, deaths, peak, unlimited>>

\* The client's own error, or a Redis that does not answer: nothing to see.
RecordNothing(r) ==
    /\ phase[r] = "record" /\ status[r] \in {"client", "upstream"}
    /\ NextCandidate(r)
    /\ UNCHANGED <<keyVars, breakerVars, begun, deaths, peak, unlimited>>

\* Mutant: the counter is left without an expiry.
RecordFailureNoTtl(r) ==
    LET c == Candidate(r)
    IN  /\ phase[r] = "record" /\ status[r] = "upstream"
        /\ fails' = [fails EXCEPT ![c] = Smaller(@ + 1, MaxFails)]
        /\ NextCandidate(r)
        /\ UNCHANGED <<ttl, orphaned, keyVars, begun, deaths, peak, unlimited>>

\* INCR, which leaves the expiry of an older counter as it is.
RecordFailure(r) ==
    LET c == Candidate(r)
    IN  /\ phase[r] = "record" /\ status[r] = "upstream"
        /\ fails' = [fails EXCEPT ![c] = Smaller(@ + 1, MaxFails)]
        /\ phase' = [phase EXCEPT ![r] = "expire"]
        /\ UNCHANGED <<ttl, orphaned, seen, route, left, model, status, owed, tried, passed,
                       keyVars, begun, deaths, peak, unlimited>>

\* Models whose counter would stay without an expiry.
Unexpiring(c) == IF fails[c] > 0 /\ c \notin ttl THEN {c} ELSE {}

\* EXPIRE, a call of its own; without the key it does nothing.
Expire(r) ==
    LET c == Candidate(r)
    IN  /\ phase[r] = "expire"
        /\ \/ /\ ttl' = IF fails[c] > 0 THEN ttl \cup {c} ELSE ttl
              /\ orphaned' = orphaned \ {c}
           \/ /\ orphaned' = orphaned \cup Unexpiring(c)
              /\ UNCHANGED ttl
        /\ NextCandidate(r)
        /\ UNCHANGED <<fails, keyVars, begun, deaths, peak, unlimited>>

\* The cooldown is over.
CooldownEnds(c) ==
    /\ c \in ttl
    /\ fails' = [fails EXCEPT ![c] = 0] /\ ttl' = ttl \ {c}
    /\ UNCHANGED <<orphaned, keyVars, requestVars, begun, deaths, peak, unlimited>>

(***************************************************************************)
(* Deaths, and the admin API                                               *)
(***************************************************************************)
\* The process of a request dies; Redis and Postgres keep what they have.
Die(r) ==
    /\ phase[r] # Idle /\ deaths < MaxDeaths /\ deaths' = deaths + 1
    /\ orphaned' = orphaned \cup IF phase[r] = "expire" THEN Unexpiring(Candidate(r)) ELSE {}
    /\ Over(r)
    /\ UNCHANGED <<keyVars, fails, ttl, begun, peak, unlimited>>

\* PUT /api/router-keys: settings, quota and expiry, which may be kept, in one
\* UPDATE.
UpdateKey(quota, settings, live, reset) ==
    /\ row.exists /\ ops < MaxOps /\ ops' = ops + 1
    /\ Accepted(settings)
    /\ row' = [exists |-> TRUE, live |-> live, quota |-> quota, settings |-> settings]
    /\ resets' = IF reset THEN resets + 1 ELSE resets
    /\ peak' = IF quota > peak THEN quota ELSE peak
    /\ unlimited' = (unlimited \/ quota = 0)
    /\ UNCHANGED <<used, breakerVars, requestVars, begun, deaths>>

\* reset_usage: a second UPDATE, after calls of others may have run.
ResetUsage ==
    /\ resets > 0 /\ resets' = resets - 1
    /\ used' = 0
    /\ UNCHANGED <<row, ops, breakerVars, requestVars, begun, deaths,
                   peak, unlimited>>

DeleteKey ==
    /\ row.exists /\ ops < MaxOps /\ ops' = ops + 1
    /\ row' = [row EXCEPT !.exists = FALSE]
    /\ used' = 0
    /\ UNCHANGED <<resets, breakerVars, requestVars, begun, deaths,
                   peak, unlimited>>

KeyExpires ==
    /\ row.live
    /\ row' = [row EXCEPT !.live = FALSE]
    /\ UNCHANGED <<used, resets, ops, breakerVars, requestVars, begun, deaths,
                   peak, unlimited>>

Serve(r) ==
    \/ Filter(r) \/ TryCandidate(r) \/ Fail(r)
    \/ \E n \in 0..MaxTok : Answer(r, n) \/ StreamEnds(r, n)
    \/ AnswerStream(r) \/ StreamBreaksOff(r)
    \/ \E kind \in Statuses : Refused(r, kind)
    \/ Bill(r) \/ StreamBill(r) \/ MediaEnds(r)
    \/ RecordSuccess(r) \/ RecordNothing(r) \/ RecordFailure(r) \/ Expire(r)

Admin ==
    \/ \E q \in Quotas, s \in Settings, live \in {row.live, TRUE}, reset \in BOOLEAN :
            UpdateKey(q, s, live, reset)
    \/ ResetUsage \/ DeleteKey \/ KeyExpires

Next ==
    \/ \E r \in Reqs, name \in Names : AskRoute(r, name) \/ AskModel(r, name) \/ AskMedia(r, name)
    \/ \E r \in Reqs : Serve(r) \/ Die(r)
    \/ \E c \in Models : CooldownEnds(c)
    \/ Admin

Spec == Init /\ [][Next]_vars

(***************************************************************************)
(* Properties                                                              *)
(***************************************************************************)
\* The quota is tested when a request is admitted and charged when it is
\* answered.  However requests, resets and changes of the quota interleave,
\* the row never shows more than the highest quota less one and one answer
\* per request that can be in flight together.
QuotaOverrunBounded ==
    ~unlimited => used <= peak + Cardinality(Reqs) * MaxTok - 1

\* The candidates before position i of a request's route.
Before(r, i) == {route[r][j] : j \in 1..i - 1}

\* A route is walked in its configured order and never skips: while the
\* request uses one candidate, and once it has failed, each earlier one was
\* tried and failed or was passed over for a breaker that was open, and a
\* route in which nothing was tried does not fail.
RouteTriesInOrder ==
    \A r \in Reqs : Routed(r) =>
        /\ phase[r] \in {"call", "bill", "stream"} =>
            \E i \in left[r] : /\ route[r][i] = Candidate(r)
                               /\ Before(r, i) \subseteq tried[r] \cup passed[r]
        /\ phase[r] = "failed" => /\ tried[r] # {}
                                  /\ Image(route[r]) \subseteq tried[r] \cup passed[r]

\* Whatever renames, allowlist and routes the admin API accepts together, a
\* call goes to a candidate of the route that was named, or to a model that
\* is no route's candidate and that the allowlist, if there is one, holds; only
\* an endpoint of images, audio or videos may also call what a route is named.
DispatchIsPermitted ==
    \A r \in Reqs : phase[r] \in {"call", "media"} =>
        LET s == seen[r]
        IN  \/ phase[r] = "call" /\ Routed(r) /\ model[r] \in Image(route[r])
            \/ /\ model[r] \notin RoutedCandidates(s)
               /\ \/ s.allowed = {} \/ model[r] \in s.allowed
                  \/ phase[r] = "media" /\ model[r] \in DOMAIN s.routes

\* A candidate is not skipped for good: a breaker that is open has an expiry,
\* or a request that is about to set it, unless its EXPIRE was lost to a
\* Redis error or a death between the two calls.
OpenBreakerWillClose ==
    \A c \in Models : fails[c] > 0 =>
        \/ c \in ttl \cup orphaned
        \/ \E r \in Reqs : phase[r] = "expire" /\ Candidate(r) = c
=============================================================================
