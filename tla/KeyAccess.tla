----------------------------- MODULE KeyAccess -----------------------------
(***************************************************************************)
(* What a router key may call.  A key's settings are its allowlist, its    *)
(* renames (real model -> name shown) and its model routes (synthetic name *)
(* -> models in the order to try them).  Accepted is what the admin API    *)
(* lets an operator save; the other operators are what a request does with *)
(* the settings it read.                                                   *)
(***************************************************************************)
EXTENDS Naturals, Sequences

CONSTANTS
    Models,     \* model ids
    OtherNames  \* names that are no model's

Names == Models \cup OtherNames

Image(f) == {f[x] : x \in DOMAIN f}

\* Models that stand in some route.
RoutedCandidates(s) == UNION {Image(s.routes[n]) : n \in DOMAIN s.routes}

OneToOne(f) == \A x, y \in DOMAIN f : f[x] = f[y] => x = y

\* _parse_key_settings: a rename is for an allowed model, names one model
\* and is no key of another rename.
AliasesAccepted(s) ==
    /\ s.allowed # {} => DOMAIN s.aliases \subseteq s.allowed
    /\ OneToOne(s.aliases)
    /\ \A m \in DOMAIN s.aliases : s.aliases[m] \in DOMAIN s.aliases => s.aliases[m] = m

\* A route has a name of its own, at least one candidate, none twice, and no
\* candidate that is a route.
RoutesAccepted(s) ==
    \A n \in DOMAIN s.routes :
        /\ n \notin DOMAIN s.aliases \cup Image(s.aliases) \cup s.allowed
        /\ s.routes[n] # <<>> /\ OneToOne(s.routes[n])
        /\ Image(s.routes[n]) \cap DOMAIN s.routes = {}

Accepted(s) == AliasesAccepted(s) /\ RoutesAccepted(s)

\* _resolve_alias: the model behind a name.
Resolve(s, name) ==
    IF \E m \in DOMAIN s.aliases : s.aliases[m] = name
    THEN CHOOSE m \in DOMAIN s.aliases : s.aliases[m] = name
    ELSE name

\* Mutant: the private request of a route may call anything.
DeniedUnlessRouted(s, m, candidate) ==
    candidate = {} /\ m \in RoutedCandidates(s)

\* _model_allowed_for_key; candidate holds the model a route is about to
\* dispatch, and is empty for a request of a client.
Denied(s, m, candidate) ==
    /\ m \notin DOMAIN s.routes
    /\ m \notin candidate \cap RoutedCandidates(s)
    /\ \/ m \in RoutedCandidates(s)
       \/ s.allowed # {} /\ m \notin s.allowed
=============================================================================
