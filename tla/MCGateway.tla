----------------------------- MODULE MCGateway -----------------------------
(* A small instance of Gateway for TLC. *)
EXTENDS Gateway, TLC

CONSTANTS r1, r2

MCReqs   == {r1, r2}
ReqSymmetry == Permutations(MCReqs)
MCModels == {"m1", "m2", "m3"}
MCOther  == {"auto", "nick"}
MCQuotas == {0, 1}
MCFirstQuotas == {1}

\* A route of two models, one of them renamed; an allowlist, a rename to the
\* name of another model, and a route to that model that has the name of a
\* third one outside the allowlist; and settings the admin API refuses.
MCSettings == {
    [allowed |-> {}, aliases |-> "m1" :> "nick", routes |-> "auto" :> <<"m1", "m3">>],
    [allowed |-> {"m1"}, aliases |-> "m1" :> "m3", routes |-> "m2" :> <<"m3">>],
    [allowed |-> {"m1"}, aliases |-> "m2" :> "nick", routes |-> <<>>]}
=============================================================================
