----------------------------- MODULE MCQwenPool -----------------------------
(* Small instances of QwenPool for TLC. *)
EXTENDS QwenPool

CONSTANTS k1, k2, k3, m1, r1, r2, r3, r4

MCKeys == {k1, k2, k3}
MCKeyPair == {k1, k2}
MCTwoKeys == <<k1, k2>>
MCThreeKeys == <<k1, k2, k3>>
MCOneEnvKey == <<k2>>
MCNoKeys == <<>>
MCOneModel == {m1}
MCTwoReqs == {r1, r2}
MCNoMessages == {r2, r3, r4}
MCOneOfThree == {r1, r3, r4}
MCOneChat == {r2}
MCNoChat == {}
MCOneImage == {r3}
MCOneNative == {r4}
MCModelOf == [r \in Reqs |-> m1]
MCNoOps == {}
MCAllOps == {"add", "remove", "reset", "activate", "removeProvider"}
=============================================================================
