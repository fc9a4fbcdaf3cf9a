------------------------------ MODULE KeyLists ------------------------------
(***************************************************************************)
(* Lists of credentials without repetition, in the order of their rows:    *)
(* the lists config.py keeps and the tables they are loaded from.          *)
(***************************************************************************)
EXTENDS Naturals, FiniteSets, SequencesExt

\* A list that holds k at most once, less k.
Without(s, k) ==
    LET at == {i \in DOMAIN s : s[i] = k}
    IN  IF at = {} THEN s ELSE RemoveAt(s, CHOOSE i \in at : TRUE)
=============================================================================
