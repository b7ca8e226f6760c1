---------------------------- MODULE MCAdmission ----------------------------
(***************************************************************************)
(* An instance of Admission for TLC: two tenant keys and one operator key  *)
(* in a served repository, one tenant key in a repository that is not      *)
(* served.                                                                 *)
(***************************************************************************)
EXTENDS Admission, TLC

CONSTANTS k1, k2, k3, k4, i1, p1, p2

MCKeyRepo == [k \in Keys |-> IF k = k4 THEN p2 ELSE p1]
MCKeyInst == [k \in Keys |-> IF k = k3 THEN Operator ELSE i1]

Symmetric == Permutations(Replicas)

=============================================================================
