----------------------------- MODULE MCIssuance -----------------------------
(* Instances of Issuance for TLC. *)
EXTENDS Issuance, TLC

CONSTANTS m1, m2, i1, i2, r1

\* i1 and i2 are first issuances, r1 a renewal.
MCKind == [c \in Cert |-> IF c = r1 THEN "renew" ELSE "issue"]

MachineSymmetry == Permutations(Machine)
=============================================================================
