------------------------------ MODULE MCRecords ------------------------------
(* An instance of Records for TLC. *)
EXTENDS Records, TLC

CONSTANTS m1, m2, c1, c2

\* A backup taken while certificate c1 served.
MCImports == {[Created EXCEPT !.cert = c1, !.state = "ready"]}

MachineSymmetry == Permutations(Machine)
=============================================================================
