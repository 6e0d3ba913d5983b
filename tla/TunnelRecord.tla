---------------------------- MODULE TunnelRecord ----------------------------
(***************************************************************************)
(* What the service promises of a tunnel's record: every operation reads   *)
(* the record as it is and replaces it in one step, whichever machine runs *)
(* it.  Module Records shows that optimistic writes over per-machine       *)
(* caches implement this; module Issuance builds on it.                    *)
(***************************************************************************)
EXTENDS RecordOps

CONSTANT Imports   \* records an import may bring

VARIABLE rec

RecordInit == rec = Missing

RecordNext == Operation(rec, rec') \/ rec' \in Imports

RecordSpec == RecordInit /\ [][RecordNext]_rec
=============================================================================
