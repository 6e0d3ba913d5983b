-------------------------------- MODULE Names --------------------------------
(* The identities the modules about certificates share. *)
CONSTANTS
    Machine,  \* server processes by name: FLY_MACHINE_ID, the same after a restart
    Cert,     \* certificate IDs, the key of a job
    NoCert    \* no certificate

ASSUME NamesAssumption == NoCert \notin Cert
=============================================================================
