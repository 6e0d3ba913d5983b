------------------------------- MODULE Profile -------------------------------
(***************************************************************************)
(* A profile's files and the operations on them (client.rs, storage.rs,    *)
(* api.rs, and refresh_certificate of tunnel.rs).                          *)
(*                                                                         *)
(* Two processes share the files: a user's command or program (ensure,     *)
(* remove) and the background service (resume, connect, refresh).  A file  *)
(* is replaced in one step; a process may die between two of them, and an  *)
(* answer of the API may be lost.  The API is what Records and Issuance    *)
(* say, seen from one client: a token is its tunnel's number, a request    *)
(* for a certificate is its key's number.                                  *)
(***************************************************************************)
EXTENDS Naturals, Sequences

CONSTANTS
    MaxTunnels, MaxKeys, MaxCertificates,   \* bounds: tunnels created, keys made, certificates issued
    MaxFaults,                              \* bound: crashes, lost answers, failures, removals
    Missing

ASSUME ProfileAssumption ==
    /\ {MaxTunnels, MaxKeys, MaxCertificates, MaxFaults} \subseteq Nat
    /\ Missing \notin Nat /\ Missing \notin [id : Nat, csr : Nat] /\ Missing \notin [id : Nat, expiry : Nat]
    /\ Missing \notin [id : Nat, token : Nat, key : Nat, certificate : Nat]

VARIABLES
    disk,       \* the profile's files
    made,       \* tunnels created
    keys,       \* keys generated
    signed,     \* certificates issued: the key each is for
    live,       \* tunnels the API has
    bound,      \* each tunnel's request and certificate at the API
    doing,      \* each process: its step, what it works on, and the writes left
    tunnel,     \* the tunnel the service runs: its identity
    faults, torn, crossed, left   \* history: see Whole, Fits and NoneLost

server == <<made, signed, live, bound>>
notes == <<faults, torn, crossed, left>>
profileVars == <<disk, keys, server, doing, tunnel, notes>>

Process == {"user", "service"}
File == {"token", "key", "certificate", "chain", "tunnel", "pending"}
Idle == [at |-> "idle", id |-> 0, key |-> 0, writes |-> <<>>]
Unbound == [state |-> "none", csr |-> 0, certificate |-> 0]

ProfileInit ==
    /\ disk = [f \in File |-> Missing] /\ made = 0 /\ keys = 0 /\ signed = <<>> /\ live = {}
    /\ bound = [t \in 1..MaxTunnels |-> Unbound]
    /\ doing = [p \in Process |-> Idle] /\ tunnel = Missing
    /\ faults = 0 /\ torn = FALSE /\ crossed = FALSE /\ left = {}

Fault == faults < MaxFaults /\ faults' = faults + 1 /\ UNCHANGED <<torn, crossed, left>>
Doing(p, work) == doing' = [doing EXCEPT ![p] = work]
At(p, at) == Doing(p, [doing[p] EXCEPT !.at = at])

-----------------------------------------------------------------------------
(* Files.                                                                  *)

Saved == disk["tunnel"] # Missing
Pending == disk["pending"] # Missing
Complete(files) == \A f \in files : disk[f] # Missing

\* The identity `load` gives.
Identity == [id |-> disk["tunnel"].id, token |-> disk["token"], key |-> disk["key"], certificate |-> disk["certificate"]]

SavePending(id, key) ==
    << <<"token", id>>, <<"key", key>>, <<"pending", [id |-> id, csr |-> key]>> >>

\* Mutant: the metadata is written before what it stands for.
SaveMetadataFirst(id, token, key, certificate) ==
    << <<"tunnel", [id |-> id, expiry |-> certificate]>>, <<"token", token>>, <<"key", key>>,
       <<"certificate", certificate>>, <<"chain", certificate>>, <<"pending", Missing>> >>

Save(id, token, key, certificate) ==
    << <<"token", token>>, <<"key", key>>, <<"certificate", certificate>>, <<"chain", certificate>>,
       <<"tunnel", [id |-> id, expiry |-> certificate]>>, <<"pending", Missing>> >>

\* write_secret: one file is replaced.
Write(p) ==
    /\ doing[p].writes # <<>>
    /\ disk' = [disk EXCEPT ![Head(doing[p].writes)[1]] = Head(doing[p].writes)[2]]
    /\ Doing(p, [doing[p] EXCEPT !.writes = Tail(@)])
    /\ UNCHANGED <<keys, server, tunnel, notes>>

Ready(p, at) == doing[p].at = at /\ doing[p].writes = <<>>

-----------------------------------------------------------------------------
(* The API.                                                                *)

\* bind_certificate of service.rs: the request it has, one in progress, or a new one.
Bound(t, csr) ==
    IF bound[t].csr = csr \/ bound[t].state = "issuing" THEN bound
    ELSE [bound EXCEPT ![t] = [state |-> "issuing", csr |-> csr, certificate |-> 0]]

Issue(t) ==
    /\ bound[t].state = "issuing"
    /\ signed' = Append(signed, bound[t].csr)
    /\ bound' = [bound EXCEPT ![t].state = "ready", ![t].certificate = Len(signed')]
    /\ UNCHANGED <<disk, keys, made, live, doing, tunnel, notes>>

\* A job that ran twice succeeds after it had failed (update_certificate looks only at which certificate).
IssueLate(t) ==
    /\ bound[t].state = "failed" /\ faults < MaxFaults /\ faults' = faults + 1 /\ crossed' = TRUE
    /\ signed' = Append(signed, bound[t].csr)
    /\ bound' = [bound EXCEPT ![t].state = "ready", ![t].certificate = Len(signed')]
    /\ UNCHANGED <<disk, keys, made, live, doing, tunnel, torn, left>>

\* Issuance fails for good; or a job that ran twice fails after it had succeeded.
IssueFails(t) ==
    /\ bound[t].state \in {"issuing", "ready"} /\ Fault
    /\ bound' = [bound EXCEPT ![t].state = "failed", ![t].certificate = 0]
    /\ UNCHANGED <<disk, keys, made, signed, live, doing, tunnel>>

\* A renewal, months later: no command is still running.
RenewedAt(t) ==
    /\ bound[t].state = "ready" /\ Len(signed) < MaxCertificates /\ \A p \in Process : doing[p] = Idle
    /\ signed' = Append(signed, bound[t].csr) /\ bound' = [bound EXCEPT ![t].certificate = Len(signed')]
    /\ UNCHANGED <<disk, keys, made, live, doing, tunnel, notes>>

-----------------------------------------------------------------------------
(* Client.                                                                 *)

\* resume: the identity that is pending, at its request.
Resumed == [Idle EXCEPT !.at = "bind", !.id = disk["pending"].id, !.key = disk["key"]]

\* Without a tunnel: resume what is pending, or create one.
AfterLoad ==
    IF Pending THEN Resumed ELSE [Idle EXCEPT !.at = "create"]

\* ensure (and create, which it calls).
Ensure ==
    /\ doing["user"] = Idle
    /\ \/ Saved /\ Complete(File \ {"pending"})
          /\ Doing("user", [Idle EXCEPT !.at = "check", !.id = disk["tunnel"].id, !.key = disk["key"]])
       \/ ~Saved /\ (Pending => Complete({"token", "key"})) /\ Doing("user", AfterLoad)
    /\ UNCHANGED <<disk, keys, server, tunnel, notes>>

\* start_provisioning: the service resumes what a command left pending.
Resume ==
    /\ doing["service"] = Idle /\ doing["user"].at \notin {"delete", "wipe"}
    /\ ~Saved /\ Pending /\ Complete({"token", "key"})
    /\ Doing("service", Resumed) /\ UNCHANGED <<disk, keys, server, tunnel, notes>>

\* provision: a new key, and the pending identity.
Provision(p, id) ==
    /\ keys < MaxKeys /\ keys' = keys + 1
    /\ Doing(p, [at |-> "bind", id |-> id, key |-> keys', writes |-> SavePending(id, keys')])

CreateTunnel(p) ==
    /\ Ready(p, "create") /\ made < MaxTunnels /\ made' = made + 1 /\ live' = live \cup {made'}
    /\ Provision(p, made') /\ UNCHANGED <<disk, signed, bound, tunnel, notes>>

\* Sent once: a tunnel whose answer is lost stays at the API.
CreateUnheard(p) ==
    /\ Ready(p, "create") /\ made < MaxTunnels /\ made' = made + 1 /\ live' = live \cup {made'}
    /\ faults < MaxFaults /\ faults' = faults + 1 /\ left' = left \cup {made'} /\ Doing(p, Idle)
    /\ UNCHANGED <<disk, keys, signed, bound, tunnel, torn, crossed>>

\* complete: the request is bound, or one is in progress; then the certificate is polled.  For a tunnel
\* the API does not have it is an error.
BindCertificate(p) ==
    /\ Ready(p, "bind")
    /\ IF doing[p].id \in live THEN bound' = Bound(doing[p].id, doing[p].key) /\ At(p, "poll")
       ELSE Doing(p, Idle) /\ UNCHANGED bound
    /\ UNCHANGED <<disk, keys, made, signed, live, tunnel, notes>>

Poll(p) ==
    LET t == bound[doing[p].id]  id == doing[p].id
    IN /\ Ready(p, "poll") /\ t.state \in {"ready", "failed"}
       /\ Doing(p, IF t.state = "failed" \/ id \notin live THEN Idle
                   ELSE [doing[p] EXCEPT !.at = "done", !.writes = Save(id, id, doing[p].key, t.certificate)])
       /\ UNCHANGED <<disk, keys, server, tunnel, notes>>

Done(p) == Ready(p, "done") /\ Doing(p, Idle) /\ UNCHANGED <<disk, keys, server, tunnel, notes>>

\* Mutant: a failed certificate is left.
CheckLeavesFailed ==
    LET t == bound[doing["user"].id]
    IN /\ Ready("user", "check")
       /\ Doing("user", IF t.state = "ready" /\ t.certificate # disk["certificate"]
            THEN [doing["user"] EXCEPT !.at = "done",
                    !.writes = Save(doing["user"].id, doing["user"].id, doing["user"].key, t.certificate)]
            ELSE Idle)
       /\ UNCHANGED <<disk, keys, server, tunnel, notes>>

\* ensure with a saved identity: save a renewed certificate, or provision again after a failure.
Check ==
    LET t == bound[doing["user"].id]  id == doing["user"].id
    IN /\ Ready("user", "check")
       /\ IF t.state = "failed" /\ id \in live
          THEN Provision("user", id) /\ crossed' = (crossed \/ doing["service"] # Idle)
          ELSE /\ Doing("user", IF t.state = "ready" /\ t.certificate # disk["certificate"]
                    THEN [doing["user"] EXCEPT !.at = "done",
                            !.writes = Save(id, id, doing["user"].key, t.certificate)]
                    ELSE Idle)
               /\ UNCHANGED <<keys, crossed>>
       /\ UNCHANGED <<disk, server, tunnel, faults, torn, left>>

\* The API is not reached, with or without the request's effect.
Unheard(p) ==
    /\ doing[p].at \in {"create", "bind", "poll", "check", "delete", "refresh"} /\ doing[p].writes = <<>>
    /\ Fault /\ Doing(p, Idle)
    /\ \/ UNCHANGED <<live, bound>>
       \/ doing[p].at = "bind" /\ doing[p].id \in live /\ bound' = Bound(doing[p].id, doing[p].key)
          /\ UNCHANGED live
       \/ doing[p].at = "delete" /\ live' = live \ {doing[p].id} /\ UNCHANGED bound
    /\ UNCHANGED <<disk, keys, made, signed, tunnel>>

\* The process dies.
Crash(p) ==
    /\ doing[p] # Idle /\ faults < MaxFaults /\ faults' = faults + 1 /\ Doing(p, Idle)
    /\ torn' = (torn \/ doing[p].at = "wipe")
    /\ left' = (IF p = "user" /\ doing[p].at = "bind" /\ Len(doing[p].writes) > 0 /\ ~Saved
                THEN left \cup {doing[p].id} ELSE left)
    /\ tunnel' = (IF p = "service" THEN Missing ELSE tunnel)
    /\ UNCHANGED <<disk, keys, server, crossed>>

\* Mutant: only the files are removed.
RemoveLocally ==
    /\ doing["user"] = Idle /\ doing["service"] = Idle /\ (Saved => Complete(File \ {"pending"}))
    /\ faults < MaxFaults /\ faults' = faults + 1 /\ tunnel' = Missing
    /\ Doing("user", [Idle EXCEPT !.at = "wipe"])
    /\ left' = (IF ~Saved /\ Pending THEN left \cup {disk["pending"].id} ELSE left)
    /\ UNCHANGED <<disk, keys, server, torn, crossed>>

\* remove, with the service stopped before it: a saved tunnel is deleted at the API (or gone there).
Remove ==
    /\ doing["user"] = Idle /\ doing["service"] = Idle /\ (Saved => Complete(File \ {"pending"}))
    /\ faults < MaxFaults /\ faults' = faults + 1 /\ tunnel' = Missing
    /\ Doing("user", IF Saved THEN [Idle EXCEPT !.at = "delete", !.id = disk["tunnel"].id]
                     ELSE [Idle EXCEPT !.at = "wipe"])
    /\ left' = (IF ~Saved /\ Pending THEN left \cup {disk["pending"].id} ELSE left)
    /\ UNCHANGED <<disk, keys, server, torn, crossed>>

DeleteTunnel ==
    /\ Ready("user", "delete") /\ live' = live \ {doing["user"].id} /\ At("user", "wipe")
    /\ UNCHANGED <<disk, keys, made, signed, bound, tunnel, notes>>

\* remove_dir_all takes the files away in some order.
Wipe(f) ==
    /\ doing["user"].at = "wipe" /\ disk[f] # Missing /\ disk' = [disk EXCEPT ![f] = Missing]
    /\ UNCHANGED <<keys, server, doing, tunnel, notes>>

Wiped ==
    /\ doing["user"].at = "wipe" /\ (\A f \in File : disk[f] = Missing) /\ Doing("user", Idle)
    /\ UNCHANGED <<disk, keys, server, tunnel, notes>>

-----------------------------------------------------------------------------
(* The service's tunnel.                                                   *)

\* connect: the key must fit the certificate.
Connect ==
    /\ doing["service"] = Idle /\ doing["user"].at \notin {"delete", "wipe"} /\ tunnel = Missing
    /\ Saved /\ Complete(File \ {"pending"}) /\ signed[disk["certificate"]] = disk["key"]
    /\ tunnel' = Identity /\ UNCHANGED <<disk, keys, server, doing, notes>>

\* Mutant: a certificate is used whatever key it is for.
RefreshUnchecked ==
    LET t == bound[tunnel.id]
    IN /\ doing["service"] = Idle /\ tunnel # Missing /\ doing["user"].at \notin {"delete", "wipe"}
       /\ t.state = "ready" /\ t.certificate # tunnel.certificate
       /\ tunnel' = [tunnel EXCEPT !.certificate = t.certificate]
       /\ Doing("service", [Idle EXCEPT !.at = "done", !.id = tunnel.id, !.key = tunnel.key,
                !.writes = Save(tunnel.id, tunnel.token, tunnel.key, t.certificate)])
       /\ UNCHANGED <<disk, keys, server, notes>>

\* refresh_certificate: a certificate for its key is used and saved.
Refresh ==
    LET t == bound[tunnel.id]
    IN /\ doing["service"] = Idle /\ tunnel # Missing /\ doing["user"].at \notin {"delete", "wipe"}
       /\ t.state = "ready" /\ t.certificate # tunnel.certificate /\ t.csr = tunnel.key
       /\ tunnel' = [tunnel EXCEPT !.certificate = t.certificate]
       /\ Doing("service", [Idle EXCEPT !.at = "done", !.id = tunnel.id, !.key = tunnel.key,
                !.writes = Save(tunnel.id, tunnel.token, tunnel.key, t.certificate)])
       /\ UNCHANGED <<disk, keys, server, notes>>

-----------------------------------------------------------------------------
Steps(p) ==
    \/ Write(p) \/ CreateTunnel(p) \/ BindCertificate(p) \/ Poll(p) \/ Done(p)

UserWork == Ensure \/ Check \/ DeleteTunnel \/ Wiped \/ Steps("user") \/ \E f \in File : Wipe(f)
ServiceWork == Resume \/ Connect \/ Refresh \/ Steps("service")

IssueAny == \E t \in live : Issue(t)

ProfileNext ==
    \/ UserWork \/ ServiceWork \/ Remove
    \/ \E p \in Process : CreateUnheard(p) \/ Unheard(p) \/ Crash(p)
    \/ IssueAny \/ \E t \in live : IssueLate(t) \/ IssueFails(t) \/ RenewedAt(t)

ProfileSpec == ProfileInit /\ [][ProfileNext]_profileVars

-----------------------------------------------------------------------------
Removing == torn \/ doing["user"].at = "wipe"

\* Whoever dies between two writes, what is on disk can be read: a saved tunnel has all its files and
\* its own token, and a pending one the key its request is for.  Only a removal cut off leaves less.
Whole ==
    ~Removing =>
        /\ Saved => Complete(File \ {"pending"}) /\ disk["token"] = disk["tunnel"].id
        /\ Pending /\ ~Saved => disk["token"] = disk["pending"].id /\ disk["key"] = disk["pending"].csr

\* The certificate the API has, once saved, is for the saved key, whichever process saved it after
\* whichever requested it; unless a failed one was requested again during the service's own provision, or
\* came after all, when another key may have been made for it.
Fits ==
    LET saved == disk["tunnel"].id
    IN Saved /\ ~Removing /\ ~crossed /\ bound[saved].certificate = disk["certificate"]
         => signed[disk["certificate"]] = disk["key"]

\* A tunnel the API has is on disk or on its way there; only one whose answer was lost, whose process
\* died before it was written, or that was removed while pending, is left behind.
NoneLost ==
    ~Removing => \A t \in live \ left :
        \/ (Saved /\ disk["tunnel"].id = t) \/ (Pending /\ disk["pending"].id = t)
        \/ \E p \in Process : doing[p].at \in {"bind", "wipe"} /\ doing[p].id = t

Usable ==
    /\ Saved /\ Complete(File \ {"pending"}) /\ signed[disk["certificate"]] = disk["key"]
    /\ bound[disk["tunnel"].id].certificate = disk["certificate"]
\* A first certificate that failed for good: every `ensure` resumes the provision and fails again.
FailedFirst == ~Saved /\ Pending /\ bound[disk["pending"].id].state = "failed"
\* A tunnel deleted at the API by a removal that did not get to the files.
Gone == Saved /\ disk["tunnel"].id \notin live
==============================================================================
