------------------------------ MODULE MCShared ------------------------------
(***************************************************************************)
(* What machines share in the database, at the CA and in the DNS zone, for *)
(* TLC: rate limits, renewal alarms, the API domain's certificate and the  *)
(* attempts at the CA.  They touch different rows and records, so each     *)
(* behaviour runs one of them, chosen at the start.                        *)
(***************************************************************************)
EXTENDS Quotas, Renewals, ServerCertificate, AcmeOrder

VARIABLE part

sharedVars == <<part, quotaVars, renewalVars, serverVars, acmeVars>>

SharedInit ==
    /\ part \in {"quotas", "renewals", "server", "acme"}
    /\ QuotaInit /\ RenewalInit /\ ServerInit /\ AcmeInit /\ (part # "server" => row = Nothing)

SharedNext ==
    /\ UNCHANGED part
    /\ \/ part = "quotas" /\ QuotaNext /\ UNCHANGED <<renewalVars, serverVars, acmeVars>>
       \/ part = "renewals" /\ RenewalNext /\ UNCHANGED <<quotaVars, serverVars, acmeVars>>
       \/ part = "server" /\ ServerNext /\ UNCHANGED <<quotaVars, renewalVars, acmeVars>>
       \/ part = "acme" /\ AcmeNext /\ UNCHANGED <<quotaVars, renewalVars, serverVars>>

\* Alarm loops run, renewals end, time passes, and an active tunnel connects again and again (its
\* client reconnects whenever its server is deployed).
RenewalFairness ==
    /\ \A m \in Server : WF_renewalVars(part = "renewals" /\ Loops(m))
    /\ \A t \in Tunnel :
        /\ WF_renewalVars(part = "renewals" /\ Rings(t))
        /\ WF_renewalVars(part = "renewals" /\ Renewed(t, TRUE))
        /\ WF_renewalVars(part = "renewals" /\ t \in active /\ Attach(t, TRUE, TRUE))

\* Machines go on with their passes, and a job ends.
ServerFairness ==
    /\ \A h \in Host : SF_serverVars(part = "server" /\ ServerWork(h))
    /\ WF_serverVars(part = "server" /\ \E h \in Host, job \in queue : Installed(h, job))

\* Requests are answered in the end, the CA goes on, a process that stopped starts again, leases run
\* out, records grow old, and some machine sweeps.
AcmeFairness ==
    /\ WF_acmeVars(part = "acme" /\ Work)
    /\ WF_acmeVars(part = "acme" /\ Sweep)
    /\ WF_acmeVars(part = "acme" /\ (LeaseExpires \/ Restart))
    /\ WF_acmeVars(part = "acme" /\ (CaIssues \/ \E i \in Ident : Check(i)))
    /\ WF_acmeVars(part = "acme" /\ \E v \in zone : Age(v))

SharedSpec ==
    SharedInit /\ [][SharedNext]_sharedVars /\ RenewalFairness /\ ServerFairness /\ AcmeFairness

\* Whatever fails and whoever races, every machine comes to serve the stored certificate, not due.
ServesEverywhere == <>[](part = "server" => AllServe)

\* Whatever earlier attempts left at the CA and in the zone, the certificate is issued once faults
\* cease, and every record goes away.
Completes == <>[](part = "acme" => issued /\ zone = {})
=============================================================================
