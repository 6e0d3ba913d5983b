------------------------------ MODULE RecordOps ------------------------------
(***************************************************************************)
(* The stored record of one tunnel (record.rs, StoredTunnel), cut down to  *)
(* what its operations decide on: whether it is live (not deleted), its    *)
(* current certificate and that certificate's state, and the renewal       *)
(* issuing beside it.  Every operation of service.rs on a record is a      *)
(* function from the record it read to the record it saves.                *)
(***************************************************************************)
EXTENDS Names

CertStates == {"none", "issuing", "challenge", "ready", "failed"}

TunnelRecords == [live : BOOLEAN, cert : Cert \union {NoCert},
                  state : CertStates, renewal : Cert \union {NoCert}]

\* No row, or the row of a tunnel that was deleted before it had a certificate.
Missing == [live |-> FALSE, cert |-> NoCert, state |-> "none", renewal |-> NoCert]

\* Service::create: a new record, whatever a deleted one held.
Created == [Missing EXCEPT !.live = TRUE]

\* Service::remove.
Removed(r) == [r EXCEPT !.live = FALSE]

\* Service::bind_certificate: not while another issuance is in progress.
MayBind(r) == r.live /\ r.state \in {"none", "ready", "failed"}
Bound(r, c) == [r EXCEPT !.cert = c, !.state = "issuing", !.renewal = NoCert]

\* The bind's job could not be queued.
BindFailed(r, c) == [Bound(r, c) EXCEPT !.state = "failed"]

\* Service::start_renewal, of a ready certificate; a stale renewal is replaced.
MayRenew(r) == r.live /\ r.state = "ready"
Renewing(r, c) == [r EXCEPT !.renewal = c]

\* Service::wants_certificate.
Wants(r, c) == r.live /\ (r.cert = c \/ r.renewal = c)

\* Mutant of Updated: a renewal that is over stays in the record.
UpdatedKeepsRenewal(r, c, input) ==
    CASE r.renewal = c /\ input = "ready" -> [r EXCEPT !.cert = c, !.state = "ready"]
      [] r.renewal = c -> r
      [] OTHER -> [r EXCEPT !.state = input]

\* Service::update_certificate, where the record wants certificate c: a renewal
\* that is ready replaces the current certificate, one that failed is dropped.
Updated(r, c, input) ==
    CASE r.renewal = c /\ input = "ready" ->
           [r EXCEPT !.cert = c, !.state = "ready", !.renewal = NoCert]
      [] r.renewal = c /\ input = "failed" -> [r EXCEPT !.renewal = NoCert]
      [] r.renewal = c /\ input = "challenge" -> r
      [] OTHER -> [r EXCEPT !.state = input]

Inputs == {"challenge", "ready", "failed"}

\* retry_failed_issuance: a failed certificate shows as issuing again.
MayShowIssuing(r) == r.live /\ r.state = "failed"
ShowIssuing(r) == [r EXCEPT !.state = "issuing"]

\* One operation of the service took record r to record s.
Operation(r, s) ==
    \/ ~r.live /\ s = Created
    \/ r.live /\ s = Removed(r)
    \/ MayShowIssuing(r) /\ s = ShowIssuing(r)
    \/ \E c \in Cert :
         \/ MayBind(r) /\ s = Bound(r, c)
         \/ r.live /\ r.cert = c /\ r.state = "issuing" /\ s = BindFailed(r, c)
         \/ MayRenew(r) /\ s = Renewing(r, c)
         \/ \E old \in Cert \union {NoCert} :
              MayRenew(r) /\ r.renewal = c /\ s = Renewing(r, old)
         \/ \E input \in Inputs : Wants(r, c) /\ s = Updated(r, c, input)
=============================================================================
