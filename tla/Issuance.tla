------------------------------ MODULE Issuance ------------------------------
(***************************************************************************)
(* Certificate issuance of one tunnel, end to end: the tunnel's record     *)
(* (TunnelRecord) and the jobs that act on it (JobLeases).  A bind or a     *)
(* renewal writes the record and queues a job; the attempt reads whether    *)
(* the certificate is still wanted, shows the challenge, and records the    *)
(* outcome before it ends the job.                                          *)
(*                                                                          *)
(* A machine reads the record afresh for each of these, except for a while  *)
(* after a failed read, when it trusts what it last saw.  A write whose     *)
(* view is not the record as it is fails (module Records shows that writes  *)
(* are atomic).                                                             *)
(***************************************************************************)
EXTENDS JobLeases, TunnelRecord

VARIABLES
    seen,   \* the record each machine has cached
    deaf,   \* a read failed less than REFRESH_BACKOFF_MS ago
    used    \* history: certificate IDs given out (uuids never repeat)

recordVars == <<rec, seen, deaf, used>>
allVars == <<vars, recordVars>>

Unseen == [loaded |-> FALSE, record |-> Missing]
Seen(r) == [loaded |-> TRUE, record |-> r]

IssuanceInit ==
    /\ Init
    /\ rec = Created
    /\ seen = [m \in Machine |-> Unseen]
    /\ deaf = [m \in Machine |-> FALSE]
    /\ used = {}

-----------------------------------------------------------------------------
(* Reading and writing the record on machine m. *)

View(m) == IF seen[m].loaded /\ deaf[m] THEN seen[m].record ELSE rec

\* What the machine caches.  Only a failed read brings it back, so it is not kept
\* in instances where reads do not fail.
Cached(m, r) ==
    seen' = IF "read" \in FaultKinds THEN [seen EXCEPT ![m] = Seen(r)] ELSE seen

\* The record is read (or the cache trusted) and left alone.
Look(m) ==
    /\ Cached(m, View(m))
    /\ UNCHANGED <<rec, deaf, used>>

\* A save that took effect, so its view was the record.
Save(m, r) ==
    /\ View(m) = rec
    /\ rec' = r
    /\ Cached(m, r)
    /\ UNCHANGED <<deaf, used>>

\* A save of a view that is stale: Conflict, and the cache is dropped.
SaveConflict(m) ==
    /\ View(m) # rec
    /\ seen' = [seen EXCEPT ![m] = Unseen]
    /\ UNCHANGED <<rec, deaf, used>>

\* A save without an answer, which took effect or not; or one after which the
\* renewal alarm could not be set.
SaveError(m, r) ==
    /\ View(m) = rec
    /\ Fault("save")
    /\ rec' \in {rec, r}
    /\ Cached(m, View(m)) \/ Cached(m, rec')
    /\ UNCHANGED <<deaf, used>>

-----------------------------------------------------------------------------
(* Requests and background work. *)

Fresh(c, kind) == c \notin used /\ Kind[c] = kind

\* The record r of a new certificate c is saved; then its job is queued, unless
\* the request is dropped in between.
SaveThenQueue(m, c, r) ==
    /\ Alive(m) /\ View(m) = rec
    /\ rec' = r
    /\ Cached(m, r)
    /\ used' = used \union {c}
    /\ UNCHANGED deaf
    /\ \/ AddJob(c) /\ UNCHANGED faults
       \/ Fault("cut") /\ UNCHANGED <<rows, mode, running, round, tasks>>

\* Queueing got no answer, with or without a job: the record is put back or
\* marked failed.
SaveUnqueued(m, c, r) ==
    /\ Alive(m) /\ View(m) = rec
    /\ Fault("statement")
    /\ rec' = r
    /\ Cached(m, r)
    /\ used' = used \union {c}
    /\ UNCHANGED deaf
    /\ AddJob(c) \/ UNCHANGED <<rows, mode, running, round, tasks>>

BindCertificate(m, c) ==
    /\ Fresh(c, "issue") /\ MayBind(View(m))
    /\ \/ SaveThenQueue(m, c, Bound(View(m), c))
       \/ SaveUnqueued(m, c, BindFailed(View(m), c))

StartRenewal(m, c) ==
    /\ Fresh(c, "renew") /\ MayRenew(View(m))
    /\ \/ SaveThenQueue(m, c, Renewing(View(m), c))
       \/ SaveUnqueued(m, c, View(m))

RemoveTunnel(m) ==
    /\ Alive(m) /\ View(m).live
    /\ Save(m, Removed(View(m)))
    /\ UNCHANGED vars

\* Mutant of Resume: only renewals are looked for.
ResumeRenewals(m, c) ==
    /\ Alive(m) /\ View(m).live /\ View(m).renewal = c
    /\ AddJob(c) /\ UNCHANGED faults
    /\ Look(m)

\* resume_orphaned_issuance: the reconcile queues issuance that has no job.
Resume(m, c) ==
    /\ Alive(m) /\ Wants(View(m), c)
    /\ View(m).cert = c => View(m).state \in {"issuing", "challenge"}
    /\ AddJob(c) /\ UNCHANGED faults
    /\ Look(m)

\* A client binds the CSR of its certificate again, whatever that came to.
BindAgain(m, c) ==
    /\ Alive(m) /\ View(m).live /\ View(m).cert = c
    /\ AddJob(c) /\ UNCHANGED faults
    /\ Look(m)

\* retry_failed_issuance: the job is requeued, then the record shows issuing
\* again; should that save fail, the job runs all the same.
Reissue(m, c) ==
    /\ Alive(m)
    /\ View(m).live /\ View(m).cert = c
    /\ \/ View(m).state = "failed" /\ RequeueFailed(c)
       \/ View(m).state # "ready" /\ RequeueStuck(c)
    /\ \/ View(m).state # "failed" /\ Look(m) /\ UNCHANGED faults
       \/ View(m).state = "failed" /\
            \/ Save(m, ShowIssuing(View(m))) /\ UNCHANGED faults
            \/ SaveConflict(m) /\ UNCHANGED faults
            \/ SaveError(m, ShowIssuing(View(m)))

\* Any other request or event on the machine.
Lookup(m) == Alive(m) /\ Look(m) /\ UNCHANGED vars

ReadFails(m) ==
    /\ Alive(m) /\ seen[m].loaded /\ Fault("read")
    /\ deaf' = [deaf EXCEPT ![m] = TRUE]
    /\ UNCHANGED <<rows, mode, running, round, tasks, rec, seen, used>>

BackoffEnds(m) ==
    /\ deaf[m]
    /\ deaf' = [deaf EXCEPT ![m] = FALSE]
    /\ UNCHANGED <<vars, rec, seen, used>>

\* A process ends and its memory with it.
Ends(m) ==
    /\ Exit(m) \/ Crash(m)
    /\ seen' = [seen EXCEPT ![m] = Unseen]
    /\ deaf' = [deaf EXCEPT ![m] = FALSE]
    /\ UNCHANGED <<rec, used>>

-----------------------------------------------------------------------------
(* The attempt, with what it reads and writes. *)

\* Jobs::wanted; a record that was never read and cannot be is assumed to want it.
Wanted(m, c, wanted) ==
    \/ /\ wanted = Wants(View(m), c)
       /\ Look(m)
       /\ UNCHANGED faults
    \/ /\ ~seen[m].loaded /\ Fault("read")
       /\ wanted = TRUE
       /\ UNCHANGED recordVars

BeginAttempt(t) ==
    \/ Begin(t, "refuse") /\ UNCHANGED faults /\ UNCHANGED recordVars
    \/ Wanted(t.machine, t.cert, TRUE) /\ Begin(t, "order")
    \/ Wanted(t.machine, t.cert, FALSE) /\ Begin(t, "unwanted")

\* on_challenge: only first issuance shows the challenge in the record, whether
\* or not the machine still holds the lease.
ShowChallenge(t) ==
    LET m == t.machine
        view == View(m)
        shown == Updated(view, t.cert, "challenge")
    IN
    \/ /\ Kind[t.cert] # "issue"
       /\ Challenge(t)
       /\ UNCHANGED <<faults, recordVars>>
    \/ /\ Kind[t.cert] = "issue" /\ t.phase = "ordering"
       /\ \/ Wants(view, t.cert) /\ Save(m, shown) /\ Challenge(t) /\ UNCHANGED faults
          \/ Wants(view, t.cert) /\ SaveConflict(m) /\ OrderEnds(t, "unknown") /\ UNCHANGED faults
          \/ Wants(view, t.cert) /\ SaveError(m, shown)
             /\ \E result \in {"unknown", "transient"} : OrderEnds(t, result)
          \/ ~Wants(view, t.cert) /\ Look(m) /\ OrderEnds(t, "unpersisted") /\ UNCHANGED faults

EndOrder(t) ==
    /\ \E result \in OrderResults \ {"unpersisted"} : OrderEnds(t, result)
    /\ UNCHANGED <<faults, recordVars>>

JudgeFailure(t) ==
    \E wanted \in BOOLEAN : Wanted(t.machine, t.cert, wanted) /\ Judge(t, wanted)

\* update_certificate with the outcome; false (not wanted) is only logged.
RecordOutcome(t) ==
    LET m == t.machine
        view == View(m)
        outcome == Updated(view, t.cert, IF t.result = "issued" THEN "ready" ELSE "failed")
    IN
    \/ Wants(view, t.cert) /\ Save(m, outcome) /\ Record(t) /\ UNCHANGED faults
    \/ ~Wants(view, t.cert) /\ Look(m) /\ Record(t) /\ UNCHANGED faults
    \/ Wants(view, t.cert) /\ SaveConflict(m) /\ RecordError(t) /\ UNCHANGED faults
    \/ Wants(view, t.cert) /\ SaveError(m, outcome) /\ RecordError(t)

IssuanceAttempt(t) ==
    \/ BeginAttempt(t)
    \/ ShowChallenge(t)
    \/ EndOrder(t)
    \/ JudgeFailure(t)
    \/ RecordOutcome(t)
    \/ /\ KeepLease(t) \/ CheckLease(t) \/ CheckLeaseError(t)
          \/ Finish(t) \/ Retry(t) \/ EndError(t)
       /\ UNCHANGED recordVars

IssuanceNext ==
    \/ \E m \in Machine :
         \/ Runner(m) /\ UNCHANGED recordVars
         \/ (Stop(m) \/ Release(m) \/ Restart(m)) /\ UNCHANGED recordVars
         \/ Ends(m)
         \/ RemoveTunnel(m) \/ Lookup(m) \/ ReadFails(m) \/ BackoffEnds(m)
         \/ \E c \in Cert :
              \/ BindCertificate(m, c) \/ BindAgain(m, c) \/ StartRenewal(m, c)
              \/ Resume(m, c) \/ Reissue(m, c)
    \/ \E c \in Cert :
         (BecomeDue(c) \/ LeaseRunsOut(c) \/ LeaseLost(c)) /\ UNCHANGED recordVars
    \/ \E t \in tasks : IssuanceAttempt(t)

IssuanceSpec == IssuanceInit /\ [][IssuanceNext]_allVars

\* As in JobLeases, with the attempt's steps that need no fault, the reconcile
\* and the end of the read back-off.
IssuanceStep(m, c) ==
    \E t \in tasks :
        /\ t.machine = m /\ t.cert = c
        /\ \/ BeginAttempt(t) \/ JudgeFailure(t) \/ RecordOutcome(t) \/ EndOrder(t)
           \/ (CheckLease(t) \/ Finish(t) \/ Retry(t)) /\ UNCHANGED recordVars

IssuanceFairness ==
    /\ \A m \in Machine :
         /\ SF_allVars(StartRound(m, FALSE) /\ UNCHANGED recordVars)
         /\ WF_allVars(RunnerStep(m) /\ UNCHANGED recordVars)
         /\ WF_allVars(Release(m) /\ UNCHANGED recordVars)
         /\ WF_allVars(Exit(m) /\ Ends(m))
         /\ WF_allVars(Restart(m) /\ UNCHANGED recordVars)
         /\ WF_allVars(BackoffEnds(m))
         /\ \A c \in Cert : WF_allVars(IssuanceStep(m, c)) /\ WF_allVars(Resume(m, c))
    /\ \A c \in Cert :
         WF_allVars((BecomeDue(c) \/ LeaseRunsOut(c)) /\ UNCHANGED recordVars)

FairIssuance == IssuanceSpec /\ IssuanceFairness

-----------------------------------------------------------------------------
(* Properties. *)

\* A tunnel never waits for a job that is over: once the job of its certificate
\* ended, the record shows that certificate ready or failed, and a renewal that
\* ended is not left in the record.  ("The tunnel shows issuing/challenge until
\* the job ends, so clients keep polling.")
NeverStuck ==
    \A c \in Cert :
        status[c] \in Ended /\ rec.live =>
            /\ rec.cert = c => rec.state \in {"ready", "failed"}
            /\ rec.renewal # c

\* A job ends as abandoned only when its tunnel was deleted or bound another
\* certificate.
AbandonedOnlyUnwanted ==
    [][\A c \in Cert :
         status[c] # "abandoned" /\ status'[c] = "abandoned" => ~Wants(rec, c)]_allVars

\* "During a renewal, GET /api/tunnel/:id/certificate keeps returning the current
\* certificate.  It switches to the new one once issued": the job of a renewal
\* never takes back the certificate it brought.
RenewalKeepsServing ==
    [][rec.live /\ rec.state = "ready" /\ rec.cert \in Cert /\ Kind[rec.cert] = "renew"
         /\ rec'.live /\ rec'.cert = rec.cert => rec'.state = "ready"]_allVars

Waiting(c) == rec.live /\ rec.cert = c /\ rec.state \in {"issuing", "challenge"}

\* Every issuance a tunnel waits for is settled, also when the request that
\* started it was dropped before it queued the job.
Settles == \A c \in Cert : Waiting(c) ~> ~Waiting(c)
=============================================================================
