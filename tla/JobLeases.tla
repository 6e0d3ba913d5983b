------------------------------ MODULE JobLeases ------------------------------
(***************************************************************************)
(* The certificate jobs of opentunnel-server: the rows of the `jobs` table *)
(* (store.rs) and the job runner of every machine (jobs.rs).               *)
(*                                                                         *)
(* A row is claimed for a while (a lease in the name of the machine), the  *)
(* attempt runs in a task of its own, and the row is ended or scheduled    *)
(* again by an UPDATE that names the lease owner.  Machines crash, shut    *)
(* down, lose leases and get no answer from the database.                  *)
(*                                                                         *)
(* What an attempt reads from and writes to the tunnel's record is left    *)
(* open here (the `verdict` and `wanted` parameters); module Issuance      *)
(* fills it in.                                                            *)
(***************************************************************************)
EXTENDS Names, Naturals, FiniteSets

CONSTANTS
    Kind,         \* the kind of each job
    OldJobs,      \* jobs queued before AUTHZ_PENDING_FIX_MS
    Refused,      \* jobs for names their tunnel may not have
    Concurrency,  \* attempts a machine runs at once
    ATTEMPTS,     \* attempts of an error of unknown class
    MaxAttempts,  \* bound: attempts that fit the retry window
    FaultKinds,   \* the disturbances that may happen
    MaxFaults,    \* bound: how many of them
    NoOne         \* no lease owner (NULL)

Kinds == {"issue", "renew", "server"}

ASSUME JobAssumption ==
    /\ Kind \in [Cert -> Kinds]
    /\ OldJobs \subseteq Cert /\ Refused \subseteq Cert
    /\ Concurrency \in Nat \ {0}
    /\ ATTEMPTS \in Nat /\ MaxAttempts \in Nat /\ MaxFaults \in Nat
    /\ FaultKinds \subseteq {"crash", "stop", "hang", "lease", "statement",
                             "save", "read", "cut"}
    /\ NoOne \notin Machine
    /\ IsFiniteSet(Cert)

VARIABLES
    \* rows of the `jobs` table
    status,    \* "absent" before add_job
    owner,     \* lease_owner
    lease,     \* lease_until: "none" (NULL), "live" or "expired"
    due,       \* run_at <= now
    attempts,  \* failed attempts so far
    requeued,  \* jobs whose created_at is already that of a requeue
    claims,    \* history: claims of each job so far
    \* machines
    mode,      \* "up", "stopping", "released", "down"
    running,   \* Jobs::running, the jobs running on a machine
    round,     \* the runner's pass over start_due
    tasks,     \* the spawned attempts
    faults     \* history: disturbances so far

rows == <<status, owner, lease, due, attempts, requeued, claims>>
vars == <<rows, mode, running, round, tasks, faults>>

Ended == {"done", "failed", "abandoned"}

Phases == {"starting", "ordering", "answering", "checking", "judging",
           "recording", "finishing", "retrying"}

\* What the order came to, as far as execute() tells outcomes apart.
Failures == {"transient", "unknown", "permanent", "unpersisted"}
OrderResults == Failures \union {"issued", "stopped"}
Results == {"none", "issued", "stopped", "refused", "unwanted", "gave_up"}
             \union Failures

Task == [machine : Machine, cert : Cert, claim : Nat, attempts : Nat,
         phase : Phases, result : Results]

Round == [open : BOOLEAN, cooling : BOOLEAN, listed : SUBSET Cert,
          claiming : Cert \union {NoCert}]

NoRound == [open |-> FALSE, cooling |-> FALSE, listed |-> {}, claiming |-> NoCert]

Init ==
    /\ status = [c \in Cert |-> "absent"]
    /\ owner = [c \in Cert |-> NoOne]
    /\ lease = [c \in Cert |-> "none"]
    /\ due = [c \in Cert |-> FALSE]
    /\ attempts = [c \in Cert |-> 0]
    /\ requeued = {}
    /\ claims = [c \in Cert |-> 0]
    /\ mode = [m \in Machine |-> "up"]
    /\ running = [m \in Machine |-> {}]
    /\ round = [m \in Machine |-> NoRound]
    /\ tasks = {}
    /\ faults = 0

Alive(m) == mode[m] # "down"

\* One of the disturbances of an instance: "crash" (a process dies), "stop" (it
\* is shut down), "hang" (an attempt outlives RELEASE_WAIT), "lease" (a lease is
\* not extended in time), "statement" (a statement on `jobs` gets no answer),
\* "save" (a record is not saved), "read" (a record is not read), "cut" (a
\* request is dropped half way).
Fault(kind) ==
    /\ kind \in FaultKinds
    /\ faults < MaxFaults
    /\ faults' = faults + 1

-----------------------------------------------------------------------------
(* The store's statements on a row. *)

\* Mutant of Claimable: a lease of another machine is not respected.
ClaimableAnyLease(m, c) == status[c] = "pending" /\ due[c]

\* claim_job's condition: pending, due, and free, expired or our own.
Claimable(m, c) ==
    /\ status[c] = "pending" /\ due[c]
    /\ lease[c] \in {"none", "expired"} \/ owner[c] = m

\* extend_lease's condition.
Holds(m, c) == owner[c] = m /\ status[c] = "pending"

\* A row whose lease columns are NULL.
Unlease(c) ==
    /\ owner' = [owner EXCEPT ![c] = NoOne]
    /\ lease' = [lease EXCEPT ![c] = "none"]

\* UPDATE ... SET lease_owner = m, lease_until = now + LEASE_MS.
Lease(m, c) ==
    /\ owner' = [owner EXCEPT ![c] = m]
    /\ lease' = [lease EXCEPT ![c] = "live"]
    /\ claims' = [claims EXCEPT ![c] = @ + 1]

\* add_job inserts a row unless there is one; ensure_issuance calls it.
AddJob(c) ==
    /\ status[c] = "absent"
    /\ status' = [status EXCEPT ![c] = "pending"]
    /\ due' = [due EXCEPT ![c] = TRUE]
    /\ UNCHANGED <<owner, lease, attempts, requeued, claims, mode, running,
                   round, tasks>>

\* A requeued row is as new: pending, due, no attempts, no lease.
Requeue(c) ==
    /\ status' = [status EXCEPT ![c] = "pending"]
    /\ due' = [due EXCEPT ![c] = TRUE]
    /\ attempts' = [attempts EXCEPT ![c] = 0]
    /\ requeued' = requeued \union {c}
    /\ Unlease(c)
    /\ UNCHANGED <<claims, mode, running, round, tasks>>

\* requeue_failed_job: compare-and-set from failed to pending.  (Bound: a job is
\* requeued once; requeue_job_queued_before does no more in any case.)
RequeueFailed(c) ==
    /\ Kind[c] = "issue" /\ c \notin requeued
    /\ status[c] = "failed"
    /\ Requeue(c)

\* requeue_job_queued_before: failed or pending, unless a server holds it.
RequeueStuck(c) ==
    /\ Kind[c] = "issue" /\ c \in OldJobs \ requeued
    /\ status[c] \in {"failed", "pending"}
    /\ lease[c] \in {"none", "expired"}
    /\ Requeue(c)

-----------------------------------------------------------------------------
(* Time. *)

BecomeDue(c) ==
    /\ ~due[c] /\ status[c] = "pending"
    /\ due' = [due EXCEPT ![c] = TRUE]
    /\ UNCHANGED <<status, owner, lease, attempts, requeued, claims, mode,
                   running, round, tasks, faults>>

Expire(c) ==
    /\ lease[c] = "live"
    /\ lease' = [lease EXCEPT ![c] = "expired"]
    /\ UNCHANGED <<status, owner, due, attempts, requeued, claims, mode,
                   running, round, tasks>>

\* Nobody extends the lease: its owner is gone, or ended its attempt on an error.
LeaseRunsOut(c) ==
    /\ \A t \in tasks : ~(t.machine = owner[c] /\ t.cert = c)
    /\ Expire(c)
    /\ UNCHANGED faults

\* The owner runs the job but could not extend its lease for LEASE_MS (it was
\* paused, or cut off from the database).
LeaseLost(c) ==
    /\ \E t \in tasks : t.machine = owner[c] /\ t.cert = c
    /\ Expire(c)
    /\ Fault("lease")

-----------------------------------------------------------------------------
(* The runner: Jobs::start_due. *)

\* Mutant of IssueSlots: no slot is kept free.
AllSlots == Concurrency

\* All slots but one, which renewals keep.
IssueSlots == IF Concurrency > 1 THEN Concurrency - 1 ELSE Concurrency

Issuing(m) == {c \in running[m] : Kind[c] = "issue"}

\* job_schedule: the jobs the machine may take, renewals first, up to a limit
\* that leaves out none when every slot is given to a listed job.
Schedules(m) ==
    LET free == {c \in Cert : Claimable(m, c)}
        limit == Concurrency + Cardinality(running[m]) + 1
    IN {listed \in SUBSET free :
          /\ listed = free \/ Cardinality(listed) = limit
          /\ \A c \in free \ listed : Kind[c] # "issue" =>
               \A d \in listed : Kind[d] # "issue"}

\* A wakeup reads the schedule and whether the CA cools down.  (One that finds
\* nothing to start changes nothing.)
StartRound(m, cooling) ==
    /\ mode[m] = "up"
    /\ ~round[m].open
    /\ Cardinality(running[m]) < Concurrency
    /\ \E listed \in Schedules(m) :
         /\ listed \ running[m] # {}
         /\ round' = [round EXCEPT ![m] = [open |-> TRUE, cooling |-> cooling,
                                          listed |-> listed, claiming |-> NoCert]]
    /\ UNCHANGED <<rows, mode, running, tasks, faults>>

\* What start_due asks of a listed job before it puts it in `running`.
MayStart(m, c) ==
    /\ Cardinality(running[m]) < Concurrency
    /\ Kind[c] = "issue" => Cardinality(Issuing(m)) < IssueSlots
    /\ round[m].cooling =>
         Kind[c] # "issue" /\ Cardinality(running[m]) <= Cardinality(Issuing(m))
    /\ c \notin running[m]

\* The next listed job that may start, renewals before first issuance.  (A job
\* that was passed over may be looked at again before the pass ends.)
Enlist(m, c) ==
    /\ Alive(m) /\ round[m].open /\ round[m].claiming = NoCert
    /\ c \in round[m].listed /\ MayStart(m, c)
    /\ Kind[c] = "issue" =>
         \A d \in round[m].listed : Kind[d] # "issue" => ~MayStart(m, d)
    /\ running' = [running EXCEPT ![m] = @ \union {c}]
    /\ round' = [round EXCEPT ![m].claiming = c, ![m].listed = @ \ {c}]
    /\ UNCHANGED <<rows, mode, tasks, faults>>

\* No listed job may start: the pass ends.
EndRound(m) ==
    /\ Alive(m) /\ round[m].open /\ round[m].claiming = NoCert
    /\ \A c \in round[m].listed : ~MayStart(m, c)
    /\ round' = [round EXCEPT ![m] = NoRound]
    /\ UNCHANGED <<rows, mode, running, tasks, faults>>

\* claim_job took the row: the attempt is spawned.
Claim(m) ==
    LET c == round[m].claiming IN
    /\ Alive(m) /\ c \in Cert
    /\ Claimable(m, c)
    /\ Lease(m, c)
    /\ tasks' = tasks \union
                  {[machine |-> m, cert |-> c, claim |-> claims[c] + 1,
                    attempts |-> attempts[c], phase |-> "starting",
                    result |-> "none"]}
    /\ round' = [round EXCEPT ![m].claiming = NoCert]
    /\ UNCHANGED <<status, due, attempts, requeued, mode, running, faults>>

\* Mutant of ClaimNothing: the slot is not given back.
ClaimNothingLeaks(m) ==
    LET c == round[m].claiming IN
    /\ Alive(m) /\ c \in Cert
    /\ ~Claimable(m, c)
    /\ round' = [round EXCEPT ![m].claiming = NoCert]
    /\ UNCHANGED <<rows, mode, running, tasks, faults>>

\* Another machine took the row since it was listed.
ClaimNothing(m) ==
    LET c == round[m].claiming IN
    /\ Alive(m) /\ c \in Cert
    /\ ~Claimable(m, c)
    /\ running' = [running EXCEPT ![m] = @ \ {c}]
    /\ round' = [round EXCEPT ![m].claiming = NoCert]
    /\ UNCHANGED <<rows, mode, tasks, faults>>

\* The claim got no answer, with or without having taken the row; the pass ends.
ClaimError(m) ==
    LET c == round[m].claiming IN
    /\ Alive(m) /\ c \in Cert
    /\ Fault("statement")
    /\ \/ UNCHANGED <<owner, lease, claims>>
       \/ Claimable(m, c) /\ Lease(m, c)
    /\ running' = [running EXCEPT ![m] = @ \ {c}]
    /\ round' = [round EXCEPT ![m] = NoRound]
    /\ UNCHANGED <<status, due, attempts, requeued, mode, tasks>>

-----------------------------------------------------------------------------
(* An attempt: Jobs::execute. *)

Advance(t, phase, result) ==
    /\ tasks' = (tasks \ {t}) \union
                  {[t EXCEPT !.phase = phase, !.result = result]}
    /\ UNCHANGED running

\* Mutant of Return: the job stays in `running`.
ReturnLeaks(t) == tasks' = tasks \ {t} /\ UNCHANGED running

\* The task returns and takes the job out of `running`.
Return(t) ==
    /\ tasks' = tasks \ {t}
    /\ running' = [running EXCEPT ![t.machine] = @ \ {t.cert}]

\* permitted() and wanted(): refuse the job, abandon it or place the order.
Begin(t, verdict) ==
    /\ t.phase = "starting"
    /\ verdict = "refuse" <=> t.cert \in Refused
    /\ verdict = "unwanted" => Kind[t.cert] # "server"
    /\ CASE verdict = "refuse"   -> Advance(t, "recording", "refused")
         [] verdict = "unwanted" -> Advance(t, "finishing", "unwanted")
         [] verdict = "order"    -> Advance(t, "ordering", "none")
    /\ UNCHANGED <<rows, mode, round>>

\* The order is placed and its challenge shown (on_challenge), at most once.
Challenge(t) ==
    /\ t.phase = "ordering"
    /\ Advance(t, "answering", "none")
    /\ UNCHANGED <<rows, mode, round>>

InOrder(t) == t.phase \in {"ordering", "answering"}

\* extend_lease every LEASE_MS / 3; a lease that was lost is only logged.
KeepLease(t) ==
    /\ InOrder(t)
    /\ Holds(t.machine, t.cert) /\ lease[t.cert] # "live"
    /\ lease' = [lease EXCEPT ![t.cert] = "live"]
    /\ UNCHANGED <<status, owner, due, attempts, requeued, claims, mode,
                   running, round, tasks, faults>>

\* Issuer::issue returns.  Only a shutdown stops an order; only first issuance
\* writes the challenge to the record and may find it unwanted.
OrderEnds(t, result) ==
    /\ InOrder(t)
    /\ result = "stopped" => mode[t.machine] \in {"stopping", "released"}
    /\ result = "unpersisted" => Kind[t.cert] = "issue" /\ t.phase = "ordering"
    /\ Advance(t, "checking", result)
    /\ UNCHANGED <<rows, mode, round>>

\* What follows the lease check.
Proceed(t) ==
    CASE t.result = "stopped" -> Return(t)
      [] t.result = "issued"  -> Advance(t, "recording", "issued")
      [] OTHER                -> Advance(t, "judging", t.result)

\* The lease is extended once more right before recording.
CheckLease(t) ==
    /\ t.phase = "checking"
    /\ \/ /\ Holds(t.machine, t.cert)
          /\ lease' = [lease EXCEPT ![t.cert] = "live"]
          /\ Proceed(t)
       \/ /\ ~Holds(t.machine, t.cert)
          /\ UNCHANGED lease
          /\ Return(t)
    /\ UNCHANGED <<status, owner, due, attempts, requeued, claims, mode,
                   round, faults>>

\* That statement failed: the attempt goes on (`if let Ok(false)`).
CheckLeaseError(t) ==
    /\ t.phase = "checking"
    /\ Fault("statement")
    /\ Proceed(t)
    /\ UNCHANGED <<rows, mode, round>>

\* retry::next_attempt: permanent errors never, unknown ones ATTEMPTS times in
\* all, transient ones as long as the retry window lasts.
MayRetry(t) ==
    /\ t.result # "permanent"
    /\ t.result = "unknown" => t.attempts + 1 < ATTEMPTS
    /\ t.attempts < MaxAttempts

MayGiveUp(t) ==
    \/ t.result \in {"permanent", "transient"}
    \/ t.result = "unknown" /\ t.attempts + 1 >= ATTEMPTS

\* Mutant of Judge: giving up does not tell the record.
JudgeSilently(t, wanted) ==
    /\ t.phase = "judging"
    /\ wanted /\ MayGiveUp(t)
    /\ Advance(t, "finishing", "gave_up")
    /\ UNCHANGED <<rows, mode, round>>

\* After a failed order: abandon, retry or give up.
Judge(t, wanted) ==
    /\ t.phase = "judging"
    /\ Kind[t.cert] = "server" => wanted
    /\ \/ /\ t.result = "unpersisted" \/ ~wanted
          /\ Advance(t, "finishing", "unwanted")
       \/ /\ t.result # "unpersisted" /\ wanted
          /\ \/ MayRetry(t) /\ Advance(t, "retrying", t.result)
             \/ MayGiveUp(t) /\ Advance(t, "recording", "gave_up")
    /\ UNCHANGED <<rows, mode, round>>

\* update_certificate returned: on to finish_job.
Record(t) ==
    /\ t.phase = "recording"
    /\ Advance(t, "finishing", t.result)
    /\ UNCHANGED <<rows, mode, round>>

\* update_certificate (or ServerCertificates::installed) failed: the job keeps
\* its lease and status.
RecordError(t) ==
    /\ t.phase = "recording"
    /\ Kind[t.cert] = "server" => t.result = "issued"
    /\ Return(t)
    /\ UNCHANGED <<rows, mode, round>>

\* Mutant of FinalStatus: giving up counts as abandoning.
GivenUpIsAbandoned(result) == IF result = "issued" THEN "done" ELSE "abandoned"

FinalStatus(result) ==
    CASE result = "issued"   -> "done"
      [] result = "unwanted" -> "abandoned"
      [] OTHER               -> "failed"

\* Mutant of EndRow: the UPDATE does not name the lease owner.
EndRowAnyOwner(t) ==
    /\ status' = [status EXCEPT ![t.cert] = FinalStatus(t.result)]
    /\ Unlease(t.cert)
    /\ UNCHANGED <<due, attempts, requeued, claims>>

\* finish_job's UPDATE ... WHERE lease_owner = owner.
EndRow(t) ==
    /\ owner[t.cert] = t.machine
    /\ status' = [status EXCEPT ![t.cert] = FinalStatus(t.result)]
    /\ Unlease(t.cert)
    /\ UNCHANGED <<due, attempts, requeued, claims>>

Finish(t) ==
    /\ t.phase = "finishing"
    /\ \/ EndRow(t)
       \/ owner[t.cert] # t.machine /\ UNCHANGED rows
    /\ Return(t)
    /\ UNCHANGED <<mode, round, faults>>

\* retry_job's UPDATE ... WHERE lease_owner = owner.
RescheduleRow(t) ==
    /\ owner[t.cert] = t.machine
    /\ attempts' = [attempts EXCEPT ![t.cert] = t.attempts + 1]
    /\ due' = [due EXCEPT ![t.cert] = FALSE]
    /\ Unlease(t.cert)
    /\ UNCHANGED <<status, requeued, claims>>

Retry(t) ==
    /\ t.phase = "retrying"
    /\ \/ RescheduleRow(t)
       \/ owner[t.cert] # t.machine /\ UNCHANGED rows
    /\ Return(t)
    /\ UNCHANGED <<mode, round, faults>>

\* The last statement got no answer, with or without having taken effect.
EndError(t) ==
    /\ t.phase \in {"finishing", "retrying"}
    /\ Fault("statement")
    /\ \/ UNCHANGED rows
       \/ t.phase = "finishing" /\ EndRow(t)
       \/ t.phase = "retrying" /\ RescheduleRow(t)
    /\ Return(t)
    /\ UNCHANGED <<mode, round>>

-----------------------------------------------------------------------------
(* Processes. *)

\* Jobs::stop: a pass that already began still goes on.
Stop(m) ==
    /\ mode[m] = "up"
    /\ Fault("stop")
    /\ mode' = [mode EXCEPT ![m] = "stopping"]
    /\ UNCHANGED <<rows, running, round, tasks>>

\* release_leases: every lease in the machine's name is given up.
ReleaseLeases(m) ==
    /\ owner' = [c \in Cert |-> IF owner[c] = m THEN NoOne ELSE owner[c]]
    /\ lease' = [c \in Cert |-> IF owner[c] = m THEN "none" ELSE lease[c]]
    /\ UNCHANGED <<status, due, attempts, requeued, claims>>

\* Jobs::release, once nothing runs here or once RELEASE_WAIT is over.
Release(m) ==
    /\ mode[m] = "stopping"
    /\ mode' = [mode EXCEPT ![m] = "released"]
    /\ \/ running[m] = {} /\ ReleaseLeases(m) /\ UNCHANGED faults
       \/ running[m] # {} /\ ReleaseLeases(m) /\ Fault("hang")
       \/ running[m] = {} /\ UNCHANGED rows /\ Fault("statement")
    /\ UNCHANGED <<running, round, tasks>>

\* The process is gone, with its tasks and its memory.
Die(m) ==
    /\ mode' = [mode EXCEPT ![m] = "down"]
    /\ running' = [running EXCEPT ![m] = {}]
    /\ round' = [round EXCEPT ![m] = NoRound]
    /\ tasks' = {t \in tasks : t.machine # m}
    /\ UNCHANGED rows

Exit(m) ==
    /\ mode[m] = "released"
    /\ Die(m)
    /\ UNCHANGED faults

Crash(m) ==
    /\ Alive(m)
    /\ Fault("crash")
    /\ Die(m)

Restart(m) ==
    /\ mode[m] = "down"
    /\ mode' = [mode EXCEPT ![m] = "up"]
    /\ UNCHANGED <<rows, running, round, tasks, faults>>

-----------------------------------------------------------------------------

Runner(m) ==
    \/ \E cooling \in BOOLEAN : StartRound(m, cooling)
    \/ \E c \in Cert : Enlist(m, c)
    \/ EndRound(m)
    \/ Claim(m)
    \/ ClaimNothing(m)
    \/ ClaimError(m)

Attempt(t) ==
    \/ /\ \/ \E verdict \in {"refuse", "unwanted", "order"} : Begin(t, verdict)
          \/ Challenge(t)
          \/ \E result \in OrderResults : OrderEnds(t, result)
          \/ \E wanted \in BOOLEAN : Judge(t, wanted)
          \/ Record(t)
       /\ UNCHANGED faults
    \/ KeepLease(t)
    \/ CheckLease(t)
    \/ CheckLeaseError(t)
    \/ RecordError(t) /\ Fault("save")
    \/ Finish(t)
    \/ Retry(t)
    \/ EndError(t)

Process(m) == Stop(m) \/ Release(m) \/ Exit(m) \/ Crash(m) \/ Restart(m)

Row(c) ==
    \/ (AddJob(c) \/ RequeueFailed(c) \/ RequeueStuck(c)) /\ UNCHANGED faults
    \/ BecomeDue(c)
    \/ LeaseRunsOut(c)
    \/ LeaseLost(c)

Next ==
    \/ \E m \in Machine : Runner(m) \/ Process(m)
    \/ \E t \in tasks : Attempt(t)
    \/ \E c \in Cert : Row(c)

Spec == Init /\ [][Next]_vars

-----------------------------------------------------------------------------
(* Fairness.  Every machine's runner and tasks are tokio tasks that go on as  *)
(* long as the process lives; clocks advance; the platform restarts a machine *)
(* that is down.  A cool-down ends (COOLDOWN_MAX_MS), so passes without one   *)
(* come again and again.  Nothing makes a fault happen.                       *)

\* The steps of machine m's attempt at c that need no fault.
AttemptStep(m, c) ==
    \E t \in tasks :
        /\ t.machine = m /\ t.cert = c
        /\ \/ \E verdict \in {"refuse", "unwanted", "order"} : Begin(t, verdict)
           \/ \E result \in OrderResults : OrderEnds(t, result)
           \/ CheckLease(t)
           \/ \E wanted \in BOOLEAN : Judge(t, wanted)
           \/ Record(t)
           \/ Finish(t)
           \/ Retry(t)
        /\ UNCHANGED faults

RunnerStep(m) ==
    EndRound(m) \/ Claim(m) \/ ClaimNothing(m) \/ \E c \in Cert : Enlist(m, c)

Fairness ==
    /\ \A m \in Machine :
         /\ SF_vars(StartRound(m, FALSE))
         /\ WF_vars(RunnerStep(m))
         /\ WF_vars(Release(m)) /\ WF_vars(Exit(m)) /\ WF_vars(Restart(m))
         /\ \A c \in Cert : WF_vars(AttemptStep(m, c))
    /\ \A c \in Cert : WF_vars(BecomeDue(c)) /\ WF_vars(LeaseRunsOut(c))

FairSpec == Spec /\ Fairness

-----------------------------------------------------------------------------
(* Properties. *)

RowsOK ==
    /\ status \in [Cert -> Ended \union {"absent", "pending"}]
    /\ owner \in [Cert -> Machine \union {NoOne}]
    /\ lease \in [Cert -> {"none", "live", "expired"}]
    /\ \A c \in Cert : owner[c] = NoOne <=> lease[c] = "none"
    /\ due \in [Cert -> BOOLEAN]
    /\ attempts \in [Cert -> Nat]
    /\ requeued \subseteq Cert
    /\ claims \in [Cert -> Nat]

MachinesOK ==
    /\ mode \in [Machine -> {"up", "stopping", "released", "down"}]
    /\ running \in [Machine -> SUBSET Cert]
    /\ round \in [Machine -> Round]
    /\ tasks \subseteq Task
    /\ faults \in Nat

\* Every variable keeps its type, and a row has a lease exactly when it has a
\* lease owner (the two columns store.rs always sets together).
TypeOK == RowsOK /\ MachinesOK

\* A pending row is ended or scheduled again only by the attempt of its latest
\* claim.  The UPDATEs of finish_job and retry_job name only the machine, so
\* this rests on one process per name and on `running` letting no machine run a
\* job twice: an attempt that outlived its lease never decides the job.
FencedResults ==
    [][\A c \in Cert :
         status[c] = "pending" /\ (status'[c] \in Ended \/ attempts'[c] > attempts[c])
           => \E t \in tasks \ tasks' : t.cert = c /\ t.claim = claims[c]]_vars

\* `running` is exactly what runs on the machine (tasks, and the job being
\* claimed): no error path leaks a slot, and no attempt runs outside one.
NoSlotLeak ==
    \A m \in Machine :
        running[m] = {t.cert : t \in {u \in tasks : u.machine = m}}
                       \union ({round[m].claiming} \ {NoCert})

\* First issuance never takes every slot of a machine that has several: one is
\* kept for renewals (issue_slots).
SlotForRenewals ==
    Concurrency > 1 => \A m \in Machine : Cardinality(Issuing(m)) < Concurrency

\* While nothing goes wrong, a job is claimed once per attempt, whatever
\* machines race for it ("checks each ran once").
RunsOnce ==
    faults = 0 => \A c \in Cert \ requeued : claims[c] <= attempts[c] + 1

\* Every queued job ends, whatever crashes, lost leases, shutdowns and failed
\* statements happen on the way, as long as they stop happening.
JobEnds ==
    \A c \in Cert : (status[c] = "pending") ~> (status[c] \in Ended)
=============================================================================
