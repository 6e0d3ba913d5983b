-------------------------- MODULE ServerCertificate --------------------------
(***************************************************************************)
(* The API domain's own certificate (ServerCertificates of jobs.rs): one   *)
(* key and certificate in the database, one job named in `meta`, and every *)
(* machine serving what is stored.  Each statement is a step.  The job     *)
(* itself runs as JobLeases says and ends in a certificate or in failure.  *)
(***************************************************************************)
EXTENDS Naturals, FiniteSets

CONSTANTS Host,
    MaxJobs,       \* bound: jobs requested
    MaxTroubles,   \* bound: failed statements and jobs, crashes
    NoKey, NoJob

ASSUME ServerAssumption ==
    /\ IsFiniteSet(Host) /\ {MaxJobs, MaxTroubles} \subseteq Nat /\ NoKey \notin Host

VARIABLES
    row,        \* the stored key (its maker) and certificate (0: none yet)
    named,      \* the job `meta` names
    queue,      \* pending jobs: number and the key they certify
    made,       \* jobs requested so far
    renewing,   \* whether the stored certificate is due
    ensure,     \* each machine: its next statement, what it read, the key it uses, its job
    serving,    \* what each machine serves
    troubles    \* history

serverVars == <<row, named, queue, made, renewing, ensure, serving, troubles>>

AtRest == [at |-> "rest", previous |-> NoJob, key |-> NoKey, job |-> NoJob]
Nothing == [key |-> NoKey, certificate |-> 0]

\* There is no certificate yet, or the stored one, of the first job, is due for renewal.
ServerInit ==
    /\ row \in {Nothing} \cup [key : Host, certificate : {1}]
    /\ made = row.certificate /\ named = (IF made = 0 THEN NoJob ELSE made)
    /\ queue = {} /\ renewing = TRUE /\ troubles = 0
    /\ ensure = [h \in Host |-> [AtRest EXCEPT !.at = "load"]] /\ serving \in [Host -> {Nothing, row}]

\* create_server_certificate, save_server_certificate and job_pending.
Stored(h) == IF row.key = NoKey THEN [row EXCEPT !.key = h] ELSE row
Saved(job) == IF row.key = job.key THEN [row EXCEPT !.certificate = job.number] ELSE row
Pending(number) == \E job \in queue : job.number = number

Upset == troubles < MaxTroubles /\ troubles' = troubles + 1
Step(h, next) == ensure' = [ensure EXCEPT ![h] = next]

\* The pause between two passes (ten seconds, an hour) is longer than the statements of a pass take.
Wake(h) ==
    /\ ensure[h].at = "rest" /\ \A g \in Host : ensure[g].at \in {"rest", "load"}
    /\ Step(h, [AtRest EXCEPT !.at = "load"])
    /\ UNCHANGED <<row, named, queue, made, renewing, serving, troubles>>

\* Serves the stored certificate, if any.
Load(h) ==
    /\ ensure[h].at = "load" /\ Step(h, [AtRest EXCEPT !.at = "due"])
    /\ serving' = [serving EXCEPT ![h] = IF row.certificate > 0 THEN row ELSE @]
    /\ UNCHANGED <<row, named, queue, made, renewing, troubles>>

\* Nothing to do while the certificate is not due.
ReadRow(h) ==
    /\ ensure[h].at = "due"
    /\ Step(h, IF renewing THEN [ensure[h] EXCEPT !.at = "meta", !.key = row.key] ELSE AtRest)
    /\ UNCHANGED <<row, named, queue, made, renewing, serving, troubles>>

\* Mutant: a job that is named counts as pending, whether or not it was ever added.
ReadJobNamed(h) ==
    /\ ensure[h].at = "meta"
    /\ Step(h, IF named # NoJob THEN AtRest
               ELSE [ensure[h] EXCEPT !.previous = named,
                                      !.at = IF ensure[h].key = NoKey THEN "create" ELSE "swap"])
    /\ UNCHANGED <<row, named, queue, made, renewing, serving, troubles>>

\* Nor while the job that was requested is pending.
ReadJob(h) ==
    /\ ensure[h].at = "meta"
    /\ Step(h, IF Pending(named) THEN AtRest
               ELSE [ensure[h] EXCEPT !.previous = named,
                                      !.at = IF ensure[h].key = NoKey THEN "create" ELSE "swap"])
    /\ UNCHANGED <<row, named, queue, made, renewing, serving, troubles>>

\* Stores a key unless another machine did; everyone uses the stored one.
CreateKey(h) ==
    /\ ensure[h].at = "create"
    /\ row' = Stored(h)
    /\ Step(h, [ensure[h] EXCEPT !.at = "swap", !.key = row'.key])
    /\ UNCHANGED <<named, queue, made, renewing, serving, troubles>>

\* Names its job, unless another machine named one since.
Swap(h) ==
    /\ ensure[h].at = "swap" /\ (named = ensure[h].previous => made < MaxJobs)
    /\ IF named = ensure[h].previous
       THEN /\ made' = made + 1 /\ named' = made'
            /\ Step(h, [ensure[h] EXCEPT !.at = "add", !.job = made'])
       ELSE Step(h, AtRest) /\ UNCHANGED <<made, named>>
    /\ UNCHANGED <<row, queue, renewing, serving, troubles>>

AddJob(h) ==
    /\ ensure[h].at = "add" /\ Step(h, AtRest)
    /\ queue' = queue \cup {[number |-> ensure[h].job, key |-> ensure[h].key]}
    /\ UNCHANGED <<row, named, made, renewing, serving, troubles>>

\* The statement fails (a failed load is followed by `ensure` all the same), or the process dies.
EnsureFails(h, died) ==
    /\ ensure[h].at # "rest" /\ Upset
    /\ Step(h, IF ~died /\ ensure[h].at = "load" THEN [AtRest EXCEPT !.at = "due"] ELSE AtRest)
    /\ serving' = (IF died THEN [serving EXCEPT ![h] = Nothing] ELSE serving)
    /\ UNCHANGED <<row, named, queue, made, renewing>>

\* A job's certificate is installed by the machine that ran it, and saved for its key.
Installed(h, job) ==
    /\ job \in queue /\ queue' = queue \ {job} /\ row' = Saved(job)
    /\ IF row.key = job.key
       THEN /\ renewing' = FALSE
            /\ serving' = [serving EXCEPT ![h] = [key |-> job.key, certificate |-> job.number]]
       ELSE UNCHANGED <<renewing, serving>>
    /\ UNCHANGED <<named, made, ensure, troubles>>

\* ... or it is installed, the save fails, and the job will run again.
InstalledUnsaved(h, job) ==
    /\ job \in queue /\ row.key = job.key /\ Upset
    /\ serving' = [serving EXCEPT ![h] = [key |-> job.key, certificate |-> job.number]]
    /\ UNCHANGED <<row, named, queue, made, renewing, ensure>>

JobFails(job) ==
    /\ job \in queue /\ queue' = queue \ {job} /\ Upset
    /\ UNCHANGED <<row, named, made, renewing, ensure, serving>>

ServerWork(h) ==
    Wake(h) \/ Load(h) \/ ReadRow(h) \/ ReadJob(h) \/ CreateKey(h) \/ Swap(h) \/ AddJob(h)

ServerNext ==
    \/ \E job \in queue : JobFails(job) \/ \E h \in Host : Installed(h, job) \/ InstalledUnsaved(h, job)
    \/ \E h \in Host : ServerWork(h) \/ \E died \in BOOLEAN : EnsureFails(h, died)

ServerSpec == ServerInit /\ [][ServerNext]_serverVars

-----------------------------------------------------------------------------
\* The stored certificate is not due, and every machine serves it.
AllServe == ~renewing /\ \A h \in Host : serving[h] = row

=============================================================================
