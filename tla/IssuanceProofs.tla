--------------------------- MODULE IssuanceProofs ---------------------------
(***************************************************************************)
(* What holds of a tunnel's certificate end to end, for any number of      *)
(* machines, certificates and slots, whatever processes die and statements *)
(* get no answer: a tunnel never waits for a job that is over, and a job   *)
(* is abandoned only when its tunnel does not want it any more.            *)
(*                                                                         *)
(* Record and job are two rows without a common transaction.  That one     *)
(* tells the truth about the other rests on the lease: as long as it holds *)
(* under a running attempt (no lease is lost, no attempt outlives the      *)
(* release of its machine's leases) nobody else writes the record for its  *)
(* certificate, so what it recorded still stands when it ends the job.     *)
(***************************************************************************)
EXTENDS Issuance, JobLeasesProofs

\* The disturbances under which an attempt goes on without its lease, or with an old record (README,
\* known disagreements).
Calm == {"lease", "hang", "read"} \intersect FaultKinds = {}

\* The tunnel does not wait for certificate c.
Settled(c) == rec.live => (rec.cert = c => rec.state \in {"ready", "failed"}) /\ rec.renewal # c

\* Certificates in the record were given out, and a renewal is never the current one.
RecordOK ==
    /\ rec \in TunnelRecords /\ used \subseteq Cert /\ deaf = [m \in Machine |-> FALSE]
    /\ {rec.cert, rec.renewal} \subseteq used \union {NoCert}
    /\ rec.renewal \in Cert => rec.cert # rec.renewal

\* So were those with a job.
Known == \A c \in Cert : status[c] # "absent" => c \in used

\* An attempt has its lease.
Leased ==
    \A t \in tasks : owner[t.cert] = t.machine /\ lease[t.cert] = "live" /\ status[t.cert] = "pending"

\* Before an attempt ends the job, the record was told.
ToldBy(t) ==
    /\ t.phase = "finishing" => Settled(t.cert)
    /\ t.result \in {"unpersisted", "unwanted"} => ~Wants(rec, t.cert)

Told == \A t \in tasks : ToldBy(t)

IssuanceInv == SlotInv /\ RecordOK /\ Known /\ Leased /\ Told /\ NeverStuck

-----------------------------------------------------------------------------
(* The record. *)

\* A step of the service on the record, about certificate c.
Change(c) ==
    \/ UNCHANGED <<rec, used>>
    \/ UNCHANGED used /\ rec' = Removed(rec)
    \/ UNCHANGED used /\ rec.cert = c /\ rec' = ShowIssuing(rec)
    \/ UNCHANGED used /\ Wants(rec, c) /\ \E input \in Inputs : rec' = Updated(rec, c, input)
    \/ /\ c \notin used /\ used' = used \union {c}
       /\ rec' \in {rec, Bound(rec, c), BindFailed(rec, c), Renewing(rec, c)}

\* What is settled, or not wanted, stays so.
Kept(d) == (Settled(d) => Settled(d)') /\ (~Wants(rec, d) => ~Wants(rec, d)')

\* update_certificate, field by field.
LEMMA UpdateFields ==
    ASSUME rec \in TunnelRecords, NEW c \in Cert, NEW input \in Inputs
    PROVE  /\ Updated(rec, c, input) \in TunnelRecords
           /\ Updated(rec, c, input).live = rec.live
           /\ \/ /\ rec.renewal = c /\ input = "ready"
                 /\ Updated(rec, c, input).cert = c /\ Updated(rec, c, input).state = "ready"
                 /\ Updated(rec, c, input).renewal = NoCert
              \/ /\ rec.renewal = c /\ input = "failed"
                 /\ Updated(rec, c, input).cert = rec.cert /\ Updated(rec, c, input).state = rec.state
                 /\ Updated(rec, c, input).renewal = NoCert
              \/ rec.renewal = c /\ input = "challenge" /\ Updated(rec, c, input) = rec
              \/ /\ rec.renewal # c
                 /\ Updated(rec, c, input).cert = rec.cert /\ Updated(rec, c, input).state = input
                 /\ Updated(rec, c, input).renewal = rec.renewal
  <1>1. CASE rec.renewal = c /\ input = "ready"
    BY <1>1 DEF TunnelRecords, CertStates, Updated
  <1>2. CASE rec.renewal = c /\ input = "failed"
    BY <1>2 DEF TunnelRecords, CertStates, Updated
  <1>3. CASE rec.renewal = c /\ input = "challenge"
    BY <1>3 DEF TunnelRecords, CertStates, Updated
  <1>4. CASE rec.renewal # c
    BY <1>4 DEF TunnelRecords, CertStates, Updated, Inputs
  <1> QED
    BY <1>1, <1>2, <1>3, <1>4 DEF Inputs

\* Every step keeps the record's form, and what it says of other certificates.
LEMMA RecordChanges ==
    ASSUME RecordOK, NEW c \in Cert, Change(c), UNCHANGED deaf
    PROVE  RecordOK' /\ \A d \in Cert : d # c \/ rec' = rec \/ rec' = Removed(rec) => Kept(d)
  <1>r. /\ rec \in TunnelRecords /\ rec.cert \in Cert \union {NoCert} /\ rec.renewal \in Cert \union {NoCert}
        /\ rec.live \in BOOLEAN /\ rec.state \in CertStates
        /\ used \subseteq Cert /\ NoCert \notin Cert
    BY NamesAssumption DEF RecordOK, TunnelRecords
  <1>1. CASE UNCHANGED <<rec, used>>
    BY <1>1 DEF RecordOK, Kept, Settled, Wants
  <1>2. CASE UNCHANGED used /\ rec' = Removed(rec)
    <2>1. rec' \in TunnelRecords /\ rec'.live = FALSE /\ rec'.cert = rec.cert /\ rec'.renewal = rec.renewal
      BY <1>2, <1>r DEF Removed, TunnelRecords
    <2> QED
      BY <1>2, <2>1 DEF RecordOK, Kept, Settled, Wants
  <1>3. CASE UNCHANGED used /\ rec.cert = c /\ rec' = ShowIssuing(rec)
    <2>1. rec' \in TunnelRecords /\ rec'.live = rec.live /\ rec'.cert = rec.cert /\ rec'.renewal = rec.renewal
          /\ rec'.state = "issuing"
      BY <1>3, <1>r DEF ShowIssuing, TunnelRecords, CertStates
    <2>2. rec' # Removed(rec) \/ rec.live = FALSE
      BY <1>3, <1>r, <2>1 DEF Removed, TunnelRecords
    <2> QED
      BY <1>3, <2>1, <2>2 DEF RecordOK, Kept, Settled, Wants
  <1>4. ASSUME UNCHANGED used, Wants(rec, c), NEW input \in Inputs, rec' = Updated(rec, c, input)
        PROVE RecordOK' /\ \A d \in Cert : d # c \/ rec' = rec \/ rec' = Removed(rec) => Kept(d)
    <2>u. rec.live /\ (rec.cert = c \/ rec.renewal = c)
      BY <1>4 DEF Wants
    <2>1. /\ rec' \in TunnelRecords /\ rec'.live = rec.live
          /\ \/ rec'.cert = c /\ rec'.state = "ready" /\ rec'.renewal = NoCert /\ rec.renewal = c
             \/ rec'.cert = rec.cert /\ rec'.state = rec.state /\ rec'.renewal = NoCert
             \/ rec' = rec
             \/ rec.renewal # c /\ rec'.cert = rec.cert /\ rec'.renewal = rec.renewal
      BY <1>4, <1>r, UpdateFields
    <2>2. RecordOK'
      BY <1>4, <1>r, <2>1 DEF RecordOK
    <2>3. rec' # Removed(rec)
      <3>1. Removed(rec).live = FALSE
        BY <1>r DEF Removed, TunnelRecords
      <3> QED
        BY <2>1, <2>u, <3>1
    <2>4. ASSUME NEW d \in Cert, d # c \/ rec' = rec PROVE Kept(d)
      BY <1>r, <2>1, <2>u, <2>4 DEF Kept, Settled, Wants
    <2> QED
      BY <2>2, <2>3, <2>4
  <1>5. ASSUME c \notin used, used' = used \union {c},
               rec' \in {rec, Bound(rec, c), BindFailed(rec, c), Renewing(rec, c)}
        PROVE RecordOK' /\ \A d \in Cert : d # c \/ rec' = rec \/ rec' = Removed(rec) => Kept(d)
    <2>1. /\ rec' \in TunnelRecords /\ rec'.live = rec.live
          /\ \/ rec' = rec
             \/ rec'.cert = c /\ rec'.renewal = NoCert
             \/ rec'.cert = rec.cert /\ rec'.state = rec.state /\ rec'.renewal = c
      BY <1>5, <1>r DEF Bound, BindFailed, Renewing, TunnelRecords, CertStates
    <2>2. RecordOK'
      BY <1>5, <1>r, <2>1 DEF RecordOK
    <2>3. rec.cert # c /\ rec.renewal # c
      BY <1>5, <1>r DEF RecordOK
    <2>4. rec' = Removed(rec) => rec' = rec \/ rec.live = FALSE
      <3>1. Removed(rec).live = FALSE
        BY <1>r DEF Removed, TunnelRecords
      <3> QED
        BY <2>1, <3>1
    <2>5. ASSUME NEW d \in Cert, d # c \/ rec' = rec \/ rec'.live = FALSE PROVE Kept(d)
      BY <1>r, <2>1, <2>3, <2>5 DEF Kept, Settled, Wants
    <2> QED
      BY <2>1, <2>2, <2>4, <2>5
  <1> QED
    BY <1>1, <1>2, <1>3, <1>4, <1>5 DEF Change

-----------------------------------------------------------------------------
(* Steps, by what they do to tasks and rows. *)

\* What the invariant says of one task.
LEMMA TaskFacts ==
    ASSUME IssuanceInv, NEW t \in tasks
    PROVE  /\ t \in Task /\ t.cert \in Cert /\ t.machine \in Machine /\ t.phase \in Phases /\ t.result \in Results
           /\ owner[t.cert] = t.machine /\ lease[t.cert] = "live" /\ status[t.cert] = "pending"
           /\ t.cert \in used /\ ToldBy(t)
           /\ \A u \in tasks : u.cert = t.cert => u = t
  <1>1. t \in Task /\ t.cert \in Cert /\ t.machine \in Machine /\ t.phase \in Phases /\ t.result \in Results
    BY DEF IssuanceInv, SlotInv, TypeOK, MachinesOK, Task
  <1>2. owner[t.cert] = t.machine /\ lease[t.cert] = "live" /\ status[t.cert] = "pending" /\ t.cert \in used
    BY <1>1 DEF IssuanceInv, Leased, Known
  <1>3. \A u \in tasks : u.cert = t.cert => u = t
    BY <1>2 DEF IssuanceInv, Leased, SlotInv, OneTask
  <1> QED
    BY <1>1, <1>2, <1>3 DEF IssuanceInv, Told

\* Where the record reads back what was last saved, every machine sees it as it is.
LEMMA ViewIsRecord ==
    ASSUME RecordOK, NEW m \in Machine
    PROVE  View(m) = rec
  BY DEF RecordOK, View

\* A task that goes on, or returns, while the rows stay as they are.
LEMMA TaskTells ==
    ASSUME IssuanceInv, NEW t \in tasks, UNCHANGED <<rows, mode, round>>, UNCHANGED deaf, faults' \in Nat,
           Change(t.cert), rec' # Removed(rec) \/ rec' = rec,
           \/ Return(t)
           \/ \E p \in Phases, r \in Results :
                /\ Advance(t, p, r)
                /\ p = "finishing" => Settled(t.cert)'
                /\ r \in {"unpersisted", "unwanted"} => ~Wants(rec, t.cert)'
    PROVE  IssuanceInv'
  <1>t. /\ t \in Task /\ t.cert \in Cert /\ status[t.cert] = "pending"
        /\ \A u \in tasks : u.cert = t.cert => u = t
    BY TaskFacts
  <1>r. RecordOK' /\ \A d \in Cert : d # t.cert \/ rec' = rec => Kept(d)
    BY <1>t, RecordChanges DEF IssuanceInv
  <1>o. LeasesOnlyEnd /\ UNCHANGED <<status, owner, lease>> /\ used \subseteq used'
    BY DEF rows, LeasesOnlyEnd, Change
  <1>p. TypeOK
    BY DEF IssuanceInv, SlotInv
  <1>k. Known'
    BY <1>o DEF IssuanceInv, Known
  <1>n. NeverStuck'
    <2>1. SUFFICES ASSUME NEW d \in Cert, status[d] \in Ended PROVE Settled(d)'
      BY <1>o DEF NeverStuck, Settled
    <2>2. Settled(d) /\ d # t.cert
      BY <1>t, <2>1 DEF IssuanceInv, NeverStuck, Settled, Ended
    <2> QED
      BY <1>r, <2>2 DEF Kept
  <1>u. ASSUME NEW u \in tasks, u # t PROVE ToldBy(u)'
    <2>1. u.cert \in Cert /\ u.cert # t.cert /\ ToldBy(u)
      BY <1>t, <1>u, TaskFacts
    <2>2. Kept(u.cert)
      BY <1>r, <2>1
    <2> QED
      BY <2>1, <2>2 DEF ToldBy, Kept
  <1>1. CASE Return(t)
    <2>1. tasks' = tasks \ {t} /\ tasks' \subseteq Task /\ running' \in [Machine -> SUBSET Cert]
      BY <1>1, <1>p, ReturnType DEF Return
    <2>2. TypeOK'
      BY <1>p, <2>1 DEF TypeOK, RowsOK, MachinesOK, rows
    <2>3. SlotInv'
      BY <1>1, <1>o, <2>2, ReturnKeeps DEF IssuanceInv
    <2>4. Leased'
      BY <1>o, <2>1 DEF IssuanceInv, Leased
    <2>5. Told'
      BY <1>u, <2>1 DEF Told
    <2> QED
      BY <1>r, <1>k, <1>n, <2>3, <2>4, <2>5 DEF IssuanceInv
  <1>2. ASSUME NEW p \in Phases, NEW r \in Results, Advance(t, p, r),
               p = "finishing" => Settled(t.cert)',
               r \in {"unpersisted", "unwanted"} => ~Wants(rec, t.cert)'
        PROVE IssuanceInv'
    <2>v. PICK v : v = [t EXCEPT !.phase = p, !.result = r]
      OBVIOUS
    <2>1. /\ tasks' = (tasks \ {t}) \union {v} /\ tasks' \subseteq Task /\ running' \in [Machine -> SUBSET Cert]
      BY <1>2, <1>p, <2>v, AdvanceType DEF Advance
    <2>2. TypeOK'
      BY <1>p, <2>1 DEF TypeOK, RowsOK, MachinesOK, rows
    <2>3. SlotInv'
      BY <1>2, <1>o, <2>2, AdvanceKeeps DEF IssuanceInv
    <2>4. v.cert = t.cert /\ v.machine = t.machine /\ v.phase = p /\ v.result = r
      BY <1>t, <2>v DEF Task
    <2>5. Leased'
      BY <1>o, <2>1, <2>4 DEF IssuanceInv, Leased
    <2>6. ToldBy(v)'
      BY <1>2, <2>4 DEF ToldBy
    <2>7. Told'
      BY <1>u, <2>1, <2>6 DEF Told
    <2> QED
      BY <1>r, <1>k, <1>n, <2>3, <2>5, <2>7 DEF IssuanceInv
  <1> QED
    BY <1>1, <1>2

\* A request saves the record and queues a job, while nobody attempts it.
LEMMA RequestTells ==
    ASSUME IssuanceInv, NEW c \in Cert, UNCHANGED <<mode, running, round, tasks>>, UNCHANGED deaf, faults' \in Nat,
           Change(c),
           \/ UNCHANGED rows /\ (rec' \in {rec, Removed(rec)} \/ c \notin used)
           \/ AddJob(c) /\ c \in used'
           \/ Requeue(c) /\ status[c] # "absent" /\ \A t \in tasks : t.cert # c
    PROVE  IssuanceInv'
  <1>r. RecordOK' /\ \A d \in Cert : d # c \/ rec' \in {rec, Removed(rec)} => Kept(d)
    BY RecordChanges DEF IssuanceInv
  <1>p. TypeOK /\ RowsOK
    BY DEF IssuanceInv, SlotInv, TypeOK
  <1>u. used \subseteq used'
    BY DEF Change
  <1>s. /\ \A d \in Cert \ {c} : status'[d] = status[d] /\ owner'[d] = owner[d] /\ lease'[d] = lease[d]
        /\ UNCHANGED rows \/ status'[c] = "pending"
        /\ LeasesOnlyEnd /\ RowsOK'
    <2>1. CASE UNCHANGED rows
      BY <1>p, <2>1 DEF rows, LeasesOnlyEnd, RowsOK
    <2>2. CASE AddJob(c)
      BY <1>p, <2>2 DEF AddJob, LeasesOnlyEnd, RowsOK
    <2>3. CASE Requeue(c)
      BY <1>p, <2>3, UnleaseType DEF Requeue, Unlease, LeasesOnlyEnd, RowsOK
    <2> QED
      BY <2>1, <2>2, <2>3
  <1>1. SlotInv'
    <2>1. TypeOK'
      BY <1>p, <1>s DEF TypeOK, MachinesOK
    <2> QED
      BY <2>1, <1>s, RowsKeep DEF IssuanceInv
  <1>2. Known'
    BY <1>s, <1>u DEF IssuanceInv, Known, rows
  <1>3. ASSUME NEW t \in tasks PROVE t.cert # c \/ (UNCHANGED rows /\ rec' \in {rec, Removed(rec)})
    <2>1. status[t.cert] = "pending" /\ t.cert \in used
      BY TaskFacts
    <2> QED
      BY <2>1 DEF AddJob
  <1>4. Leased'
    <2>1. SUFFICES ASSUME NEW t \in tasks
                   PROVE  owner'[t.cert] = t.machine /\ lease'[t.cert] = "live" /\ status'[t.cert] = "pending"
      BY DEF Leased
    <2>2. t.cert \in Cert /\ owner[t.cert] = t.machine /\ lease[t.cert] = "live" /\ status[t.cert] = "pending"
      BY TaskFacts
    <2> QED
      BY <1>3, <1>s, <2>2 DEF rows
  <1>5. Told'
    <2>1. SUFFICES ASSUME NEW t \in tasks PROVE ToldBy(t)'
      BY DEF Told
    <2>2. ToldBy(t) /\ t.cert \in Cert
      BY TaskFacts
    <2>3. Kept(t.cert)
      BY <1>3, <1>r, <2>2
    <2> QED
      BY <2>2, <2>3 DEF ToldBy, Kept
  <1>6. NeverStuck'
    <2>1. SUFFICES ASSUME NEW d \in Cert, status'[d] \in Ended PROVE Settled(d)'
      BY DEF NeverStuck, Settled
    <2>2. status[d] \in Ended
      BY <1>s, <2>1 DEF Ended, rows
    <2>3. Settled(d) /\ d \in used
      BY <2>2 DEF IssuanceInv, NeverStuck, Settled, Known, Ended
    <2>4. d # c \/ rec' \in {rec, Removed(rec)}
      BY <1>p, <1>s, <2>1, <2>3 DEF AddJob, Requeue, Ended, RowsOK
    <2> QED
      BY <1>r, <2>3, <2>4 DEF Kept
  <1> QED
    BY <1>r, <1>1, <1>2, <1>4, <1>5, <1>6 DEF IssuanceInv

\* The requests: bind, renew, remove, and what the reconcile does.
LEMMA RequestsKeep ==
    ASSUME Calm, IssuanceInv, NEW m \in Machine, NEW c \in Cert,
           \/ BindCertificate(m, c) \/ BindAgain(m, c) \/ StartRenewal(m, c)
           \/ Resume(m, c) \/ Reissue(m, c)
    PROVE  IssuanceInv'
  <1>v. View(m) = rec
    BY ViewIsRecord DEF IssuanceInv
  <1>f. faults \in Nat
    BY DEF IssuanceInv, SlotInv, TypeOK, MachinesOK
  <1>k. ASSUME Wants(rec, c) PROVE c \in used
    BY <1>k, NamesAssumption DEF IssuanceInv, RecordOK, Wants
  <1>1. CASE BindCertificate(m, c) \/ StartRenewal(m, c)
    <2>1. PICK r \in {rec, Bound(rec, c), BindFailed(rec, c), Renewing(rec, c)} :
            SaveThenQueue(m, c, r) \/ SaveUnqueued(m, c, r)
      BY <1>1, <1>v DEF BindCertificate, StartRenewal
    <2>2. c \notin used /\ rec' = r /\ used' = used \union {c} /\ UNCHANGED deaf
          /\ UNCHANGED <<mode, running, round, tasks>> /\ faults' \in Nat
          /\ (UNCHANGED rows \/ AddJob(c))
      BY <1>1, <1>f, <2>1 DEF BindCertificate, StartRenewal, Fresh, SaveThenQueue, SaveUnqueued, AddJob, Fault
    <2>3. Change(c)
      BY <2>1, <2>2 DEF Change
    <2> QED
      BY <2>2, <2>3, RequestTells
  <1>2. CASE BindAgain(m, c) \/ Resume(m, c)
    <2>1. AddJob(c) /\ UNCHANGED <<faults, rec, used, deaf>> /\ Wants(rec, c)
      BY <1>2, <1>v DEF BindAgain, Resume, Look, Wants
    <2> QED
      BY <1>f, <1>k, <2>1, RequestTells DEF Change, AddJob
  <1>3. CASE Reissue(m, c)
    <2>1. /\ RequeueFailed(c) \/ RequeueStuck(c)
          /\ UNCHANGED <<used, deaf>> /\ rec.cert = c /\ rec' \in {rec, ShowIssuing(rec)} /\ faults' \in Nat
      BY <1>3, <1>v, <1>f DEF Reissue, Look, Save, SaveConflict, SaveError, Fault
    <2>2. Requeue(c) /\ status[c] # "absent"
          /\ (status[c] = "failed" \/ lease[c] \in {"none", "expired"})
      BY <2>1 DEF RequeueFailed, RequeueStuck
    <2>3. \A t \in tasks : t.cert # c
      BY <2>2, TaskFacts
    <2>4. Change(c) /\ UNCHANGED <<mode, running, round, tasks>>
      BY <2>1, <2>2 DEF Change, Requeue
    <2> QED
      BY <2>1, <2>2, <2>3, <2>4, RequestTells
  <1> QED
    BY <1>1, <1>2, <1>3

\* A removal, or a look at the record.
LEMMA RemovalKeeps ==
    ASSUME IssuanceInv, NEW m \in Machine, RemoveTunnel(m) \/ Lookup(m)
    PROVE  IssuanceInv'
  <1>1. UNCHANGED vars /\ UNCHANGED <<used, deaf>> /\ rec' \in {rec, Removed(rec)}
    BY ViewIsRecord DEF RemoveTunnel, Lookup, Save, Look, IssuanceInv
  <1>2. /\ rec' \in TunnelRecords /\ rec'.cert = rec.cert /\ rec'.renewal = rec.renewal
        /\ rec' = rec \/ rec'.live = FALSE
    BY <1>1 DEF Removed, IssuanceInv, RecordOK, TunnelRecords
  <1>3. SlotInv'
    BY <1>1, NextSlots DEF IssuanceInv
  <1>4. RecordOK'
    BY <1>1, <1>2 DEF IssuanceInv, RecordOK
  <1>5. Known' /\ Leased'
    BY <1>1 DEF IssuanceInv, Known, Leased, vars, rows
  <1>6. Told'
    BY <1>1, <1>2 DEF IssuanceInv, Told, ToldBy, Settled, Wants, vars
  <1>7. NeverStuck'
    BY <1>1, <1>2 DEF IssuanceInv, NeverStuck, vars, rows
  <1> QED
    BY <1>3, <1>4, <1>5, <1>6, <1>7 DEF IssuanceInv

\* The outcome of an attempt settles what the tunnel waits for.
LEMMA OutcomeSettles ==
    ASSUME RecordOK, NEW c \in Cert, Wants(rec, c), NEW input \in {"ready", "failed"}, rec' = Updated(rec, c, input)
    PROVE  Settled(c)' /\ rec' # Removed(rec)
  <1>1. /\ rec \in TunnelRecords /\ rec.live /\ NoCert \notin Cert
        /\ (rec.cert = c \/ rec.renewal = c) /\ (rec.renewal \in Cert => rec.cert # rec.renewal)
    BY NamesAssumption DEF RecordOK, Wants
  <1>2. input \in Inputs /\ input # "challenge"
    BY DEF Inputs
  <1>3. /\ rec'.live = rec.live
        /\ \/ rec'.state = "ready" /\ rec'.renewal = NoCert
           \/ rec.renewal = c /\ rec'.cert = rec.cert /\ rec'.renewal = NoCert
           \/ rec.renewal # c /\ rec'.cert = rec.cert /\ rec'.state = input /\ rec'.renewal = rec.renewal
    <2>1. PICK r : r = Updated(rec, c, input)
      OBVIOUS
    <2>2. /\ r.live = rec.live
          /\ \/ r.state = "ready" /\ r.renewal = NoCert
             \/ rec.renewal = c /\ r.cert = rec.cert /\ r.renewal = NoCert
             \/ rec.renewal # c /\ r.cert = rec.cert /\ r.state = input /\ r.renewal = rec.renewal
      <3>1. rec \in TunnelRecords
        BY <1>1
      <3> QED
        BY <1>2, <2>1, <3>1, UpdateFields
    <2> QED
      BY <2>1, <2>2
  <1>4. Removed(rec).live = FALSE
    BY <1>1 DEF Removed, TunnelRecords
  <1> QED
    BY <1>1, <1>3, <1>4 DEF Settled

\* An attempt's steps on the record: what it reads, what it shows, what it records.
LEMMA RecordingKeeps ==
    ASSUME Calm, IssuanceInv, NEW t \in tasks,
           BeginAttempt(t) \/ ShowChallenge(t) \/ EndOrder(t) \/ JudgeFailure(t) \/ RecordOutcome(t)
    PROVE  IssuanceInv'
  <1>t. /\ t.cert \in Cert /\ t.machine \in Machine /\ t.result \in Results /\ ToldBy(t)
    BY TaskFacts
  <1>v. View(t.machine) = rec /\ RecordOK
    BY <1>t, ViewIsRecord DEF IssuanceInv
  <1>f. faults \in Nat
    BY DEF IssuanceInv, SlotInv, TypeOK, MachinesOK
  <1>p. /\ {"starting", "ordering", "answering", "checking", "judging", "recording",
            "finishing", "retrying"} \subseteq Phases
        /\ {"none", "refused", "unwanted", "gave_up", "issued", "unknown", "transient", "unpersisted"} \subseteq Results
        /\ OrderResults \subseteq Results
    BY DEF Phases, Results, OrderResults, Failures
  \* The record is left alone.
  <1>a. ASSUME UNCHANGED <<rows, mode, round>>, UNCHANGED <<rec, used, deaf>>, faults' \in Nat,
               NEW p \in Phases, NEW r \in Results, Advance(t, p, r),
               p = "finishing" => Settled(t.cert),
               r \in {"unpersisted", "unwanted"} => ~Wants(rec, t.cert)
        PROVE IssuanceInv'
    <2>1. Change(t.cert) /\ rec' = rec
      BY <1>a DEF Change
    <2>2. (p = "finishing" => Settled(t.cert)')
          /\ (r \in {"unpersisted", "unwanted"} => ~Wants(rec, t.cert)')
      BY <1>a DEF Settled, Wants
    <2> QED
      BY <1>a, <2>1, <2>2, TaskTells
  <1>w. ASSUME NEW wanted, Wanted(t.machine, t.cert, wanted)
        PROVE wanted = Wants(rec, t.cert) /\ UNCHANGED <<rec, used, deaf, faults>>
    BY <1>w, <1>v DEF Wanted, Look, Fault, Calm
  <1>n. ASSUME ~Wants(rec, t.cert) PROVE Settled(t.cert)
    BY <1>n DEF Wants, Settled
  <1>1. ASSUME BeginAttempt(t) PROVE IssuanceInv'
    <2>1. CASE Begin(t, "refuse") /\ UNCHANGED faults /\ UNCHANGED recordVars
      <3>1. Advance(t, "recording", "refused") /\ UNCHANGED <<rows, mode, round>> /\ UNCHANGED <<rec, used, deaf>>
        BY <2>1 DEF Begin, recordVars
      <3> QED
        BY <1>a, <1>f, <1>p, <2>1, <3>1
    <2>2. CASE Wanted(t.machine, t.cert, TRUE) /\ Begin(t, "order")
      <3>1. Advance(t, "ordering", "none") /\ UNCHANGED <<rows, mode, round>>
        BY <2>2 DEF Begin
      <3> QED
        BY <1>a, <1>f, <1>p, <1>w, <2>2, <3>1
    <2>3. CASE Wanted(t.machine, t.cert, FALSE) /\ Begin(t, "unwanted")
      <3>1. Advance(t, "finishing", "unwanted") /\ UNCHANGED <<rows, mode, round>>
        BY <2>3 DEF Begin
      <3>2. ~Wants(rec, t.cert) /\ UNCHANGED <<rec, used, deaf, faults>>
        BY <1>w, <2>3
      <3> QED
        BY <1>a, <1>f, <1>p, <1>n, <3>1, <3>2
    <2> QED
      BY <1>1, <2>1, <2>2, <2>3 DEF BeginAttempt
  <1>2. ASSUME ShowChallenge(t) PROVE IssuanceInv'
    <2>s. PICK shown : shown = Updated(rec, t.cert, "challenge")
      OBVIOUS
    <2>1. CASE Challenge(t) /\ UNCHANGED <<faults, recordVars>>
      <3>1. Advance(t, "answering", "none") /\ UNCHANGED <<rows, mode, round>> /\ UNCHANGED <<rec, used, deaf>>
        BY <2>1 DEF Challenge, recordVars
      <3> QED
        BY <1>a, <1>f, <1>p, <2>1, <3>1
    <2>2. CASE ~Wants(rec, t.cert) /\ Look(t.machine) /\ OrderEnds(t, "unpersisted") /\ UNCHANGED faults
      <3>1. Advance(t, "checking", "unpersisted") /\ UNCHANGED <<rows, mode, round>> /\ UNCHANGED <<rec, used, deaf>>
        BY <2>2 DEF OrderEnds, Look
      <3> QED
        BY <1>a, <1>f, <1>p, <2>2, <3>1
    <2>3. CASE /\ Wants(rec, t.cert) /\ rec' \in {rec, shown} /\ UNCHANGED <<used, deaf>> /\ faults' \in Nat
               /\ UNCHANGED <<rows, mode, round>>
               /\ \/ Advance(t, "answering", "none")
                  \/ Advance(t, "checking", "unknown") \/ Advance(t, "checking", "transient")
      <3>1. Change(t.cert)
        BY <2>3, <2>s DEF Change, Inputs
      <3>2. rec' # Removed(rec) \/ rec' = rec
        <4>1. rec \in TunnelRecords /\ rec.live
          BY <1>v, <2>3 DEF RecordOK, Wants
        <4>2. shown.live = rec.live
          BY <1>t, <2>s, <4>1, UpdateFields DEF Inputs
        <4>3. Removed(rec).live = FALSE
          BY <4>1 DEF Removed, TunnelRecords
        <4> QED
          BY <2>3, <4>1, <4>2, <4>3
      <3> QED
        BY <1>p, <2>3, <3>1, <3>2, TaskTells
    <2> QED
      BY <1>2, <1>v, <1>f, <2>s, <2>1, <2>2, <2>3
      DEF ShowChallenge, Save, SaveConflict, SaveError, Challenge, OrderEnds, Fault
  <1>3. ASSUME EndOrder(t) PROVE IssuanceInv'
    <2>1. PICK result \in OrderResults \ {"unpersisted"} : OrderEnds(t, result)
      BY <1>3 DEF EndOrder
    <2>2. Advance(t, "checking", result) /\ UNCHANGED <<rows, mode, round>> /\ UNCHANGED <<rec, used, deaf, faults>>
      BY <1>3, <2>1 DEF OrderEnds, EndOrder, recordVars
    <2>3. result \notin {"unpersisted", "unwanted"}
      BY <2>1 DEF OrderResults, Failures
    <2> QED
      BY <1>a, <1>f, <1>p, <2>1, <2>2, <2>3
  <1>4. ASSUME JudgeFailure(t) PROVE IssuanceInv'
    <2>1. PICK wanted \in BOOLEAN : Wanted(t.machine, t.cert, wanted) /\ Judge(t, wanted)
      BY <1>4 DEF JudgeFailure
    <2>2. wanted = Wants(rec, t.cert) /\ UNCHANGED <<rec, used, deaf, faults>> /\ UNCHANGED <<rows, mode, round>>
      BY <1>w, <2>1 DEF Judge
    <2>3. CASE (t.result = "unpersisted" \/ ~wanted) /\ Advance(t, "finishing", "unwanted")
      <3>1. ~Wants(rec, t.cert)
        BY <1>t, <2>2, <2>3 DEF ToldBy
      <3> QED
        BY <1>a, <1>f, <1>n, <1>p, <2>2, <2>3, <3>1
    <2>4. CASE /\ t.result # "unpersisted"
               /\ Advance(t, "retrying", t.result) \/ Advance(t, "recording", "gave_up")
      BY <1>a, <1>f, <1>p, <1>t, <2>2, <2>4 DEF ToldBy
    <2> QED
      BY <2>1, <2>3, <2>4 DEF Judge
  <1>5. ASSUME RecordOutcome(t) PROVE IssuanceInv'
    <2>i. PICK input \in {"ready", "failed"} : input = IF t.result = "issued" THEN "ready" ELSE "failed"
      OBVIOUS
    <2>s. PICK outcome : outcome = Updated(rec, t.cert, input)
      OBVIOUS
    <2>1. \/ Wants(rec, t.cert) /\ Save(t.machine, outcome) /\ Record(t) /\ UNCHANGED faults
          \/ ~Wants(rec, t.cert) /\ Look(t.machine) /\ Record(t) /\ UNCHANGED faults
          \/ Wants(rec, t.cert) /\ SaveError(t.machine, outcome) /\ RecordError(t)
      BY <1>5, <1>v, <2>i, <2>s, Zenon DEF RecordOutcome, SaveConflict
    <2>2. CASE ~Wants(rec, t.cert) /\ Look(t.machine) /\ Record(t) /\ UNCHANGED faults
      <3>1. Advance(t, "finishing", t.result) /\ UNCHANGED <<rows, mode, round>> /\ UNCHANGED <<rec, used, deaf>>
        BY <2>2 DEF Record, Look
      <3> QED
        BY <1>a, <1>f, <1>n, <1>p, <1>t, <2>2, <3>1
    <2>3. CASE Wants(rec, t.cert) /\ Save(t.machine, outcome) /\ Record(t) /\ UNCHANGED faults
      <3>1. /\ Advance(t, "finishing", t.result) /\ UNCHANGED <<rows, mode, round>>
            /\ UNCHANGED <<used, deaf>> /\ rec' = outcome
        BY <2>3 DEF Record, Save
      <3>2. Change(t.cert) /\ Settled(t.cert)' /\ rec' # Removed(rec)
        BY <1>t, <1>v, <2>3, <2>s, <3>1, OutcomeSettles DEF Change, Inputs
      <3>3. t.result # "unpersisted" /\ t.result # "unwanted"
        BY <1>t, <2>3 DEF ToldBy, Record
      <3> QED
        BY <1>f, <1>p, <1>t, <2>3, <3>1, <3>2, <3>3, TaskTells
    <2>4. CASE Wants(rec, t.cert) /\ SaveError(t.machine, outcome) /\ RecordError(t)
      <3>1. /\ Return(t) /\ UNCHANGED <<rows, mode, round>> /\ faults' \in Nat
            /\ UNCHANGED <<used, deaf>> /\ rec' \in {rec, outcome}
        BY <1>f, <2>4 DEF RecordError, SaveError, Fault
      <3>2. Change(t.cert) /\ (rec' # Removed(rec) \/ rec' = rec)
        BY <1>t, <1>v, <2>4, <2>s, <3>1, OutcomeSettles DEF Change, Inputs
      <3> QED
        BY <3>1, <3>2, TaskTells
    <2> QED
      BY <2>1, <2>2, <2>3, <2>4
  <1> QED
    BY <1>1, <1>2, <1>3, <1>4, <1>5

-----------------------------------------------------------------------------
(* Steps that leave the record alone. *)

\* What they have to keep.
LEMMA JobsTell ==
    ASSUME IssuanceInv, SlotInv', UNCHANGED <<rec, used>>, deaf' = deaf, Leased',
           \A t \in tasks' : ToldBy(t),
           \A c \in Cert : status'[c] \in {status[c]} \/ (status[c] # "absent" /\ Settled(c))
    PROVE  IssuanceInv'
  <1>1. RecordOK'
    BY DEF IssuanceInv, RecordOK
  <1>2. Known'
    BY DEF IssuanceInv, Known
  <1>3. Told'
    BY DEF Told, ToldBy, Settled, Wants
  <1>4. NeverStuck'
    <2>1. SUFFICES ASSUME NEW d \in Cert, status'[d] \in Ended PROVE Settled(d)
      BY DEF NeverStuck, Settled
    <2> QED
      BY <2>1 DEF IssuanceInv, NeverStuck, Settled
  <1> QED
    BY <1>1, <1>2, <1>3, <1>4 DEF IssuanceInv

\* A pass of start_due claims no job whose attempt runs: its lease is live, and a machine claims no job it runs.
LEMMA RunnerTells ==
    ASSUME IssuanceInv, NEW m \in Machine, Runner(m), UNCHANGED recordVars
    PROVE  IssuanceInv'
  <1>s. SlotInv'
    BY RunnerSlots DEF IssuanceInv
  <1>r. UNCHANGED <<rec, used, deaf>>
    BY DEF recordVars
  <1>p. TypeOK /\ RowsOK
    BY DEF IssuanceInv, SlotInv, TypeOK
  <1>1. CASE UNCHANGED <<rows, tasks>>
    <2>1. Leased'
      BY <1>1 DEF IssuanceInv, Leased, rows
    <2> QED
      BY <1>1, <1>s, <1>r, <2>1, JobsTell DEF IssuanceInv, Told, rows
  <1>2. ASSUME Claimable(m, round[m].claiming), Lease(m, round[m].claiming), round[m].claiming \in Cert
        PROVE \A t \in tasks : t.cert # round[m].claiming
    <2>1. SUFFICES ASSUME NEW t \in tasks, t.cert = round[m].claiming PROVE FALSE
      OBVIOUS
    <2>2. owner[t.cert] = t.machine /\ lease[t.cert] = "live"
      BY TaskFacts
    <2>3. t.machine = m
      BY <1>2, <2>1, <2>2 DEF Claimable
    <2> QED
      BY <2>1, <2>3 DEF IssuanceInv, SlotInv, OneTask
  <1>3. CASE Claim(m)
    <2>d. PICK d : d = round[m].claiming
      OBVIOUS
    <2>u. PICK u : u = [machine |-> m, cert |-> d, claim |-> claims[d] + 1, attempts |-> attempts[d],
                        phase |-> "starting", result |-> "none"]
      OBVIOUS
    <2>1. /\ d \in Cert /\ Claimable(m, d) /\ Lease(m, d) /\ tasks' = tasks \union {u} /\ UNCHANGED status
          /\ \A t \in tasks : t.cert # d
      BY <1>2, <1>3, <2>d, <2>u DEF Claim
    <2>2. u.machine = m /\ u.cert = d /\ u.phase = "starting" /\ u.result = "none"
      BY <2>u
    <2>3. Leased'
      <3>1. \A t \in tasks : t.cert \in Cert
        BY TaskFacts
      <3> QED
        BY <1>p, <2>1, <2>2, <3>1 DEF IssuanceInv, Leased, Lease, Claimable, RowsOK
    <2>4. \A t \in tasks' : ToldBy(t)
      BY <2>1, <2>2 DEF IssuanceInv, Told, ToldBy
    <2> QED
      BY <1>s, <1>r, <2>1, <2>3, <2>4, JobsTell
  <1>4. CASE ClaimError(m) /\ ~UNCHANGED rows
    <2>d. PICK d : d = round[m].claiming
      OBVIOUS
    <2>1. /\ d \in Cert /\ Lease(m, d) /\ UNCHANGED <<tasks, status>> /\ \A t \in tasks : t.cert # d
      BY <1>2, <1>4, <2>d DEF ClaimError, rows
    <2>2. Leased'
      <3>1. \A t \in tasks : t.cert \in Cert
        BY TaskFacts
      <3> QED
        BY <1>p, <2>1, <3>1 DEF IssuanceInv, Leased, Lease, RowsOK
    <2> QED
      BY <1>s, <1>r, <2>1, <2>2, JobsTell DEF IssuanceInv, Told
  <1> QED
    BY <1>1, <1>3, <1>4 DEF Runner, StartRound, Enlist, EndRound, ClaimNothing, ClaimError

\* A process that stops or dies takes its attempts with it, and gives its leases up only when it has none.
LEMMA ProcessTells ==
    ASSUME Calm, IssuanceInv, NEW m \in Machine, Process(m), UNCHANGED <<rec, used>>, deaf' = deaf
    PROVE  IssuanceInv'
  <1>s. SlotInv'
    BY ProcessSlots DEF IssuanceInv
  <1>1. UNCHANGED status /\ tasks' \subseteq tasks
    BY DEF Process, Stop, Release, ReleaseLeases, Exit, Crash, Restart, Die, rows
  <1>2. Leased'
    <2>1. CASE UNCHANGED rows
      BY <1>1, <2>1 DEF IssuanceInv, Leased, rows
    <2>2. CASE ~UNCHANGED rows
      <3>1. running[m] = {} /\ ReleaseLeases(m)
        BY <2>2 DEF Process, Stop, Release, Exit, Crash, Restart, Die, Fault, Calm
      <3>2. \A t \in tasks : t.machine # m
        <4>1. \A t \in tasks : t.cert \in Cert /\ t.machine \in Machine
          BY TaskFacts
        <4> QED
          BY <3>1, <4>1 DEF IssuanceInv, SlotInv, SlotsExact
      <3>3. \A t \in tasks : t.cert \in Cert /\ owner[t.cert] = t.machine
        BY TaskFacts
      <3> QED
        BY <1>1, <3>1, <3>2, <3>3 DEF IssuanceInv, Leased, ReleaseLeases
    <2> QED
      BY <2>1, <2>2
  <1> QED
    BY <1>s, <1>1, <1>2, JobsTell DEF IssuanceInv, Told

\* Time passes: no lease runs out under an attempt.
LEMMA TimeTells ==
    ASSUME Calm, IssuanceInv, NEW c \in Cert, BecomeDue(c) \/ LeaseRunsOut(c) \/ LeaseLost(c), UNCHANGED recordVars
    PROVE  IssuanceInv'
  <1>1. BecomeDue(c) \/ LeaseRunsOut(c)
    BY DEF LeaseLost, Fault, Calm
  <1>s. SlotInv'
    BY <1>1, RowSlots DEF IssuanceInv, Row
  <1>2. UNCHANGED <<status, owner, tasks>>
    BY <1>1 DEF BecomeDue, LeaseRunsOut, Expire
  <1>3. Leased'
    <2>1. \A t \in tasks : t.cert \in Cert /\ owner[t.cert] = t.machine
      BY TaskFacts
    <2>2. lease \in [Cert -> {"none", "live", "expired"}]
      BY DEF IssuanceInv, SlotInv, TypeOK, RowsOK
    <2> QED
      BY <1>1, <1>2, <2>1, <2>2 DEF IssuanceInv, Leased, BecomeDue, LeaseRunsOut, Expire
  <1> QED
    BY <1>s, <1>2, <1>3, JobsTell DEF IssuanceInv, Told, recordVars

\* An attempt's statements on its row: only an attempt that told the record ends it.
LEMMA StatementTells ==
    ASSUME IssuanceInv, NEW t \in tasks, UNCHANGED recordVars,
           KeepLease(t) \/ CheckLease(t) \/ CheckLeaseError(t) \/ Finish(t) \/ Retry(t) \/ EndError(t)
    PROVE  IssuanceInv'
  <1>t. /\ t \in Task /\ t.cert \in Cert /\ t.machine \in Machine /\ t.phase \in Phases /\ t.result \in Results
        /\ status[t.cert] = "pending" /\ lease[t.cert] = "live" /\ owner[t.cert] = t.machine /\ ToldBy(t)
        /\ \A u \in tasks : u.cert = t.cert => u = t
    BY TaskFacts
  <1>s. SlotInv'
    BY AttemptSlots DEF IssuanceInv, Attempt
  <1>r. UNCHANGED <<rec, used, deaf>>
    BY DEF recordVars
  <1>p. RowsOK
    BY DEF IssuanceInv, SlotInv, TypeOK
  <1>1. ASSUME KeepLease(t) PROVE FALSE
    BY <1>1, <1>t DEF KeepLease
  <1>2. CASE CheckLease(t) \/ CheckLeaseError(t)
    <2>1. t.phase = "checking" /\ UNCHANGED <<status, owner, lease>> /\ (Proceed(t) \/ Return(t))
      BY <1>2, <1>t, <1>p DEF CheckLease, CheckLeaseError, rows, RowsOK
    <2>2. CASE Return(t)
      <3>1. tasks' \subseteq tasks
        BY <2>2 DEF Return
      <3>2. Leased'
        BY <2>1, <3>1 DEF IssuanceInv, Leased
      <3> QED
        BY <1>s, <1>r, <2>1, <3>1, <3>2, JobsTell DEF IssuanceInv, Told
    <2>3. ASSUME NEW p \in {"recording", "judging"}, Advance(t, p, t.result) PROVE IssuanceInv'
      <3>v. PICK v : v = [t EXCEPT !.phase = p, !.result = t.result]
        OBVIOUS
      <3>1. tasks' = (tasks \ {t}) \union {v}
        BY <2>3, <3>v DEF Advance
      <3>2. v.cert = t.cert /\ v.machine = t.machine /\ v.phase = p /\ v.result = t.result
        BY <1>t, <3>v DEF Task
      <3>3. Leased'
        BY <2>1, <3>1, <3>2 DEF IssuanceInv, Leased
      <3>4. ToldBy(v)
        BY <1>t, <2>3, <3>2 DEF ToldBy
      <3>5. \A u \in tasks' : ToldBy(u)
        BY <3>1, <3>4 DEF IssuanceInv, Told
      <3> QED
        BY <1>s, <1>r, <2>1, <3>3, <3>5, JobsTell
    <2>4. Proceed(t) => Return(t) \/ Advance(t, "recording", t.result) \/ Advance(t, "judging", t.result)
      BY Zenon DEF Proceed
    <2> QED
      BY <2>1, <2>2, <2>3, <2>4
  <1>3. CASE Finish(t) \/ Retry(t) \/ EndError(t)
    <2>1. tasks' = tasks \ {t}
      BY <1>3 DEF Finish, Retry, EndError, Return
    <2>2. /\ \A c \in Cert \ {t.cert} : status'[c] = status[c] /\ owner'[c] = owner[c] /\ lease'[c] = lease[c]
          /\ status'[t.cert] = status[t.cert] \/ t.phase = "finishing"
      BY <1>3, <1>t, <1>p DEF Finish, Retry, EndError, EndRow, RescheduleRow, Unlease, rows, RowsOK
    <2>3. Leased'
      <3>1. \A u \in tasks' : u \in tasks /\ u.cert \in Cert \ {t.cert}
        BY <1>t, <2>1, TaskFacts
      <3> QED
        BY <2>2, <3>1 DEF IssuanceInv, Leased
    <2>4. \A c \in Cert : status'[c] \in {status[c]} \/ (status[c] # "absent" /\ Settled(c))
      BY <1>t, <2>2 DEF ToldBy
    <2> QED
      BY <1>s, <1>r, <2>1, <2>3, <2>4, JobsTell DEF IssuanceInv, Told
  <1> QED
    BY <1>1, <1>2, <1>3

-----------------------------------------------------------------------------
(* The theorems. *)

\* At the start there is a tunnel without a certificate, and no job.
LEMMA InitIssuance == IssuanceInit => IssuanceInv
  <1> SUFFICES ASSUME IssuanceInit PROVE IssuanceInv
    OBVIOUS
  <1>1. SlotInv
    BY InitSlots DEF IssuanceInit
  <1>2. RecordOK
    BY NamesAssumption DEF IssuanceInit, RecordOK, Created, Missing, TunnelRecords, CertStates
  <1>3. Known /\ Leased /\ Told /\ NeverStuck
    BY DEF IssuanceInit, Init, Known, Leased, Told, NeverStuck, Ended
  <1> QED
    BY <1>1, <1>2, <1>3 DEF IssuanceInv

\* Every step keeps the invariant.
LEMMA NextIssuance ==
    ASSUME Calm, IssuanceInv, [IssuanceNext]_allVars
    PROVE  IssuanceInv'
  <1>d. deaf = [m \in Machine |-> FALSE]
    BY DEF IssuanceInv, RecordOK
  <1>1. CASE UNCHANGED allVars
    <2>1. UNCHANGED <<vars, rec, used, deaf>>
      BY <1>1 DEF allVars, recordVars
    <2>2. SlotInv'
      BY <2>1, NextSlots DEF IssuanceInv
    <2>3. Leased'
      BY <2>1 DEF IssuanceInv, Leased, vars, rows
    <2> QED
      BY <2>1, <2>2, <2>3, JobsTell DEF IssuanceInv, Told, vars, rows
  <1>2. ASSUME NEW m \in Machine, (Stop(m) \/ Release(m) \/ Restart(m)) /\ UNCHANGED recordVars PROVE IssuanceInv'
    BY <1>2, ProcessTells DEF Process, recordVars
  <1>3. ASSUME NEW m \in Machine, Ends(m) PROVE IssuanceInv'
    <2>1. deaf' = deaf
      BY <1>3, <1>d DEF Ends
    <2> QED
      BY <1>3, <2>1, ProcessTells DEF Ends, Process
  <1>4. ASSUME NEW m \in Machine, ReadFails(m) \/ BackoffEnds(m) PROVE FALSE
    BY <1>4, <1>d DEF ReadFails, BackoffEnds, Fault, Calm
  <1>5. ASSUME NEW m \in Machine, RemoveTunnel(m) \/ Lookup(m) PROVE IssuanceInv'
    BY <1>5, RemovalKeeps
  <1>6. ASSUME NEW t \in tasks, IssuanceAttempt(t) PROVE IssuanceInv'
    BY <1>6, RecordingKeeps, StatementTells DEF IssuanceAttempt
  <1> QED
    BY <1>1, <1>2, <1>3, <1>4, <1>5, <1>6, RunnerTells, TimeTells, RequestsKeep DEF IssuanceNext

\* For any number of machines, certificates and slots, whatever processes die, statements fail and requests
\* are dropped (Calm says which disturbances are left out): a tunnel never waits for a job that is over,
\* though update_certificate and finish_job write two rows one after the other.
THEOREM NoTunnelIsStuck ==
    ASSUME Calm
    PROVE  IssuanceSpec => []NeverStuck
  <1>1. IssuanceInv /\ [IssuanceNext]_allVars => IssuanceInv'
    BY NextIssuance
  <1>2. IssuanceInv => NeverStuck
    BY DEF IssuanceInv
  <1> QED
    BY <1>1, <1>2, InitIssuance, PTL DEF IssuanceSpec

\* A row becomes abandoned only by an attempt that found its certificate unwanted.
LEMMA AbandonedByAttempt ==
    ASSUME Calm, IssuanceInv, [IssuanceNext]_allVars, NEW c \in Cert,
           status[c] # "abandoned", status'[c] = "abandoned"
    PROVE  ~Wants(rec, c)
  <1>p. RowsOK
    BY DEF IssuanceInv, SlotInv, TypeOK
  <1>b. ~(UNCHANGED status)
    OBVIOUS
  <1>0. ~(UNCHANGED allVars)
    BY <1>b DEF allVars, vars, rows
  <1>1. ASSUME NEW m \in Machine, Runner(m) PROVE FALSE
    BY <1>1, <1>b DEF Runner, StartRound, Enlist, EndRound, Claim, ClaimNothing, ClaimError, rows
  <1>2. ASSUME NEW m \in Machine, Stop(m) \/ Release(m) \/ Restart(m) \/ Ends(m) PROVE FALSE
    BY <1>2, <1>b DEF Stop, Release, ReleaseLeases, Ends, Exit, Crash, Die, Restart, rows
  <1>3. ASSUME NEW m \in Machine, RemoveTunnel(m) \/ Lookup(m) \/ ReadFails(m) \/ BackoffEnds(m) PROVE FALSE
    BY <1>3, <1>b DEF RemoveTunnel, Lookup, ReadFails, BackoffEnds, vars, rows
  <1>q. ASSUME NEW d \in Cert, AddJob(d) \/ Requeue(d) PROVE FALSE
    BY <1>q, <1>p DEF AddJob, Requeue, RowsOK
  <1>4. ASSUME NEW m \in Machine, NEW d \in Cert,
               \/ BindCertificate(m, d) \/ BindAgain(m, d) \/ StartRenewal(m, d)
               \/ Resume(m, d) \/ Reissue(m, d)
        PROVE FALSE
    <2>1. AddJob(d) \/ Requeue(d) \/ UNCHANGED status
      BY <1>4 DEF BindCertificate, BindAgain, StartRenewal, Resume, Reissue, SaveThenQueue, SaveUnqueued,
         RequeueFailed, RequeueStuck, rows
    <2> QED
      BY <1>b, <1>q, <2>1
  <1>5. ASSUME NEW d \in Cert, BecomeDue(d) \/ LeaseRunsOut(d) \/ LeaseLost(d) PROVE FALSE
    BY <1>5, <1>b DEF BecomeDue, LeaseRunsOut, LeaseLost, Expire
  <1>6. ASSUME NEW t \in tasks, IssuanceAttempt(t) PROVE ~Wants(rec, c)
    <2>1. Finish(t) \/ EndError(t)
      BY <1>6, <1>b, Zenon DEF IssuanceAttempt, BeginAttempt, Begin, ShowChallenge, Challenge, OrderEnds, EndOrder,
         JudgeFailure, Judge, RecordOutcome, Record, RecordError, KeepLease, CheckLease, CheckLeaseError,
         Retry, RescheduleRow, rows
    <2>2. EndRow(t)
      BY <1>b, <2>1 DEF Finish, EndError, RescheduleRow, rows
    <2>3. t.cert = c /\ FinalStatus(t.result) = "abandoned"
      BY <1>p, <2>2, TaskFacts DEF EndRow, RowsOK
    <2>4. t.result = "unwanted"
      BY <2>3 DEF FinalStatus
    <2> QED
      BY <2>3, <2>4, TaskFacts DEF ToldBy
  <1> QED
    BY <1>0, <1>1, <1>2, <1>3, <1>4, <1>5, <1>6 DEF IssuanceNext

\* Under the same disturbances: execute abandons a job only when the tunnel was deleted or bound another
\* certificate, and that is still so when finish_job says it.
THEOREM OnlyUnwantedIsAbandoned ==
    ASSUME Calm
    PROVE  IssuanceSpec => AbandonedOnlyUnwanted
  <1>1. IssuanceInv /\ [IssuanceNext]_allVars => IssuanceInv'
    BY NextIssuance
  <1>2. IssuanceInv /\ [IssuanceNext]_allVars =>
          [\A c \in Cert : status[c] # "abandoned" /\ status'[c] = "abandoned" => ~Wants(rec, c)]_allVars
    BY AbandonedByAttempt
  <1> QED
    BY <1>1, <1>2, InitIssuance, PTL DEF IssuanceSpec, AbandonedOnlyUnwanted
=============================================================================
