--------------------------- MODULE JobLeasesProofs ---------------------------
(***************************************************************************)
(* Proofs about JobLeases: type correctness, the accounting of slots, that *)
(* only the attempt of the latest claim decides a job, and that a job is   *)
(* claimed once per attempt while nothing goes wrong.                      *)
(***************************************************************************)
EXTENDS JobLeases, TLAPS, FiniteSetTheorems

-----------------------------------------------------------------------------
(* Type correctness. *)

\* Advance and Return keep the types of the tasks and the slots.
LEMMA AdvanceType ==
    ASSUME TypeOK, NEW t \in tasks, NEW p \in Phases, NEW r \in Results,
           Advance(t, p, r)
    PROVE  tasks' \subseteq Task /\ running' \in [Machine -> SUBSET Cert]
  <1>1. t \in Task
    BY DEF TypeOK, MachinesOK
  <1>2. [t EXCEPT !.phase = p, !.result = r] \in Task
    BY <1>1 DEF Task
  <1> QED
    BY <1>2 DEF TypeOK, MachinesOK, Advance

\* A task that returns leaves typed tasks and slots.
LEMMA ReturnType ==
    ASSUME TypeOK, NEW t \in tasks, Return(t)
    PROVE  tasks' \subseteq Task /\ running' \in [Machine -> SUBSET Cert]
  BY DEF TypeOK, MachinesOK, Return, Task

\* The statements on a row keep the types of the rows.
LEMMA UnleaseType ==
    ASSUME TypeOK, NEW c \in Cert, Unlease(c)
    PROVE  /\ owner' \in [Cert -> Machine \union {NoOne}]
           /\ lease' \in [Cert -> {"none", "live", "expired"}]
           /\ \A d \in Cert : owner'[d] = NoOne <=> lease'[d] = "none"
  BY DEF TypeOK, RowsOK, Unlease

\* claim_job's row.
LEMMA LeaseType ==
    ASSUME TypeOK, NEW m \in Machine, NEW c \in Cert, Lease(m, c)
    PROVE  /\ owner' \in [Cert -> Machine \union {NoOne}]
           /\ lease' \in [Cert -> {"none", "live", "expired"}]
           /\ \A d \in Cert : owner'[d] = NoOne <=> lease'[d] = "none"
           /\ claims' \in [Cert -> Nat]
  BY JobAssumption DEF TypeOK, RowsOK, Lease

\* finish_job's row.
LEMMA EndRowType ==
    ASSUME TypeOK, NEW t \in Task, EndRow(t)
    PROVE  RowsOK'
  <1>1. t.cert \in Cert
    BY DEF Task
  <1>2. FinalStatus(t.result) \in Ended
    BY DEF FinalStatus, Ended
  <1> QED
    BY <1>1, <1>2, UnleaseType DEF TypeOK, RowsOK, EndRow

\* retry_job's row.
LEMMA RescheduleRowType ==
    ASSUME TypeOK, NEW t \in Task, RescheduleRow(t)
    PROVE  RowsOK'
  <1>1. t.cert \in Cert /\ t.attempts \in Nat
    BY DEF Task
  <1> QED
    BY <1>1, UnleaseType DEF TypeOK, RowsOK, RescheduleRow

\* The initial state is typed.
LEMMA InitType == Init => TypeOK
  BY JobAssumption, NamesAssumption
  DEF Init, TypeOK, RowsOK, MachinesOK, Round, NoRound

\* The passes of start_due keep the types.
LEMMA RunnerType ==
    ASSUME TypeOK, NEW m \in Machine, Runner(m)
    PROVE  TypeOK'
  <1>1. ASSUME NEW cooling \in BOOLEAN, StartRound(m, cooling)
        PROVE TypeOK'
    BY <1>1 DEF StartRound, Schedules, TypeOK, RowsOK, MachinesOK, rows, Round
  <1>2. ASSUME NEW c \in Cert, Enlist(m, c)
        PROVE TypeOK'
    BY <1>2 DEF Enlist, TypeOK, RowsOK, MachinesOK, rows, Round
  <1>3. CASE EndRound(m)
    BY <1>3 DEF EndRound, TypeOK, RowsOK, MachinesOK, rows, Round, NoRound
  <1>4. CASE Claim(m)
    <2> DEFINE c == round[m].claiming
    <2>1. c \in Cert /\ Lease(m, c)
      BY <1>4 DEF Claim
    <2>2. RowsOK'
      BY <1>4, <2>1, LeaseType DEF Claim, TypeOK, RowsOK
    <2>3. [machine |-> m, cert |-> c, claim |-> claims[c] + 1,
           attempts |-> attempts[c], phase |-> "starting", result |-> "none"] \in Task
      BY <2>1 DEF TypeOK, RowsOK, Task, Phases, Results
    <2>4. MachinesOK'
      BY <1>4, <2>3 DEF Claim, TypeOK, MachinesOK, Round
    <2> QED
      BY <2>2, <2>4 DEF TypeOK
  <1>5. CASE ClaimNothing(m)
    BY <1>5 DEF ClaimNothing, TypeOK, RowsOK, MachinesOK, rows, Round
  <1>6. CASE ClaimError(m)
    <2> DEFINE c == round[m].claiming
    <2>1. c \in Cert
      BY <1>6 DEF ClaimError
    <2>2. CASE UNCHANGED <<owner, lease, claims>>
      BY <1>6, <2>1, <2>2 DEF ClaimError, TypeOK, RowsOK, MachinesOK, Round, NoRound, Fault
    <2>3. CASE Lease(m, c)
      <3>1. RowsOK'
        BY <1>6, <2>1, <2>3, LeaseType DEF ClaimError, TypeOK, RowsOK
      <3>2. MachinesOK'
        BY <1>6, <2>1 DEF ClaimError, TypeOK, MachinesOK, Round, NoRound, Fault
      <3> QED
        BY <3>1, <3>2 DEF TypeOK
    <2> QED
      BY <1>6, <2>2, <2>3 DEF ClaimError
  <1> QED
    BY <1>1, <1>2, <1>3, <1>4, <1>5, <1>6 DEF Runner

\* So does an attempt that goes on after its lease check.
LEMMA ProceedType ==
    ASSUME TypeOK, NEW t \in tasks, Proceed(t)
    PROVE  tasks' \subseteq Task /\ running' \in [Machine -> SUBSET Cert]
  <1>1. t.result \in Results /\ "recording" \in Phases /\ "judging" \in Phases
        /\ "issued" \in Results
    BY DEF TypeOK, MachinesOK, Task, Phases, Results
  <1>2. Return(t) \/ Advance(t, "recording", "issued") \/ Advance(t, "judging", t.result)
    BY Zenon DEF Proceed
  <1> QED
    BY <1>1, <1>2, AdvanceType, ReturnType

\* So does every step of an attempt.
LEMMA AttemptType ==
    ASSUME TypeOK, NEW t \in tasks, Attempt(t)
    PROVE  TypeOK'
  <1>t. t \in Task /\ t.cert \in Cert /\ t.machine \in Machine /\ t.result \in Results
    BY DEF TypeOK, MachinesOK, Task
  <1>p. /\ {"starting", "ordering", "answering", "checking", "judging", "recording",
            "finishing", "retrying"} \subseteq Phases
        /\ {"none", "refused", "unwanted", "gave_up", "issued"} \subseteq Results
        /\ OrderResults \subseteq Results
    BY DEF Phases, Results, OrderResults
  \* A step that changes tasks, slots and the count of faults only.
  <1>a. ASSUME tasks' \subseteq Task, running' \in [Machine -> SUBSET Cert],
               UNCHANGED <<rows, mode, round>>, faults' \in Nat
        PROVE TypeOK'
    BY <1>a DEF TypeOK, RowsOK, MachinesOK, rows
  <1>f. faults \in Nat
    BY DEF TypeOK, MachinesOK
  <1>1. ASSUME NEW verdict \in {"refuse", "unwanted", "order"}, Begin(t, verdict),
               UNCHANGED faults
        PROVE TypeOK'
    <2>1. \/ Advance(t, "recording", "refused")
          \/ Advance(t, "finishing", "unwanted")
          \/ Advance(t, "ordering", "none")
      BY <1>1, Zenon DEF Begin
    <2> QED
      BY <1>1, <2>1, <1>a, <1>p, <1>f, AdvanceType DEF Begin
  <1>2. ASSUME Challenge(t), UNCHANGED faults
        PROVE TypeOK'
    BY <1>2, <1>a, <1>p, <1>f, AdvanceType DEF Challenge
  <1>3. ASSUME NEW result \in OrderResults, OrderEnds(t, result), UNCHANGED faults
        PROVE TypeOK'
    BY <1>3, <1>a, <1>p, <1>f, AdvanceType DEF OrderEnds
  <1>4. ASSUME NEW wanted \in BOOLEAN, Judge(t, wanted), UNCHANGED faults
        PROVE TypeOK'
    BY <1>4, <1>a, <1>p, <1>f, <1>t, AdvanceType DEF Judge
  <1>5. ASSUME Record(t), UNCHANGED faults
        PROVE TypeOK'
    BY <1>5, <1>a, <1>p, <1>f, <1>t, AdvanceType DEF Record
  <1>6. CASE KeepLease(t)
    BY <1>6, <1>t, JobAssumption DEF KeepLease, Holds, TypeOK, RowsOK, MachinesOK
  <1>7. CASE CheckLease(t)
    <2>1. tasks' \subseteq Task /\ running' \in [Machine -> SUBSET Cert]
      BY <1>7, ProceedType, ReturnType DEF CheckLease
    <2> QED
      BY <1>7, <2>1, <1>t, JobAssumption DEF CheckLease, Holds, TypeOK, RowsOK, MachinesOK
  <1>8. CASE CheckLeaseError(t)
    BY <1>8, <1>a, <1>f, ProceedType DEF CheckLeaseError, Fault
  <1>9. CASE RecordError(t) /\ Fault("save")
    BY <1>9, <1>a, <1>f, ReturnType DEF RecordError, Fault
  <1>10. CASE Finish(t)
    BY <1>10, <1>t, EndRowType, ReturnType DEF Finish, TypeOK, RowsOK, MachinesOK, rows
  <1>11. CASE Retry(t)
    BY <1>11, <1>t, RescheduleRowType, ReturnType DEF Retry, TypeOK, RowsOK, MachinesOK, rows
  <1>12. CASE EndError(t)
    BY <1>12, <1>t, EndRowType, RescheduleRowType, ReturnType
    DEF EndError, TypeOK, RowsOK, MachinesOK, rows, Fault
  <1> QED
    BY <1>1, <1>2, <1>3, <1>4, <1>5, <1>6, <1>7, <1>8, <1>9, <1>10, <1>11, <1>12 DEF Attempt

\* So does the end of a process.
LEMMA DieType ==
    ASSUME TypeOK, NEW m \in Machine, Die(m), faults' \in Nat
    PROVE  TypeOK'
  BY DEF Die, TypeOK, RowsOK, MachinesOK, rows, Round, NoRound

\* So do stop, release, exit, crash and restart.
LEMMA ProcessType ==
    ASSUME TypeOK, NEW m \in Machine, Process(m)
    PROVE  TypeOK'
  <1>1. CASE Stop(m)
    BY <1>1 DEF Stop, Fault, TypeOK, RowsOK, MachinesOK, rows
  <1>2. CASE Release(m)
    <2>1. ASSUME ReleaseLeases(m) PROVE RowsOK'
      BY <2>1 DEF ReleaseLeases, TypeOK, RowsOK
    <2>2. RowsOK'
      BY <1>2, <2>1 DEF Release, TypeOK, RowsOK, rows
    <2>3. MachinesOK'
      BY <1>2 DEF Release, Fault, TypeOK, MachinesOK
    <2> QED
      BY <2>2, <2>3 DEF TypeOK
  <1>3. CASE Exit(m)
    BY <1>3, DieType DEF Exit, TypeOK, MachinesOK
  <1>4. CASE Crash(m)
    BY <1>4, DieType DEF Crash, Fault, TypeOK, MachinesOK
  <1>5. CASE Restart(m)
    BY <1>5 DEF Restart, TypeOK, RowsOK, MachinesOK, rows
  <1> QED
    BY <1>1, <1>2, <1>3, <1>4, <1>5 DEF Process

\* So do the statements and the passing of time on a row.
LEMMA RowType ==
    ASSUME TypeOK, NEW c \in Cert, Row(c)
    PROVE  TypeOK'
  <1>1. CASE AddJob(c) /\ UNCHANGED faults
    BY <1>1 DEF AddJob, TypeOK, RowsOK, MachinesOK
  <1>2. ASSUME Requeue(c), UNCHANGED faults PROVE TypeOK'
    BY <1>2, UnleaseType DEF Requeue, TypeOK, RowsOK, MachinesOK
  <1>3. CASE BecomeDue(c)
    BY <1>3 DEF BecomeDue, TypeOK, RowsOK, MachinesOK
  <1>4. ASSUME Expire(c), faults' \in Nat PROVE TypeOK'
    BY <1>4 DEF Expire, TypeOK, RowsOK, MachinesOK
  <1> QED
    BY <1>1, <1>2, <1>3, <1>4
    DEF Row, RequeueFailed, RequeueStuck, LeaseRunsOut, LeaseLost, Fault, TypeOK, MachinesOK

\* So does every step.
LEMMA NextType == TypeOK /\ [Next]_vars => TypeOK'
  <1> SUFFICES ASSUME TypeOK, [Next]_vars PROVE TypeOK'
    OBVIOUS
  <1>1. CASE UNCHANGED vars
    BY <1>1 DEF vars, rows, TypeOK, RowsOK, MachinesOK
  <1>2. CASE Next
    BY <1>2, RunnerType, ProcessType, AttemptType, RowType DEF Next
  <1> QED
    BY <1>1, <1>2

\* Every reachable state of rows, machines and attempts is well typed, and no row
\* has a lease without an owner or an owner without a lease.
THEOREM TypeCorrect == Spec => []TypeOK
  BY InitType, NextType, PTL DEF Spec

-----------------------------------------------------------------------------
(* Slots and claims.  NoSlotLeak is not inductive by itself: a task that      *)
(* returns takes its job out of `running`, which is right only if no other    *)
(* task of that machine runs the job and the machine is not claiming it.      *)

\* NoSlotLeak, element by element.
SlotsExact ==
    \A m \in Machine, c \in Cert :
        c \in running[m] <=> \/ \E t \in tasks : t.machine = m /\ t.cert = c
                             \/ round[m].claiming = c

\* A machine runs a job in at most one task, never while it claims it, and it
\* claims nothing between two passes.
OneTask ==
    /\ \A t, u \in tasks : t.machine = u.machine /\ t.cert = u.cert => t = u
    /\ \A t \in tasks : round[t.machine].claiming # t.cert
    /\ \A m \in Machine : ~round[m].open => round[m].claiming = NoCert

\* The task of the lease owner is the one of the latest claim.
OwnerIsLatest ==
    \A t \in tasks : owner[t.cert] = t.machine => t.claim = claims[t.cert]

SlotInv == TypeOK /\ SlotsExact /\ OneTask /\ OwnerIsLatest

\* Rows may change in any way that gives no machine a lease or a claim.
LeasesOnlyEnd ==
    /\ \A c \in Cert : owner'[c] \in {owner[c], NoOne}
    /\ UNCHANGED claims

\* A task that goes on keeps the invariant.
LEMMA AdvanceKeeps ==
    ASSUME SlotInv, TypeOK', NEW t \in tasks, NEW p, NEW r, Advance(t, p, r),
           UNCHANGED round, LeasesOnlyEnd
    PROVE  SlotInv'
  <1> DEFINE u == [t EXCEPT !.phase = p, !.result = r]
  <1>1. /\ u.machine = t.machine /\ u.cert = t.cert /\ u.claim = t.claim
        /\ t.cert \in Cert /\ t.machine \in Machine
    BY DEF SlotInv, TypeOK, MachinesOK, Task
  <1>2. tasks' = (tasks \ {t}) \union {u} /\ UNCHANGED running
    BY DEF Advance
  <1> HIDE DEF u
  <1>3. SlotsExact'
    BY <1>1, <1>2 DEF SlotInv, SlotsExact
  <1>4. OneTask'
    BY <1>1, <1>2 DEF SlotInv, OneTask
  <1>5. OwnerIsLatest'
    BY <1>1, <1>2, JobAssumption DEF SlotInv, OwnerIsLatest, LeasesOnlyEnd, TypeOK, MachinesOK, Task
  <1> QED
    BY <1>3, <1>4, <1>5 DEF SlotInv

\* So does a task that returns.
LEMMA ReturnKeeps ==
    ASSUME SlotInv, TypeOK', NEW t \in tasks, Return(t), UNCHANGED round, LeasesOnlyEnd
    PROVE  SlotInv'
  <1>1. t.cert \in Cert /\ t.machine \in Machine
    BY DEF SlotInv, TypeOK, MachinesOK, Task
  <1>2. /\ tasks' = tasks \ {t}
        /\ running' = [running EXCEPT ![t.machine] = @ \ {t.cert}]
        /\ running \in [Machine -> SUBSET Cert]
    BY DEF Return, SlotInv, TypeOK, MachinesOK
  <1>3. SlotsExact'
    BY <1>1, <1>2 DEF SlotInv, SlotsExact, OneTask
  <1>4. OneTask'
    BY <1>2 DEF SlotInv, OneTask
  <1>5. OwnerIsLatest'
    BY <1>2, JobAssumption DEF SlotInv, OwnerIsLatest, LeasesOnlyEnd, TypeOK, MachinesOK, Task
  <1> QED
    BY <1>3, <1>4, <1>5 DEF SlotInv

\* So do rows that change while nothing else does.
LEMMA RowsKeep ==
    ASSUME SlotInv, TypeOK', UNCHANGED <<tasks, running, round>>, LeasesOnlyEnd
    PROVE  SlotInv'
  <1>1. SlotsExact' /\ OneTask'
    BY DEF SlotInv, SlotsExact, OneTask
  <1>2. OwnerIsLatest'
    BY JobAssumption DEF SlotInv, OwnerIsLatest, LeasesOnlyEnd, TypeOK, MachinesOK, Task
  <1> QED
    BY <1>1, <1>2 DEF SlotInv

\* The slot invariant holds at the start.
LEMMA InitSlots == Init => SlotInv
  BY InitType, NamesAssumption
  DEF Init, NoRound, SlotInv, SlotsExact, OneTask, OwnerIsLatest

\* A pass takes a slot before it claims and gives it back when it claimed nothing.
LEMMA RunnerSlots ==
    ASSUME SlotInv, NEW m \in Machine, Runner(m)
    PROVE  SlotInv'
  <1>t. TypeOK /\ TypeOK'
    BY RunnerType DEF SlotInv
  <1>r. /\ round \in [Machine -> Round] /\ running \in [Machine -> SUBSET Cert]
        /\ owner \in [Cert -> Machine \union {NoOne}] /\ claims \in [Cert -> Nat]
        /\ \A t \in tasks : t.machine \in Machine /\ t.cert \in Cert
    BY <1>t DEF TypeOK, RowsOK, MachinesOK, Task
  <1>1. ASSUME NEW cooling \in BOOLEAN, StartRound(m, cooling)
        PROVE SlotInv'
    BY <1>1, <1>t, <1>r
    DEF StartRound, SlotInv, SlotsExact, OneTask, OwnerIsLatest, rows
  <1>2. ASSUME NEW c \in Cert, Enlist(m, c)
        PROVE SlotInv'
    <2>1. c \notin running[m] /\ round[m].claiming = NoCert /\ round[m].open
      BY <1>2 DEF Enlist, MayStart
    <2>2. /\ running' = [running EXCEPT ![m] = @ \union {c}]
          /\ round' = [round EXCEPT ![m].claiming = c, ![m].listed = @ \ {c}]
          /\ UNCHANGED <<rows, tasks>>
      BY <1>2 DEF Enlist
    <2>3. /\ \A n \in Machine : round'[n].claiming = IF n = m THEN c ELSE round[n].claiming
          /\ \A n \in Machine : round'[n].open = round[n].open
      BY <2>2, <1>r DEF Round
    <2>4. SlotsExact'
      BY <2>1, <2>2, <2>3, <1>r, NamesAssumption DEF SlotInv, SlotsExact
    <2>5. OneTask'
      BY <2>1, <2>2, <2>3, <1>r DEF SlotInv, SlotsExact, OneTask
    <2>6. OwnerIsLatest'
      BY <2>2 DEF SlotInv, OwnerIsLatest, rows
    <2> QED
      BY <2>4, <2>5, <2>6, <1>t DEF SlotInv
  <1>3. CASE EndRound(m)
    BY <1>3, <1>t, <1>r
    DEF EndRound, NoRound, SlotInv, SlotsExact, OneTask, OwnerIsLatest, rows
  <1>4. CASE Claim(m)
    <2> DEFINE c == round[m].claiming
               u == [machine |-> m, cert |-> c, claim |-> claims[c] + 1,
                     attempts |-> attempts[c], phase |-> "starting", result |-> "none"]
    <2>1. /\ c \in Cert /\ Lease(m, c) /\ UNCHANGED running
          /\ tasks' = tasks \union {u}
          /\ round' = [round EXCEPT ![m].claiming = NoCert]
      BY <1>4 DEF Claim
    <2>2. /\ \A n \in Machine : round'[n].claiming = IF n = m THEN NoCert ELSE round[n].claiming
          /\ \A n \in Machine : round'[n].open = round[n].open
      BY <2>1, <1>r DEF Round
    <2>3. u.machine = m /\ u.cert = c /\ u.claim = claims[c] + 1
      OBVIOUS
    <2> HIDE DEF u
    <2>4. SlotsExact'
      BY <2>1, <2>2, <2>3, <1>r, NamesAssumption DEF SlotInv, SlotsExact
    <2>5. OneTask'
      BY <2>1, <2>2, <2>3, <1>r, NamesAssumption DEF SlotInv, OneTask
    <2>6. OwnerIsLatest'
      BY <2>1, <2>3, <1>r DEF SlotInv, OwnerIsLatest, OneTask, Lease
    <2> QED
      BY <2>4, <2>5, <2>6, <1>t DEF SlotInv
  <1>5. ASSUME round[m].claiming \in Cert,
               running' = [running EXCEPT ![m] = @ \ {round[m].claiming}],
               UNCHANGED tasks,
               \A n \in Machine \ {m} : round'[n] = round[n],
               round'[m].claiming = NoCert,
               UNCHANGED <<owner, claims>> \/ Lease(m, round[m].claiming)
        PROVE SlotInv'
    <2>1. SlotsExact'
      BY <1>5, <1>r, NamesAssumption DEF SlotInv, SlotsExact, OneTask
    <2>2. OneTask'
      BY <1>5, <1>r, NamesAssumption DEF SlotInv, OneTask
    <2>3. OwnerIsLatest'
      BY <1>5, <1>r DEF SlotInv, OwnerIsLatest, OneTask, Lease
    <2> QED
      BY <2>1, <2>2, <2>3, <1>t DEF SlotInv
  <1>6. CASE ClaimNothing(m)
    <2>1. round'[m].claiming = NoCert /\ \A n \in Machine \ {m} : round'[n] = round[n]
      BY <1>6, <1>r DEF ClaimNothing, Round
    <2> QED
      BY <1>5, <1>6, <2>1 DEF ClaimNothing, rows
  <1>7. CASE ClaimError(m)
    <2>1. round'[m].claiming = NoCert /\ \A n \in Machine \ {m} : round'[n] = round[n]
      BY <1>7, <1>r DEF ClaimError, NoRound
    <2> QED
      BY <1>5, <1>7, <2>1 DEF ClaimError
  <1> QED
    BY <1>1, <1>2, <1>3, <1>4, <1>6, <1>7 DEF Runner

\* What an attempt does to its task: it goes on or returns.
TaskStep(t) == Return(t) \/ \E p, r : Advance(t, p, r)

\* What a step of an attempt does to tasks and slots: its own task goes on or returns,
\* or both are left alone.
LEMMA AttemptShape ==
    ASSUME SlotInv, NEW t \in tasks, Attempt(t)
    PROVE  /\ TaskStep(t) \/ UNCHANGED <<tasks, running>>
           /\ UNCHANGED round
           /\ LeasesOnlyEnd
  <1>t. t.cert \in Cert /\ owner \in [Cert -> Machine \union {NoOne}]
    BY DEF SlotInv, TypeOK, RowsOK, MachinesOK, Task
  <1>a. ASSUME NEW p, NEW r, Advance(t, p, r) PROVE TaskStep(t)
    BY <1>a DEF TaskStep
  <1>b. ASSUME Return(t) PROVE TaskStep(t)
    BY <1>b DEF TaskStep
  <1>p. ASSUME Proceed(t) PROVE TaskStep(t)
    BY <1>p, <1>a, <1>b, Zenon DEF Proceed
  <1>u. ASSUME UNCHANGED rows PROVE LeasesOnlyEnd
    BY <1>u DEF rows, LeasesOnlyEnd
  <1>e. ASSUME Unlease(t.cert), UNCHANGED claims PROVE LeasesOnlyEnd
    BY <1>e, <1>t DEF Unlease, LeasesOnlyEnd
  <1>1. ASSUME NEW verdict, Begin(t, verdict), verdict \in {"refuse", "unwanted", "order"}
        PROVE TaskStep(t) /\ UNCHANGED round /\ LeasesOnlyEnd
    <2>1. \/ Advance(t, "recording", "refused")
          \/ Advance(t, "finishing", "unwanted")
          \/ Advance(t, "ordering", "none")
      BY <1>1, Zenon DEF Begin
    <2> QED
      BY <2>1, <1>1, <1>a, <1>u DEF Begin
  <1>2. CASE Challenge(t)
    BY <1>2, <1>a, <1>u DEF Challenge
  <1>3. ASSUME NEW result, OrderEnds(t, result)
        PROVE TaskStep(t) /\ UNCHANGED round /\ LeasesOnlyEnd
    BY <1>3, <1>a, <1>u DEF OrderEnds
  <1>4. ASSUME NEW wanted, Judge(t, wanted)
        PROVE TaskStep(t) /\ UNCHANGED round /\ LeasesOnlyEnd
    BY <1>4, <1>a, <1>u DEF Judge
  <1>5. CASE Record(t)
    BY <1>5, <1>a, <1>u DEF Record
  <1>6. CASE KeepLease(t)
    BY <1>6 DEF KeepLease, LeasesOnlyEnd
  <1>7. CASE CheckLease(t)
    BY <1>7, <1>p, <1>b DEF CheckLease, LeasesOnlyEnd
  <1>8. CASE CheckLeaseError(t)
    BY <1>8, <1>p, <1>u DEF CheckLeaseError
  <1>9. CASE RecordError(t)
    BY <1>9, <1>b, <1>u DEF RecordError
  <1>10. CASE Finish(t)
    BY <1>10, <1>b, <1>u, <1>e DEF Finish, EndRow
  <1>11. CASE Retry(t)
    BY <1>11, <1>b, <1>u, <1>e DEF Retry, RescheduleRow
  <1>12. CASE EndError(t)
    BY <1>12, <1>b, <1>u, <1>e DEF EndError, EndRow, RescheduleRow
  <1> QED
    BY <1>1, <1>2, <1>3, <1>4, <1>5, <1>6, <1>7, <1>8, <1>9, <1>10, <1>11, <1>12 DEF Attempt

\* So every step of an attempt keeps the slot invariant.
LEMMA AttemptSlots ==
    ASSUME SlotInv, NEW t \in tasks, Attempt(t)
    PROVE  SlotInv'
  <1>1. TypeOK'
    BY AttemptType DEF SlotInv
  <1> QED
    BY <1>1, AttemptShape, AdvanceKeeps, ReturnKeeps, RowsKeep DEF TaskStep

\* A process that ends takes its tasks, its pass and its slots with it.
LEMMA ProcessSlots ==
    ASSUME SlotInv, NEW m \in Machine, Process(m)
    PROVE  SlotInv'
  <1>t. TypeOK /\ TypeOK'
    BY ProcessType DEF SlotInv
  <1>1. CASE Stop(m) \/ Restart(m)
    BY <1>1, <1>t, RowsKeep DEF Stop, Restart, rows, LeasesOnlyEnd
  <1>2. CASE Release(m)
    BY <1>2, <1>t, RowsKeep DEF Release, ReleaseLeases, rows, LeasesOnlyEnd
  <1>3. CASE Exit(m) \/ Crash(m)
    <2>1. /\ running' = [running EXCEPT ![m] = {}]
          /\ round' = [round EXCEPT ![m] = NoRound]
          /\ tasks' = {t \in tasks : t.machine # m}
          /\ UNCHANGED rows
      BY <1>3 DEF Exit, Crash, Die
    <2>2. /\ round \in [Machine -> Round] /\ running \in [Machine -> SUBSET Cert]
          /\ \A t \in tasks : t.machine \in Machine /\ t.cert \in Cert
      BY <1>t DEF TypeOK, MachinesOK, Task
    <2>3. SlotsExact'
      BY <2>1, <2>2, NamesAssumption DEF SlotInv, SlotsExact, NoRound
    <2>4. OneTask' /\ OwnerIsLatest'
      BY <2>1, <2>2, NamesAssumption DEF SlotInv, OneTask, OwnerIsLatest, NoRound, rows
    <2> QED
      BY <1>t, <2>3, <2>4 DEF SlotInv
  <1> QED
    BY <1>1, <1>2, <1>3 DEF Process

\* Rows queued, due or expired touch no slot and no owner's claim.
LEMMA RowSlots ==
    ASSUME SlotInv, NEW c \in Cert, Row(c)
    PROVE  SlotInv'
  <1>t. TypeOK /\ TypeOK'
    BY RowType DEF SlotInv
  <1>o. owner \in [Cert -> Machine \union {NoOne}]
    BY <1>t DEF TypeOK, RowsOK
  <1>1. UNCHANGED <<tasks, running, round>>
    BY DEF Row, AddJob, RequeueFailed, RequeueStuck, Requeue, BecomeDue, LeaseRunsOut,
           LeaseLost, Expire
  <1>2. LeasesOnlyEnd
    BY <1>o DEF LeasesOnlyEnd, Row, AddJob, RequeueFailed, RequeueStuck, Requeue, Unlease,
           BecomeDue, LeaseRunsOut, LeaseLost, Expire
  <1> QED
    BY <1>t, <1>1, <1>2, RowsKeep

\* Every step keeps the slot invariant.
LEMMA NextSlots == SlotInv /\ [Next]_vars => SlotInv'
  <1> SUFFICES ASSUME SlotInv, [Next]_vars PROVE SlotInv'
    OBVIOUS
  <1>1. CASE UNCHANGED vars
    <2>1. TypeOK'
      BY <1>1, NextType DEF SlotInv
    <2> QED
      BY <1>1, <2>1, RowsKeep DEF vars, rows, LeasesOnlyEnd
  <1>2. CASE Next
    BY <1>2, RunnerSlots, ProcessSlots, AttemptSlots, RowSlots DEF Next
  <1> QED
    BY <1>1, <1>2

\* Slots are exact, a machine has one task per job, and a row's owner is its latest
\* claimer: the inductive invariant of start_due and execute.
THEOREM SlotInvariant == Spec => []SlotInv
  BY InitSlots, NextSlots, PTL DEF Spec

\* The invariant counts slots exactly.
LEMMA SlotsImplied == SlotInv => NoSlotLeak
  <1> SUFFICES ASSUME SlotInv, NEW m \in Machine
               PROVE  running[m] = {t.cert : t \in {u \in tasks : u.machine = m}}
                                     \union ({round[m].claiming} \ {NoCert})
    BY DEF NoSlotLeak
  <1> DEFINE held == {t.cert : t \in {u \in tasks : u.machine = m}}
  <1>1. /\ \A t \in tasks : t.cert \in Cert
        /\ running[m] \subseteq Cert
        /\ round[m].claiming \in Cert \union {NoCert}
    BY DEF SlotInv, TypeOK, MachinesOK, Task, Round
  <1>2. \A c : c \in held <=> \E t \in tasks : t.machine = m /\ t.cert = c
    OBVIOUS
  <1> HIDE DEF held
  <1>3. \A c : c \in running[m] <=> c \in held \union ({round[m].claiming} \ {NoCert})
    BY <1>1, <1>2, NamesAssumption DEF SlotInv, SlotsExact
  <1>4. running[m] = held \union ({round[m].claiming} \ {NoCert})
    BY <1>3
  <1> QED
    BY <1>4 DEF held

\* For any number of machines and jobs and any faults: `running` is exactly what
\* a machine runs or claims, so no error path of start_due or execute leaks a slot.
THEOREM SlotsNeverLeak == Spec => []NoSlotLeak
  BY SlotInvariant, SlotsImplied, PTL

-----------------------------------------------------------------------------
(* Fencing. *)

\* Only Finish, Retry and EndError decide a pending row, each by a task that
\* returns and whose machine is the lease owner.
LEMMA DecidedByOwner ==
    ASSUME SlotInv, Next, NEW c \in Cert, status[c] = "pending",
           status'[c] \in Ended \/ attempts'[c] > attempts[c]
    PROVE  \E t \in tasks : t.cert = c /\ owner[c] = t.machine /\ tasks' = tasks \ {t}
  <1>a. attempts \in [Cert -> Nat] /\ status \in [Cert -> Ended \union {"absent", "pending"}]
    BY DEF SlotInv, TypeOK, RowsOK
  <1>b. ~(UNCHANGED <<status, attempts>>)
    BY <1>a DEF Ended
  <1>1. ASSUME NEW m \in Machine, Runner(m) PROVE FALSE
    BY <1>1, <1>b DEF Runner, StartRound, Enlist, EndRound, Claim, ClaimNothing, ClaimError, rows
  <1>2. ASSUME NEW m \in Machine, Process(m) PROVE FALSE
    BY <1>2, <1>b DEF Process, Stop, Release, ReleaseLeases, Exit, Crash, Die, Restart, rows
  <1>3. ASSUME NEW d \in Cert, Row(d) PROVE FALSE
    BY <1>3, <1>a DEF Row, AddJob, RequeueFailed, RequeueStuck, Requeue, BecomeDue,
          LeaseRunsOut, LeaseLost, Expire, Ended
  <1>4. ASSUME NEW t \in tasks, Attempt(t)
        PROVE  t.cert = c /\ owner[c] = t.machine /\ tasks' = tasks \ {t}
    <2>1. Finish(t) \/ Retry(t) \/ EndError(t)
      BY <1>4, <1>b, Zenon DEF Attempt, Begin, Challenge, OrderEnds, Judge, Record, KeepLease, CheckLease,
            CheckLeaseError, RecordError, rows
    <2>2. EndRow(t) \/ RescheduleRow(t)
      BY <2>1, <1>b DEF Finish, Retry, EndError, rows
    <2>3. tasks' = tasks \ {t}
      BY <2>1 DEF Finish, Retry, EndError, Return
    <2> QED
      BY <2>2, <2>3, <1>a DEF EndRow, RescheduleRow, Ended
  <1> QED
    BY <1>1, <1>2, <1>3, <1>4 DEF Next

\* For any number of machines and jobs and any faults: an attempt that outlived
\* its lease never ends or reschedules the job, although finish_job and retry_job
\* compare only the machine's name.
THEOREM ResultsAreFenced == Spec => FencedResults
  <1>1. SlotInv /\ [Next]_vars =>
          [\A c \in Cert :
             status[c] = "pending" /\ (status'[c] \in Ended \/ attempts'[c] > attempts[c])
               => \E t \in tasks \ tasks' : t.cert = c /\ t.claim = claims[c]]_vars
    BY DecidedByOwner DEF SlotInv, OwnerIsLatest
  <1> QED
    BY <1>1, SlotInvariant, PTL DEF Spec, FencedResults

-----------------------------------------------------------------------------
(* The slot kept for renewals. *)

IssueBound == \A m \in Machine : Cardinality(Issuing(m)) <= IssueSlots

\* Only Enlist adds to `running`.
LEMMA OnlyEnlistAdds ==
    ASSUME SlotInv, [Next]_vars
    PROVE  \/ \E m \in Machine, c \in Cert : Enlist(m, c)
           \/ \A n \in Machine : running'[n] \subseteq running[n]
  <1>r. running \in [Machine -> SUBSET Cert]
    BY DEF SlotInv, TypeOK, MachinesOK
  <1>1. ASSUME NEW m \in Machine, Runner(m), \A c \in Cert : ~Enlist(m, c)
        PROVE  \A n \in Machine : running'[n] \subseteq running[n]
    BY <1>1, <1>r DEF Runner, StartRound, EndRound, Claim, ClaimNothing, ClaimError
  <1>2. ASSUME NEW m \in Machine, Process(m)
        PROVE  \A n \in Machine : running'[n] \subseteq running[n]
    BY <1>2, <1>r DEF Process, Stop, Release, Exit, Crash, Die, Restart
  <1>3. ASSUME NEW t \in tasks, Attempt(t)
        PROVE  \A n \in Machine : running'[n] \subseteq running[n]
    <2>1. TaskStep(t) \/ UNCHANGED running
      BY <1>3, AttemptShape
    <2>2. CASE Return(t)
      BY <2>2, <1>r DEF Return
    <2>3. CASE UNCHANGED running
      BY <2>3
    <2> QED
      BY <2>1, <2>2, <2>3 DEF TaskStep, Advance
  <1>4. ASSUME NEW c \in Cert, Row(c)
        PROVE  \A n \in Machine : running'[n] \subseteq running[n]
    BY <1>4 DEF Row, AddJob, RequeueFailed, RequeueStuck, Requeue, BecomeDue, LeaseRunsOut,
          LeaseLost, Expire
  <1>5. CASE UNCHANGED vars
    BY <1>5 DEF vars
  <1> QED
    BY <1>1, <1>2, <1>3, <1>4, <1>5 DEF Next

\* A machine runs finitely many first issuances.
LEMMA IssuingFinite ==
    ASSUME SlotInv, NEW m \in Machine
    PROVE  IsFiniteSet(Issuing(m)) /\ Cardinality(Issuing(m)) \in Nat
  <1>1. Issuing(m) \subseteq Cert
    BY DEF SlotInv, TypeOK, MachinesOK, Issuing
  <1> QED
    BY <1>1, FS_Subset, FS_CardinalityType, JobAssumption

\* Every step keeps first issuance within issue_slots.
LEMMA NextIssueBound == SlotInv /\ IssueBound /\ [Next]_vars => IssueBound'
  <1> SUFFICES ASSUME SlotInv, IssueBound, [Next]_vars, NEW n \in Machine
               PROVE  Cardinality(Issuing(n)') <= IssueSlots
    BY DEF IssueBound
  <1>s. IssueSlots \in Nat
    BY JobAssumption DEF IssueSlots
  <1>f. /\ IsFiniteSet(Issuing(n)) /\ Cardinality(Issuing(n)) \in Nat
        /\ Cardinality(Issuing(n)) <= IssueSlots
    BY IssuingFinite DEF IssueBound
  <1>1. CASE \A k \in Machine : running'[k] \subseteq running[k]
    <2>1. Issuing(n)' \subseteq Issuing(n)
      BY <1>1 DEF Issuing
    <2>2. IsFiniteSet(Issuing(n)') /\ Cardinality(Issuing(n)') <= Cardinality(Issuing(n))
      BY <2>1, <1>f, FS_Subset
    <2>3. Cardinality(Issuing(n)') \in Nat
      BY <2>2, FS_CardinalityType
    <2> QED
      BY <2>2, <2>3, <1>f, <1>s
  <1>2. ASSUME NEW m \in Machine, NEW c \in Cert, Enlist(m, c)
        PROVE  Cardinality(Issuing(n)') <= IssueSlots
    <2>1. running' = [running EXCEPT ![m] = @ \union {c}] /\ running \in [Machine -> SUBSET Cert]
      BY <1>2 DEF Enlist, SlotInv, TypeOK, MachinesOK
    <2>2. CASE n # m \/ Kind[c] # "issue"
      <3>1. Issuing(n)' = Issuing(n)
        BY <2>1, <2>2 DEF Issuing
      <3> QED
        BY <3>1, <1>f
    <2>3. CASE n = m /\ Kind[c] = "issue"
      <3>1. Issuing(n)' = Issuing(n) \union {c}
        BY <2>1, <2>3 DEF Issuing
      <3>2. Cardinality(Issuing(n)) < IssueSlots
        BY <1>2, <2>3 DEF Enlist, MayStart
      <3>3. \/ Cardinality(Issuing(n)') = Cardinality(Issuing(n))
            \/ Cardinality(Issuing(n)') = Cardinality(Issuing(n)) + 1
        BY <3>1, <1>f, FS_AddElement
      <3> QED
        BY <3>2, <3>3, <1>f, <1>s
    <2> QED
      BY <2>2, <2>3
  <1> QED
    BY <1>1, <1>2, OnlyEnlistAdds

\* For any number of machines, jobs and slots: first issuance leaves a slot free
\* for renewals on every machine that has more than one.
THEOREM RenewalsKeepASlot == Spec => []SlotForRenewals
  <1>1. Init => IssueBound
    <2> SUFFICES ASSUME Init, NEW m \in Machine PROVE Cardinality(Issuing(m)) <= IssueSlots
      BY DEF IssueBound
    <2>1. Issuing(m) = {}
      BY DEF Init, Issuing
    <2> QED
      BY <2>1, FS_EmptySet, JobAssumption DEF IssueSlots
  <1>2. SlotInv /\ IssueBound => SlotForRenewals
    <2> SUFFICES ASSUME SlotInv, IssueBound, Concurrency > 1, NEW m \in Machine
                 PROVE  Cardinality(Issuing(m)) < Concurrency
      BY DEF SlotForRenewals
    <2> QED
      BY IssuingFinite, JobAssumption DEF IssueBound, IssueSlots
  <1> QED
    BY <1>1, <1>2, NextIssueBound, SlotInvariant, PTL DEF Spec

-----------------------------------------------------------------------------
(* A job runs once per attempt while nothing goes wrong: what is leased is being attempted. *)

\* A row that is free was claimed once per failed attempt; one that is leased once more, by the task that
\* attempts it now and whose lease it therefore keeps.
Once(c) ==
    /\ lease[c] = "none" =>
         /\ claims[c] <= attempts[c] + 1
         /\ status[c] \in {"absent", "pending"} => claims[c] = attempts[c]
    /\ lease[c] # "none" =>
         /\ lease[c] = "live" /\ status[c] = "pending" /\ claims[c] = attempts[c] + 1
         /\ \E t \in tasks : t.machine = owner[c] /\ t.cert = c /\ t.attempts = attempts[c]

\* Without a fault no process stops, and no order with it.
Undisturbed == (\A m \in Machine : mode[m] = "up") /\ (\A t \in tasks : t.result # "stopped")

OnceInv == faults = 0 => Undisturbed /\ \A c \in Cert \ requeued : Once(c)

\* A fault is counted.
LEMMA FaultCounts ==
    ASSUME TypeOK, NEW kind, Fault(kind)
    PROVE  faults' # 0
  BY DEF TypeOK, MachinesOK, Fault

\* A row nobody touches, whose task goes on.
LEMMA OnceKept ==
    ASSUME NEW c \in Cert, Once(c), lease'[c] = lease[c], owner'[c] = owner[c], status'[c] = status[c],
           claims'[c] = claims[c], attempts'[c] = attempts[c],
           \A t \in tasks : t.cert = c /\ t.machine = owner[c] =>
             \E u \in tasks' : u.machine = t.machine /\ u.cert = t.cert /\ u.attempts = t.attempts
    PROVE  Once(c)'
  <1>1. lease[c] # "none" => \E t \in tasks' : t.machine = owner'[c] /\ t.cert = c /\ t.attempts = attempts'[c]
    BY DEF Once
  <1> QED
    BY <1>1 DEF Once

\* A pass of start_due claims only a row that is free: it does not claim what the machine runs.
LEMMA RunnerOnce ==
    ASSUME SlotInv, faults = 0, faults' = 0, Undisturbed, \A c \in Cert \ requeued : Once(c),
           NEW m \in Machine, Runner(m)
    PROVE  Undisturbed' /\ \A c \in Cert \ requeued' : Once(c)'
  <1> USE DEF SlotInv
  <1>1. CASE UNCHANGED <<rows, mode, tasks>>
    BY <1>1 DEF Undisturbed, Once, rows
  <1>2. CASE Claim(m)
    <2>d. PICK d : d = round[m].claiming
      OBVIOUS
    <2>u. PICK u : u = [machine |-> m, cert |-> d, claim |-> claims[d] + 1, attempts |-> attempts[d],
                        phase |-> "starting", result |-> "none"]
      OBVIOUS
    <2>1. /\ d \in Cert /\ Claimable(m, d) /\ Lease(m, d) /\ tasks' = tasks \union {u}
          /\ UNCHANGED <<status, attempts, requeued, mode>>
      BY <1>2, <2>d, <2>u DEF Claim
    <2>2. u.machine = m /\ u.cert = d /\ u.attempts = attempts[d] /\ u.result # "stopped"
      BY <2>u
    <2>3. Undisturbed'
      BY <2>1, <2>2 DEF Undisturbed
    <2>4. ASSUME NEW c \in Cert \ requeued, c # d PROVE Once(c)'
      <3>1. /\ lease'[c] = lease[c] /\ owner'[c] = owner[c] /\ status'[c] = status[c]
            /\ claims'[c] = claims[c] /\ attempts'[c] = attempts[c] /\ tasks \subseteq tasks'
        BY <2>1, <2>4 DEF Lease, TypeOK, RowsOK
      <3> QED
        BY <2>4, <3>1, OnceKept
    <2>5. ASSUME d \notin requeued PROVE Once(d)'
      <3>1. Once(d)
        BY <2>1, <2>5
      <3>2. lease[d] = "none"
        <4>1. SUFFICES ASSUME lease[d] # "none" PROVE FALSE
          OBVIOUS
        <4>2. lease[d] = "live" /\ \E t \in tasks : t.machine = owner[d] /\ t.cert = d
          BY <3>1, <4>1 DEF Once
        <4>3. owner[d] = m
          BY <2>1, <4>2 DEF Claimable
        <4> QED
          BY <2>d, <4>2, <4>3 DEF OneTask
      <3>3. claims[d] = attempts[d]
        BY <2>1, <3>1, <3>2 DEF Once, Claimable
      <3>4. /\ lease'[d] = "live" /\ owner'[d] = m /\ claims'[d] = attempts'[d] + 1
            /\ status'[d] = "pending" /\ u \in tasks' /\ u.attempts = attempts'[d]
        BY <2>1, <2>2, <3>3 DEF Lease, Claimable, TypeOK, RowsOK
      <3> QED
        BY <2>2, <3>4 DEF Once
    <2> QED
      BY <2>1, <2>3, <2>4, <2>5
  <1>3. CASE ClaimError(m)
    BY <1>3, FaultCounts DEF ClaimError
  <1> QED
    BY <1>1, <1>2, <1>3 DEF Runner, StartRound, Enlist, EndRound, ClaimNothing

\* An attempt that goes on.
LEMMA AdvanceOnce ==
    ASSUME SlotInv, Undisturbed, \A c \in Cert \ requeued : Once(c), NEW t \in tasks, NEW p, NEW r, Advance(t, p, r),
           r # "stopped", UNCHANGED <<status, owner, attempts, requeued, claims, mode>>,
           lease' = lease \/ (Holds(t.machine, t.cert) /\ lease' = [lease EXCEPT ![t.cert] = "live"])
    PROVE  Undisturbed' /\ \A c \in Cert \ requeued' : Once(c)'
  <1> DEFINE u == [t EXCEPT !.phase = p, !.result = r]
  <1>1. t \in Task /\ t.cert \in Cert /\ lease \in [Cert -> {"none", "live", "expired"}]
        /\ \A c \in Cert : owner[c] = NoOne <=> lease[c] = "none"
    BY DEF SlotInv, TypeOK, RowsOK, MachinesOK, Task
  <1>2. u.machine = t.machine /\ u.cert = t.cert /\ u.attempts = t.attempts /\ u.result # "stopped"
    BY <1>1 DEF Task
  <1>3. tasks' = (tasks \ {t}) \union {u}
    BY DEF Advance
  <1> HIDE DEF u
  <1>4. Undisturbed'
    BY <1>2, <1>3 DEF Undisturbed
  <1>5. ASSUME NEW c \in Cert \ requeued PROVE Once(c)'
    <2>1. lease'[c] = lease[c]
      <3>1. CASE lease' = [lease EXCEPT ![t.cert] = "live"] /\ Holds(t.machine, t.cert) /\ t.cert = c
        <4>1. t.machine \in Machine /\ owner[c] # NoOne
          BY <1>1, <3>1, JobAssumption DEF Holds, Task
        <4> QED
          BY <1>1, <1>5, <3>1, <4>1 DEF Once
      <3> QED
        BY <1>1, <3>1
    <2>2. \A x \in tasks : \E y \in tasks' : y.machine = x.machine /\ y.cert = x.cert /\ y.attempts = x.attempts
      BY <1>2, <1>3
    <2> QED
      BY <1>5, <2>1, <2>2, OnceKept
  <1> QED
    BY <1>4, <1>5

\* The last statement of an attempt: it holds the lease, or does not touch the row.
LEMMA ReturnOnce ==
    ASSUME SlotInv, Undisturbed, \A c \in Cert \ requeued : Once(c), NEW t \in tasks, Return(t),
           UNCHANGED <<requeued, claims, mode>>,
           \/ EndRow(t) \/ RescheduleRow(t)
           \/ ~Holds(t.machine, t.cert) /\ UNCHANGED <<status, owner, lease, attempts>>
    PROVE  Undisturbed' /\ \A c \in Cert \ requeued' : Once(c)'
  <1>1. t \in Task /\ t.cert \in Cert /\ tasks' = tasks \ {t} /\ t.machine \in Machine /\ t.attempts \in Nat
    BY DEF SlotInv, TypeOK, RowsOK, MachinesOK, Task, Return
  <1>2. Undisturbed'
    BY <1>1 DEF Undisturbed
  <1>3. ASSUME NEW c \in Cert \ requeued PROVE Once(c)'
    <2>1. CASE \/ c # t.cert
               \/ ~Holds(t.machine, t.cert) /\ UNCHANGED <<status, owner, lease, attempts>>
      <3>1. /\ lease'[c] = lease[c] /\ owner'[c] = owner[c] /\ status'[c] = status[c]
            /\ attempts'[c] = attempts[c] /\ claims'[c] = claims[c]
        BY <1>1, <2>1 DEF EndRow, RescheduleRow, Unlease, SlotInv, TypeOK, RowsOK
      <3>2. CASE lease[c] = "none"
        BY <1>3, <3>1, <3>2 DEF Once
      <3>3. CASE lease[c] # "none"
        <4>1. status[c] = "pending"
          BY <1>3, <3>3 DEF Once
        <4>2. \A x \in tasks : x.cert = c /\ x.machine = owner[c] => x \in tasks'
          BY <1>1, <2>1, <4>1 DEF Holds
        <4> QED
          BY <1>3, <3>1, <4>2, OnceKept
      <3> QED
        BY <3>2, <3>3
    <2>2. CASE c = t.cert /\ (EndRow(t) \/ RescheduleRow(t))
      <3>1. owner[c] = t.machine /\ owner[c] # NoOne /\ lease[c] # "none" /\ lease'[c] = "none"
        BY <1>1, <2>2, JobAssumption DEF EndRow, RescheduleRow, Unlease, SlotInv, TypeOK, RowsOK
      <3>2. claims[c] = attempts[c] + 1 /\ attempts[c] \in Nat /\ t.attempts = attempts[c]
        <4>1. PICK x \in tasks : x.machine = owner[c] /\ x.cert = c /\ x.attempts = attempts[c]
          BY <1>3, <3>1 DEF Once
        <4>2. x = t
          BY <2>2, <3>1, <4>1 DEF SlotInv, OneTask
        <4> QED
          BY <1>3, <3>1, <4>1, <4>2 DEF Once, SlotInv, TypeOK, RowsOK
      <3>3. CASE EndRow(t)
        <4>1. status'[c] \in Ended /\ attempts'[c] = attempts[c] /\ claims'[c] = claims[c]
          BY <1>1, <2>2, <3>3 DEF EndRow, FinalStatus, Ended, SlotInv, TypeOK, RowsOK
        <4> QED
          BY <3>1, <3>2, <4>1 DEF Once, Ended
      <3>4. CASE RescheduleRow(t)
        <4>1. attempts'[c] = attempts[c] + 1 /\ claims'[c] = claims[c]
          BY <1>1, <2>2, <3>2, <3>4 DEF RescheduleRow, SlotInv, TypeOK, RowsOK
        <4> QED
          BY <3>1, <3>2, <4>1 DEF Once
      <3> QED
        BY <2>2, <3>3, <3>4
    <2> QED
      BY <2>1, <2>2
  <1> QED
    BY <1>2, <1>3

\* An attempt, undisturbed, gives the lease up only with the row's end or its next date.
LEMMA AttemptOnce ==
    ASSUME SlotInv, faults = 0, faults' = 0, Undisturbed, \A c \in Cert \ requeued : Once(c),
           NEW t \in tasks, Attempt(t)
    PROVE  Undisturbed' /\ \A c \in Cert \ requeued' : Once(c)'
  <1> DEFINE Good == Undisturbed' /\ \A c \in Cert \ requeued' : Once(c)'
  <1>t. TypeOK /\ t \in Task /\ t.cert \in Cert /\ t.machine \in Machine /\ t.result # "stopped"
    BY DEF SlotInv, TypeOK, MachinesOK, Task, Undisturbed
  <1>a. ASSUME NEW p, NEW r, Advance(t, p, r), r # "stopped", UNCHANGED <<rows, mode>> PROVE Good
    BY <1>a, AdvanceOnce DEF rows
  <1> HIDE DEF Good
  <1>1. ASSUME NEW verdict \in {"refuse", "unwanted", "order"}, Begin(t, verdict) PROVE Good
    <2>1. \/ Advance(t, "recording", "refused")
          \/ Advance(t, "finishing", "unwanted")
          \/ Advance(t, "ordering", "none")
      BY <1>1, Zenon DEF Begin
    <2>2. UNCHANGED <<rows, mode>>
      BY <1>1 DEF Begin
    <2> QED
      BY <1>a, <2>1, <2>2
  <1>2. ASSUME Challenge(t) PROVE Good
    BY <1>2, <1>a DEF Challenge
  <1>3. ASSUME NEW result \in OrderResults, OrderEnds(t, result) PROVE Good
    <2>1. result # "stopped"
      BY <1>t, <1>3 DEF OrderEnds, Undisturbed
    <2> QED
      BY <1>3, <1>a, <2>1 DEF OrderEnds
  <1>4. ASSUME NEW wanted \in BOOLEAN, Judge(t, wanted) PROVE Good
    BY <1>4, <1>t, <1>a DEF Judge
  <1>5. ASSUME Record(t) PROVE Good
    BY <1>5, <1>t, <1>a DEF Record
  <1>6. ASSUME KeepLease(t) PROVE Good
    <2>1. /\ Holds(t.machine, t.cert) /\ lease' = [lease EXCEPT ![t.cert] = "live"] /\ lease[t.cert] # "live"
          /\ UNCHANGED <<status, owner, attempts, requeued, claims, mode, tasks>>
      BY <1>6 DEF KeepLease
    <2>2. owner[t.cert] # NoOne /\ lease[t.cert] # "none"
      BY <1>t, <2>1, JobAssumption DEF Holds, TypeOK, RowsOK
    <2>3. t.cert \in requeued
      BY <1>t, <2>1, <2>2 DEF Once
    <2>4. Undisturbed' /\ \A c \in Cert \ requeued' : Once(c)'
      BY <1>t, <2>1, <2>3 DEF Undisturbed, Once, TypeOK, RowsOK
    <2> QED
      BY <2>4 DEF Good
  <1>7. ASSUME CheckLease(t) PROVE Good
    <2>1. UNCHANGED <<status, owner, attempts, requeued, claims, mode>>
      BY <1>7 DEF CheckLease
    <2>2. CASE ~Holds(t.machine, t.cert) /\ UNCHANGED lease /\ Return(t)
      <3>1. Undisturbed' /\ \A c \in Cert \ requeued' : Once(c)'
        BY <2>1, <2>2, ReturnOnce
      <3> QED
        BY <3>1 DEF Good
    <2>3. CASE Holds(t.machine, t.cert) /\ lease' = [lease EXCEPT ![t.cert] = "live"] /\ Proceed(t)
      <3>1. Advance(t, "recording", "issued") \/ Advance(t, "judging", t.result)
        BY <1>t, <2>3, Zenon DEF Proceed
      <3>2. Undisturbed' /\ \A c \in Cert \ requeued' : Once(c)'
        BY <1>t, <2>1, <2>3, <3>1, AdvanceOnce
      <3> QED
        BY <3>2 DEF Good
    <2> QED
      BY <1>7, <2>2, <2>3 DEF CheckLease
  <1>8. ASSUME CheckLeaseError(t) \/ (RecordError(t) /\ Fault("save")) \/ EndError(t) PROVE Good
    BY <1>8, <1>t, FaultCounts DEF CheckLeaseError, EndError
  <1>9. ASSUME Finish(t) \/ Retry(t) PROVE Good
    <2>1. /\ Return(t) /\ UNCHANGED <<requeued, claims, mode>>
          /\ \/ EndRow(t) \/ RescheduleRow(t)
             \/ ~Holds(t.machine, t.cert) /\ UNCHANGED <<status, owner, lease, attempts>>
      BY <1>9 DEF Finish, Retry, EndRow, RescheduleRow, Holds, rows
    <2>2. Undisturbed' /\ \A c \in Cert \ requeued' : Once(c)'
      BY <2>1, ReturnOnce
    <2> QED
      BY <2>2 DEF Good
  <1>10. Good
    BY <1>1, <1>2, <1>3, <1>4, <1>5, <1>6, <1>7, <1>8, <1>9 DEF Attempt
  <1> QED
    BY <1>10 DEF Good

\* Rows are queued, become due or expire; a row whose attempt runs does not expire by itself.
LEMMA RowOnce ==
    ASSUME SlotInv, faults = 0, faults' = 0, Undisturbed, \A c \in Cert \ requeued : Once(c),
           NEW d \in Cert, Row(d)
    PROVE  Undisturbed' /\ \A c \in Cert \ requeued' : Once(c)'
  <1>1. TypeOK /\ RowsOK
    BY DEF SlotInv, TypeOK
  <1>2. UNCHANGED <<mode, tasks>>
    BY DEF Row, AddJob, RequeueFailed, RequeueStuck, Requeue, BecomeDue, LeaseRunsOut, LeaseLost, Expire
  <1>3. Undisturbed'
    BY <1>2 DEF Undisturbed
  <1>4. CASE AddJob(d)
    <2>1. UNCHANGED <<owner, lease, attempts, requeued, claims>> /\ status[d] = "absent"
          /\ status' = [status EXCEPT ![d] = "pending"]
      BY <1>4 DEF AddJob
    <2> QED
      BY <1>1, <1>2, <1>3, <2>1 DEF Once, RowsOK
  <1>5. CASE RequeueFailed(d) \/ RequeueStuck(d)
    <2>1. requeued' = requeued \union {d} /\ UNCHANGED claims
          /\ \A c \in Cert \ {d} : /\ lease'[c] = lease[c] /\ owner'[c] = owner[c] /\ status'[c] = status[c]
                                   /\ attempts'[c] = attempts[c]
      BY <1>1, <1>5 DEF RequeueFailed, RequeueStuck, Requeue, Unlease, RowsOK
    <2> QED
      BY <1>2, <1>3, <2>1, OnceKept
  <1>6. CASE BecomeDue(d)
    BY <1>2, <1>3, <1>6 DEF BecomeDue, Once
  <1>7. CASE LeaseRunsOut(d)
    <2>1. /\ \A t \in tasks : ~(t.machine = owner[d] /\ t.cert = d)
          /\ lease[d] = "live" /\ lease' = [lease EXCEPT ![d] = "expired"]
          /\ UNCHANGED <<status, owner, attempts, requeued, claims>>
      BY <1>7 DEF LeaseRunsOut, Expire
    <2>2. d \in requeued
      BY <2>1 DEF Once
    <2> QED
      BY <1>1, <1>2, <1>3, <2>1, <2>2, OnceKept DEF RowsOK
  <1>8. CASE LeaseLost(d)
    BY <1>1, <1>8, FaultCounts DEF LeaseLost
  <1> QED
    BY <1>4, <1>5, <1>6, <1>7, <1>8 DEF Row

\* For any number of machines that race for any number of jobs: while nothing goes wrong, a job is claimed once
\* per attempt (claim_job of store.rs and the lease extended by execute of jobs.rs).
THEOREM JobsRunOnce == Spec => []RunsOnce
  <1>1. Init => OnceInv
    <2>1. ASSUME Init PROVE OnceInv
      BY <2>1 DEF Init, OnceInv, Undisturbed, Once
    <2> QED
      BY <2>1
  <1>2. SlotInv /\ OnceInv /\ [Next]_vars => OnceInv'
    <2> SUFFICES ASSUME SlotInv, OnceInv, [Next]_vars, faults' = 0
                 PROVE  Undisturbed' /\ \A c \in Cert \ requeued' : Once(c)'
      BY DEF OnceInv
    <2>1. TypeOK /\ faults \in Nat
      BY DEF SlotInv, TypeOK, MachinesOK
    <2>2. CASE UNCHANGED vars
      BY <2>2 DEF OnceInv, vars, rows, Undisturbed, Once
    <2>3. CASE faults' = faults
      <3>1. faults = 0 /\ Undisturbed /\ \A c \in Cert \ requeued : Once(c)
        BY <2>3 DEF OnceInv
      <3>2. ASSUME NEW m \in Machine, Process(m) PROVE FALSE
        <4>1. mode[m] = "up"
          BY <3>1 DEF Undisturbed
        <4> QED
          BY <2>1, <3>2, <4>1, FaultCounts DEF Process, Stop, Release, Exit, Crash, Restart
      <3> QED
        BY <2>2, <3>1, <3>2, RunnerOnce, AttemptOnce, RowOnce DEF Next
    <2>4. CASE faults' # faults
      <3>1. ~UNCHANGED vars /\ ~UNCHANGED faults
        BY <2>4 DEF vars
      <3>2. \E kind : Fault(kind)
        BY <3>1, Zenon DEF Next, Runner, StartRound, Enlist, EndRound, Claim, ClaimNothing, ClaimError,
           Process, Stop, Release, Exit, Crash, Restart, Attempt, KeepLease, CheckLease, CheckLeaseError,
           Finish, Retry, EndError, Row, BecomeDue, LeaseRunsOut, LeaseLost
      <3> QED
        BY <2>1, <3>2, FaultCounts
    <2> QED
      BY <2>3, <2>4
  <1>3. SlotInv /\ OnceInv => RunsOnce
    <2> SUFFICES ASSUME SlotInv, OnceInv, faults = 0, NEW c \in Cert \ requeued PROVE claims[c] <= attempts[c] + 1
      BY DEF RunsOnce
    <2>1. Once(c) /\ attempts[c] \in Nat /\ claims[c] \in Nat
      BY DEF OnceInv, SlotInv, TypeOK, RowsOK
    <2> QED
      BY <2>1 DEF Once
  <1> QED
    BY <1>1, <1>2, <1>3, SlotInvariant, PTL DEF Spec
=============================================================================
