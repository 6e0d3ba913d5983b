---------------------------- MODULE RecordsProofs ----------------------------
(***************************************************************************)
(* Optimistic writes over per-machine caches implement one atomic record,  *)
(* for any number of machines and certificates, any imports and any        *)
(* number of writes without an answer.                                      *)
(*                                                                         *)
(* A write is sound when what it was computed from is what it replaces.    *)
(* The invariant says so of every write that can still happen: the save an *)
(* operation is at, the one it will make should queueing its job fail, and *)
(* the statements that got no answer.                                       *)
(***************************************************************************)
EXTENDS Records, TLAPS

\* A write of s over r is an operation of the service, or leaves r as it is.
Sound(r, s) == s = r \/ Operation(r, s)

\* What an operation that holds the entry lock will write, now or after it failed
\* to queue its job.
OpsSound ==
    \A m \in Machine :
        /\ op[m].stage = "saving" => cache[m].loaded /\ Sound(cache[m].record, op[m].new)
        /\ op[m].stage = "queueing"
             => op[m].queues /\ cache[m].loaded /\ cache[m].record = op[m].new
        /\ op[m].queues => Sound(op[m].new, op[m].undo)

\* What a statement without an answer will write, if the row lets it.
LateSound ==
    \A w \in late :
        /\ w.base <= row.rev
        /\ w.base = row.rev => Sound(row.record, w.record)

\* The inductive invariant.
RecordInv == TypeOK /\ CacheTrue /\ OpsSound /\ LateSound

-----------------------------------------------------------------------------
(* What the operations make of a record. *)

\* Every operation gives a record.
LEMMA OperationTypes ==
    ASSUME NEW r \in TunnelRecords, NEW c \in Cert
    PROVE  /\ Missing \in TunnelRecords /\ Created \in TunnelRecords
           /\ Removed(r) \in TunnelRecords
           /\ Bound(r, c) \in TunnelRecords /\ BindFailed(r, c) \in TunnelRecords
           /\ Renewing(r, c) \in TunnelRecords
           /\ ShowIssuing(r) \in TunnelRecords
  BY DEF TunnelRecords, CertStates, Missing, Created, Removed, Bound, BindFailed, Renewing,
         ShowIssuing

\* There is always a record.
LEMMA MissingType == Missing \in TunnelRecords /\ Created \in TunnelRecords
  BY DEF TunnelRecords, CertStates, Missing, Created

\* The two that need no certificate.
LEMMA PlainTypes ==
    ASSUME NEW r \in TunnelRecords
    PROVE  Removed(r) \in TunnelRecords /\ ShowIssuing(r) \in TunnelRecords
  BY DEF TunnelRecords, CertStates, Removed, ShowIssuing

\* So does an update.
LEMMA UpdateType ==
    ASSUME NEW r \in TunnelRecords, NEW c \in Cert, NEW input \in Inputs
    PROVE  Updated(r, c, input) \in TunnelRecords
  BY DEF TunnelRecords, CertStates, Inputs, Updated

\* A bind that could not queue its job is marked failed: an operation on what it wrote.
LEMMA BindUndone ==
    ASSUME NEW r \in TunnelRecords, NEW c \in Cert, r.live
    PROVE  Operation(Bound(r, c), BindFailed(r, c))
  <1>1. Bound(r, c).live /\ Bound(r, c).cert = c /\ Bound(r, c).state = "issuing"
    BY DEF TunnelRecords, Bound
  <1>2. BindFailed(Bound(r, c), c) = BindFailed(r, c)
    BY DEF TunnelRecords, Bound, BindFailed
  <1> QED
    BY <1>1, <1>2 DEF Operation

\* A renewal that could not queue its job is taken back.
LEMMA RenewalUndone ==
    ASSUME NEW r \in TunnelRecords, NEW c \in Cert, MayRenew(r)
    PROVE  Operation(Renewing(r, c), r)
  <1>1. MayRenew(Renewing(r, c)) /\ Renewing(r, c).renewal = c
    BY DEF TunnelRecords, Renewing, MayRenew
  <1>2. r.renewal \in Cert \union {NoCert} /\ Renewing(Renewing(r, c), r.renewal) = r
    BY DEF TunnelRecords, Renewing
  <1> QED
    BY <1>1, <1>2 DEF Operation

-----------------------------------------------------------------------------

\* What lock_fresh hands an operation is typed, loaded, and true if it is current.
LEMMA ViewTrue ==
    ASSUME RecordInv, NEW m \in Machine
    PROVE  /\ View(m) \in Entries /\ View(m).loaded /\ View(m).record \in TunnelRecords
           /\ View(m).rev <= row.rev
           /\ View(m).rev = row.rev => View(m).record = row.record
  <1>1. CASE cache[m].loaded /\ backoff[m]
    BY <1>1 DEF View, RecordInv, TypeOK, CacheTrue, Entries
  <1>2. CASE ~(cache[m].loaded /\ backoff[m])
    BY <1>2 DEF View, RecordInv, TypeOK, Entries, Versions
  <1> QED
    BY <1>1, <1>2

\* It holds at the start: nothing is cached, nothing is written.
LEMMA InitInv == Init => RecordInv
  <1> SUFFICES ASSUME Init PROVE RecordInv
    OBVIOUS
  <1>1. NotCached \in Entries /\ Idle \in Ops /\ row \in Versions
    BY MissingType DEF Init, NotCached, Entries, Idle, Ops, Versions
  <1>2. TypeOK
    BY <1>1 DEF Init, TypeOK
  <1>3. CacheTrue
    <2>1. \A m \in Machine : cache[m].rev = 0 /\ ~cache[m].loaded
      BY DEF Init, NotCached
    <2>2. row.rev = 0
      BY DEF Init
    <2>3. 0 <= 0
      OBVIOUS
    <2> QED
      BY <2>1, <2>2, <2>3, Zenon DEF CacheTrue
  <1>4. OpsSound /\ LateSound
    BY DEF Init, OpsSound, LateSound, Idle
  <1> QED
    BY <1>2, <1>3, <1>4 DEF RecordInv

\* An operation that starts from what it read.
LEMMA StartStep ==
    ASSUME RecordInv, NEW m \in Machine,
           NEW new \in TunnelRecords, NEW undo \in TunnelRecords, NEW queues \in BOOLEAN,
           Sound(View(m).record, new), queues => Sound(new, undo),
           Start(m, new, undo, queues)
    PROVE  RecordInv'
  <1> DEFINE next == [stage |-> "saving", new |-> new, undo |-> undo, queues |-> queues]
  <1>1. /\ cache' = [cache EXCEPT ![m] = View(m)] /\ op' = [op EXCEPT ![m] = next]
        /\ UNCHANGED <<row, backoff, late>>
    BY DEF Start
  <1>2. next \in Ops
    BY DEF Ops
  <1>3. TypeOK'
    BY <1>1, <1>2, ViewTrue DEF RecordInv, TypeOK
  <1>4. CacheTrue'
    BY <1>1, ViewTrue DEF RecordInv, TypeOK, CacheTrue
  <1>5. OpsSound'
    BY <1>1, ViewTrue DEF RecordInv, TypeOK, OpsSound
  <1>6. LateSound'
    BY <1>1 DEF RecordInv, LateSound
  <1> QED
    BY <1>3, <1>4, <1>5, <1>6 DEF RecordInv

\* Each request of the service starts so.
LEMMA RequestSteps ==
    ASSUME RecordInv, NEW m \in Machine,
           \/ CreateTunnel(m) \/ RemoveTunnel(m) \/ Touch(m) \/ ShowAgain(m)
           \/ \E c \in Cert :
                \/ BindCertificate(m, c) \/ Renew(m, c)
                \/ \E input \in Inputs : Update(m, c, input)
    PROVE  RecordInv'
  <1> DEFINE r == View(m).record
  <1> r \in TunnelRecords
    BY ViewTrue
  <1> HIDE DEF r
  <1>1. ASSUME NEW new \in TunnelRecords, Sound(r, new), Request(m, new) PROVE RecordInv'
    BY <1>1, StartStep, MissingType DEF Request, r
  <1>2. CASE CreateTunnel(m)
    BY <1>1, <1>2, MissingType DEF CreateTunnel, Sound, Operation, r
  <1>3. CASE RemoveTunnel(m)
    BY <1>1, <1>3, PlainTypes DEF RemoveTunnel, Sound, Operation, r
  <1>4. CASE Touch(m)
    BY <1>1, <1>4 DEF Touch, Sound, r
  <1>5. CASE ShowAgain(m)
    BY <1>1, <1>5, PlainTypes DEF ShowAgain, Sound, Operation, r
  <1>6. ASSUME NEW c \in Cert, BindCertificate(m, c) PROVE RecordInv'
    <2>1. MayBind(r) /\ Start(m, Bound(r, c), BindFailed(r, c), TRUE)
      BY <1>6 DEF BindCertificate, r
    <2>2. Sound(r, Bound(r, c)) /\ Sound(Bound(r, c), BindFailed(r, c))
      BY <2>1, BindUndone DEF Sound, Operation, MayBind
    <2> QED
      BY <2>1, <2>2, StartStep, OperationTypes DEF r
  <1>7. ASSUME NEW c \in Cert, Renew(m, c) PROVE RecordInv'
    <2>1. MayRenew(r) /\ Start(m, Renewing(r, c), r, TRUE)
      BY <1>7 DEF Renew, r
    <2>2. Sound(r, Renewing(r, c)) /\ Sound(Renewing(r, c), r)
      BY <2>1, RenewalUndone DEF Sound, Operation
    <2> QED
      BY <2>1, <2>2, StartStep, OperationTypes DEF r
  <1>8. ASSUME NEW c \in Cert, NEW input \in Inputs, Update(m, c, input) PROVE RecordInv'
    <2>1. Wants(r, c) /\ Request(m, Updated(r, c, input))
      BY <1>8 DEF Update, r
    <2>2. Sound(r, Updated(r, c, input))
      BY <2>1 DEF Sound, Operation
    <2> QED
      BY <1>1, <2>1, <2>2, UpdateType
  <1> QED
    BY <1>2, <1>3, <1>4, <1>5, <1>6, <1>7, <1>8

\* The entry is read or dropped while no operation holds it.
LEMMA CacheSteps ==
    ASSUME RecordInv, NEW m \in Machine,
           Lookup(m) \/ ReadFails(m) \/ BackoffEnds(m) \/ Forget(m) \/ Restart(m)
    PROVE  RecordInv'
  <1> USE DEF RecordInv
  <1>1. NotCached \in Entries /\ NotCached.rev = 0 /\ ~NotCached.loaded /\ Idle \in Ops
    BY MissingType DEF NotCached, Entries, Idle, Ops
  <1>2. UNCHANGED <<row, late>>
    BY DEF Lookup, ReadFails, BackoffEnds, Forget, Restart
  <1>3. TypeOK'
    <2>1. cache' \in [Machine -> Entries]
      BY <1>1, ViewTrue DEF Lookup, ReadFails, BackoffEnds, Forget, Restart, TypeOK
    <2>2. backoff' \in [Machine -> BOOLEAN]
      BY DEF Lookup, ReadFails, BackoffEnds, Forget, Restart, TypeOK
    <2>3. op' \in [Machine -> Ops]
      BY <1>1 DEF Lookup, ReadFails, BackoffEnds, Forget, Restart, TypeOK
    <2> QED
      BY <1>2, <2>1, <2>2, <2>3 DEF TypeOK
  <1>4. CacheTrue'
    BY <1>1, <1>2, ViewTrue
    DEF Lookup, ReadFails, BackoffEnds, Forget, Restart, TypeOK, Versions, CacheTrue
  <1>5. OpsSound'
    <2>1. (op'[m] = op[m] /\ cache'[m] = cache[m]) \/ op'[m] = Idle
      BY DEF Lookup, ReadFails, BackoffEnds, Forget, Restart, TypeOK
    <2>2. \A q \in Machine \ {m} : op'[q] = op[q] /\ cache'[q] = cache[q]
      BY DEF Lookup, ReadFails, BackoffEnds, Forget, Restart, TypeOK
    <2> QED
      BY <2>1, <2>2 DEF OpsSound, Idle
  <1>6. LateSound'
    BY <1>2 DEF LateSound
  <1> QED
    BY <1>3, <1>4, <1>5, <1>6

\* An operation that ends, or goes on after its save, without writing.
LEMMA OpSteps ==
    ASSUME RecordInv, NEW m \in Machine,
           Conflict(m) \/ SaveError(m) \/ Queued(m) \/ QueueError(m) \/ Dropped(m)
    PROVE  RecordInv'
  <1> USE DEF RecordInv
  <1>1. NotCached \in Entries /\ NotCached.rev = 0 /\ ~NotCached.loaded /\ Idle \in Ops
    BY MissingType DEF NotCached, Entries, Idle, Ops
  <1>2. UNCHANGED <<row, backoff>>
    BY DEF Conflict, SaveError, Queued, QueueError, Dropped
  <1>3. op[m] \in Ops /\ cache[m] \in Entries
    BY DEF TypeOK
  <1>4. CASE Conflict(m)
    <2>1. TypeOK'
      BY <1>1, <1>4 DEF Conflict, TypeOK
    <2>2. CacheTrue' /\ LateSound'
      BY <1>1, <1>4 DEF Conflict, TypeOK, Versions, CacheTrue, LateSound
    <2>3. OpsSound'
      BY <1>4 DEF Conflict, TypeOK, OpsSound, Idle
    <2> QED
      BY <2>1, <2>2, <2>3
  <1>5. CASE SaveError(m)
    <2> DEFINE w == [record |-> op[m].new, base |-> cache[m].rev]
    <2>1. w \in Writes
      BY <1>3 DEF Writes, Ops, Entries
    <2>2. late' = late \union {w} /\ op' = [op EXCEPT ![m] = Idle] /\ UNCHANGED <<row, cache, backoff>>
      BY <1>5 DEF SaveError
    <2>3. w.base <= row.rev /\ (w.base = row.rev => Sound(row.record, w.record))
      BY <1>5 DEF SaveError, CacheTrue, OpsSound
    <2> HIDE DEF w
    <2>4. TypeOK'
      BY <1>1, <2>1, <2>2 DEF TypeOK
    <2>5. CacheTrue'
      BY <2>2 DEF CacheTrue
    <2>6. LateSound'
      BY <2>2, <2>3 DEF LateSound
    <2>7. OpsSound'
      BY <2>2 DEF TypeOK, OpsSound, Idle
    <2> QED
      BY <2>4, <2>5, <2>6, <2>7
  <1>6. CASE Queued(m) \/ Dropped(m)
    <2>1. op' = [op EXCEPT ![m] = Idle] /\ UNCHANGED <<row, cache, backoff, late>>
      BY <1>6 DEF Queued, Dropped
    <2>2. TypeOK' /\ CacheTrue' /\ LateSound'
      BY <1>1, <2>1 DEF TypeOK, CacheTrue, LateSound
    <2>3. OpsSound'
      BY <2>1 DEF TypeOK, OpsSound, Idle
    <2> QED
      BY <2>2, <2>3
  <1>7. CASE QueueError(m)
    <2> DEFINE next == [stage |-> "saving", new |-> op[m].undo, undo |-> Missing, queues |-> FALSE]
    <2>1. op' = [op EXCEPT ![m] = next] /\ UNCHANGED <<row, cache, backoff, late>>
      BY <1>7 DEF QueueError
    <2>2. next \in Ops
      BY <1>3, MissingType DEF Ops
    <2>3. TypeOK' /\ CacheTrue' /\ LateSound'
      BY <2>1, <2>2 DEF TypeOK, CacheTrue, LateSound
    <2>4. OpsSound'
      BY <1>7, <2>1 DEF QueueError, TypeOK, OpsSound
    <2> QED
      BY <2>3, <2>4
  <1> QED
    BY <1>4, <1>5, <1>6, <1>7

-----------------------------------------------------------------------------
(* Writes. *)

\* A row that moves on leaves every other cache and write behind.
LEMMA Behind ==
    ASSUME RecordInv, NEW record \in TunnelRecords,
           row' = [record |-> record, rev |-> row.rev + 1]
    PROVE  /\ row' \in Versions /\ row'.record = record /\ row'.rev = row.rev + 1
           /\ \A m \in Machine : cache[m].rev < row'.rev
           /\ \A w \in late : w.base < row'.rev
  <1>1. row.rev \in Nat
    BY DEF RecordInv, TypeOK, Versions
  <1>2. row' \in Versions /\ row'.record = record /\ row'.rev = row.rev + 1
    BY <1>1 DEF Versions
  <1>3. \A m \in Machine : cache[m].rev \in Nat /\ cache[m].rev <= row.rev
    BY DEF RecordInv, TypeOK, CacheTrue, Entries
  <1>4. \A w \in late : w.base \in Nat /\ w.base <= row.rev
    BY DEF RecordInv, TypeOK, LateSound, Writes
  <1> QED
    BY <1>1, <1>2, <1>3, <1>4

\* save: what the operation was computed from is what it replaces.
LEMMA CommitStep ==
    ASSUME RecordInv, NEW m \in Machine, Commit(m)
    PROVE  RecordInv' /\ Sound(row.record, row'.record)
  <1> DEFINE entry == [loaded |-> TRUE, record |-> op[m].new, rev |-> row.rev + 1]
  <1> DEFINE next == IF op[m].queues THEN [op[m] EXCEPT !.stage = "queueing"] ELSE Idle
  <1> USE DEF RecordInv
  <1>1. /\ op[m].stage = "saving" /\ row.rev = cache[m].rev
        /\ row' = [record |-> op[m].new, rev |-> row.rev + 1]
        /\ cache' = [cache EXCEPT ![m] = entry]
        /\ op' = [op EXCEPT ![m] = next]
        /\ UNCHANGED <<backoff, late>>
    BY DEF Commit, Write
  <1>2. op[m] \in Ops /\ op[m].new \in TunnelRecords /\ row.rev \in Nat
    BY DEF TypeOK, Ops, Versions
  <1>3. entry \in Entries /\ entry.loaded /\ entry.rev = row'.rev /\ entry.record = row'.record
    BY <1>1, <1>2 DEF Entries
  <1>4. next \in Ops
    BY <1>2, MissingType DEF Ops, Idle
  <1>5. /\ row' \in Versions /\ row'.record = op[m].new /\ row'.rev = row.rev + 1
        /\ \A q \in Machine : cache[q].rev < row'.rev
        /\ \A w \in late : w.base < row'.rev
    BY <1>1, <1>2, Behind
  <1>6. Sound(row.record, row'.record)
    BY <1>1, <1>5 DEF CacheTrue, OpsSound
  <1>7. /\ next.stage = "queueing" => op[m].queues /\ next.queues
        /\ next.stage # "saving"
        /\ next.queues => op[m].queues /\ next.new = op[m].new /\ next.undo = op[m].undo
        /\ next.stage = "queueing" => next.new = op[m].new
    BY <1>2 DEF Ops, Idle
  <1>8. entry.loaded = TRUE /\ entry.record = op[m].new
    OBVIOUS
  <1> HIDE DEF entry, next
  <1>9. TypeOK'
    BY <1>1, <1>3, <1>4, <1>5 DEF TypeOK
  <1>10. CacheTrue'
    <2> SUFFICES ASSUME NEW q \in Machine
                 PROVE  /\ cache'[q].rev <= row'.rev
                        /\ cache'[q].loaded /\ cache'[q].rev = row'.rev
                             => cache'[q].record = row'.record
      BY DEF CacheTrue
    <2>1. CASE q = m
      <3>1. cache'[q] = entry
        BY <1>1, <2>1 DEF TypeOK
      <3> QED
        BY <1>3, <1>5, <3>1 DEF Versions
    <2>2. CASE q # m
      <3>1. cache'[q] = cache[q] /\ cache[q].rev \in Nat /\ row'.rev \in Nat
        BY <1>1, <1>5, <2>2 DEF TypeOK, Entries, Versions
      <3> QED
        BY <1>5, <3>1
    <2> QED
      BY <2>1, <2>2
  <1>11. OpsSound'
    <2> SUFFICES ASSUME NEW q \in Machine
                 PROVE  /\ op'[q].stage = "saving"
                             => cache'[q].loaded /\ Sound(cache'[q].record, op'[q].new)
                        /\ op'[q].stage = "queueing"
                             => op'[q].queues /\ cache'[q].loaded /\ cache'[q].record = op'[q].new
                        /\ op'[q].queues => Sound(op'[q].new, op'[q].undo)
      BY DEF OpsSound
    <2>1. CASE q = m
      <3>1. cache'[q] = entry /\ op'[q] = next
        BY <1>1, <2>1 DEF TypeOK
      <3>2. op[m].queues => Sound(op[m].new, op[m].undo)
        BY DEF OpsSound
      <3> QED
        BY <1>7, <1>8, <3>1, <3>2
    <2>2. CASE q # m
      <3>1. cache'[q] = cache[q] /\ op'[q] = op[q]
        BY <1>1, <2>2 DEF TypeOK
      <3> QED
        BY <3>1 DEF OpsSound
    <2> QED
      BY <2>1, <2>2
  <1>12. LateSound'
    <2>1. \A w \in late : w.base \in Nat
      BY DEF TypeOK, Writes
    <2>2. row'.rev \in Nat
      BY <1>5 DEF Versions
    <2> QED
      BY <1>1, <1>5, <2>1, <2>2 DEF LateSound
  <1> QED
    BY <1>6, <1>9, <1>10, <1>11, <1>12

\* A write that no machine waits for: a late statement, or an import.
LEMMA OutsideWrite ==
    ASSUME RecordInv, NEW record \in TunnelRecords,
           row' = [record |-> record, rev |-> row.rev + 1],
           late' \subseteq late, UNCHANGED <<cache, backoff, op>>
    PROVE  RecordInv'
  <1> USE DEF RecordInv
  <1>1. /\ row' \in Versions /\ row'.rev \in Nat
        /\ \A m \in Machine : cache[m].rev < row'.rev
        /\ \A w \in late : w.base < row'.rev
    BY Behind DEF Versions
  <1>2. TypeOK'
    BY <1>1 DEF TypeOK
  <1>3. \A m \in Machine : cache[m].rev \in Nat
    BY DEF TypeOK, Entries
  <1>4. CacheTrue'
    BY <1>1, <1>3 DEF CacheTrue
  <1>5. OpsSound'
    BY DEF OpsSound
  <1>6. \A w \in late : w.base \in Nat
    BY DEF TypeOK, Writes
  <1>7. LateSound'
    BY <1>1, <1>6 DEF LateSound
  <1> QED
    BY <1>2, <1>4, <1>5, <1>7

\* A statement that got no answer takes effect, or never does.
LEMMA LateSteps ==
    ASSUME RecordInv, NEW w \in late, LateWrite(w) \/ LateNothing(w)
    PROVE  RecordInv' /\ Sound(row.record, row'.record)
  <1>1. w.record \in TunnelRecords
    BY DEF RecordInv, TypeOK, Writes
  <1>2. CASE LateWrite(w)
    <2>1. /\ row.rev = w.base /\ row' = [record |-> w.record, rev |-> row.rev + 1]
          /\ late' \subseteq late /\ UNCHANGED <<cache, backoff, op>>
      BY <1>2 DEF LateWrite, Write
    <2>2. Sound(row.record, w.record)
      BY <2>1 DEF RecordInv, LateSound
    <2> QED
      BY <1>1, <2>1, <2>2, OutsideWrite
  <1>3. CASE LateNothing(w)
    <2>1. late' \subseteq late /\ UNCHANGED <<row, cache, backoff, op>>
      BY <1>3 DEF LateNothing
    <2>2. RecordInv'
      BY <2>1 DEF RecordInv, TypeOK, CacheTrue, OpsSound, LateSound
    <2> QED
      BY <2>1, <2>2 DEF Sound
  <1> QED
    BY <1>2, <1>3

\* Every step keeps the invariant and is an operation, an import, or no step of the
\* abstract record.
LEMMA NextInv ==
    ASSUME RecordInv, [Next]_vars
    PROVE  RecordInv' /\ (Sound(row.record, row'.record) \/ row'.record \in Imports)
  <1>1. ASSUME NEW m \in Machine,
               Lookup(m) \/ ReadFails(m) \/ BackoffEnds(m) \/ Forget(m) \/ Restart(m)
        PROVE  RecordInv' /\ row' = row
    BY <1>1, CacheSteps DEF Lookup, ReadFails, BackoffEnds, Forget, Restart
  <1>2. ASSUME NEW m \in Machine,
               \/ CreateTunnel(m) \/ RemoveTunnel(m) \/ Touch(m) \/ ShowAgain(m)
               \/ \E c \in Cert :
                    \/ BindCertificate(m, c) \/ Renew(m, c)
                    \/ \E input \in Inputs : Update(m, c, input)
        PROVE  RecordInv' /\ row' = row
    <2>1. row' = row
      BY <1>2 DEF CreateTunnel, RemoveTunnel, Touch, ShowAgain, BindCertificate, Renew, Update,
                  Request, Start
    <2> QED
      BY <1>2, <2>1, RequestSteps
  <1>3. ASSUME NEW m \in Machine,
               Conflict(m) \/ SaveError(m) \/ Queued(m) \/ QueueError(m) \/ Dropped(m)
        PROVE  RecordInv' /\ row' = row
    BY <1>3, OpSteps DEF Conflict, SaveError, Queued, QueueError, Dropped
  <1>4. ASSUME NEW r \in Imports, ImportTunnel(r) PROVE RecordInv' /\ row'.record \in Imports
    <2>1. r \in TunnelRecords
      BY RecordAssumption
    <2>2. /\ row' = [record |-> r, rev |-> row.rev + 1]
          /\ late' \subseteq late /\ UNCHANGED <<cache, backoff, op>>
      BY <1>4 DEF ImportTunnel
    <2> QED
      BY <2>1, <2>2, OutsideWrite
  <1>5. CASE UNCHANGED vars
    <2>1. RecordInv'
      BY <1>5 DEF vars, RecordInv, TypeOK, CacheTrue, OpsSound, LateSound
    <2> QED
      BY <1>5, <2>1 DEF vars, Sound
  <1>6. row' = row => Sound(row.record, row'.record)
    BY DEF Sound
  <1> QED
    BY <1>1, <1>2, <1>3, <1>4, <1>5, <1>6, CommitStep, LateSteps DEF Next

-----------------------------------------------------------------------------

\* The inductive invariant: every write that can still happen was computed from what
\* it will replace.
THEOREM WritesAreSound == Spec => []RecordInv
  <1>1. RecordInv /\ [Next]_vars => RecordInv'
    BY NextInv
  <1> QED
    BY InitInv, <1>1, PTL DEF Spec

\* A cache with the row's revision holds the row's record and no cache is ahead, so
\* `WHERE revision = ?` of save_tunnel rules out lost updates.
THEOREM CachesAreTrue == Spec => []CacheTrue
  <1>1. RecordInv => CacheTrue
    BY DEF RecordInv
  <1> QED
    BY <1>1, WritesAreSound, PTL

\* The row of the `tunnels` table behaves as one record that every service operation
\* changes in one step, whatever machines race, reads fail, requests are dropped and
\* statements take effect after their caller gave up.
THEOREM RecordsRefineTunnelRecord == Spec => AtomicRecord
  <1>1. Init => Atomic!RecordInit
    BY DEF Init, Atomic!RecordInit, Missing, Atomic!Missing
  <1>2. \A r, s : Operation(r, s) => Atomic!Operation(r, s)
    BY DEF Operation, Missing, Created, Removed, MayBind, Bound, BindFailed, MayRenew, Renewing,
           Wants, Updated, Inputs, MayShowIssuing, ShowIssuing,
           Atomic!Operation, Atomic!Missing, Atomic!Created, Atomic!Removed, Atomic!MayBind,
           Atomic!Bound, Atomic!BindFailed, Atomic!MayRenew, Atomic!Renewing, Atomic!Wants,
           Atomic!Updated, Atomic!Inputs, Atomic!MayShowIssuing, Atomic!ShowIssuing
  <1>3. RecordInv /\ [Next]_vars => [Atomic!RecordNext]_(row.record)
    <2> SUFFICES ASSUME RecordInv, [Next]_vars PROVE [Atomic!RecordNext]_(row.record)
      OBVIOUS
    <2>1. Sound(row.record, row'.record) \/ row'.record \in Imports
      BY NextInv
    <2> QED
      BY <1>2, <2>1 DEF Sound, Atomic!RecordNext
  <1> QED
    BY <1>1, <1>3, WritesAreSound, PTL DEF Spec, AtomicRecord, Atomic!RecordSpec
=============================================================================
