------------------------------- MODULE Records -------------------------------
(***************************************************************************)
(* One tunnel's row of the `tunnels` table and the copy of it every        *)
(* machine caches (service.rs: EntryState, lock_fresh, refresh, save;      *)
(* store.rs: save_tunnel, import_tunnel).                                  *)
(*                                                                         *)
(* An operation takes the machine's entry lock, reads the row (or, for     *)
(* REFRESH_BACKOFF_MS after a failed read, trusts its cache), computes the *)
(* new record and saves it with `WHERE revision = ?`.  Between its read    *)
(* and its write other machines and imports write too; a statement that    *)
(* timed out may still take effect later.                                  *)
(***************************************************************************)
EXTENDS RecordOps, Naturals, FiniteSets

CONSTANTS
    Imports,   \* records an import may bring
    MaxRev,    \* bound: writes of the row
    MaxLate    \* bound: writes without an answer in flight

ASSUME RecordAssumption ==
    /\ Imports \subseteq TunnelRecords
    /\ MaxRev \in Nat /\ MaxLate \in Nat

VARIABLES
    row,      \* the row: its record and revision (0: there is no row)
    cache,    \* EntryState of each machine: loaded, record, revision
    backoff,  \* a read failed less than REFRESH_BACKOFF_MS ago
    op,       \* the operation that holds the entry lock of each machine
    late      \* statements that got no answer and may still take effect

vars == <<row, cache, backoff, op, late>>

Versions == [record : TunnelRecords, rev : Nat]
Entries == [loaded : BOOLEAN, record : TunnelRecords, rev : Nat]
Writes == [record : TunnelRecords, base : Nat]
Ops == [stage : {"idle", "saving", "queueing"}, new : TunnelRecords,
        undo : TunnelRecords, queues : BOOLEAN]

NotCached == [loaded |-> FALSE, record |-> Missing, rev |-> 0]
Idle == [stage |-> "idle", new |-> Missing, undo |-> Missing, queues |-> FALSE]

Init ==
    /\ row = [record |-> Missing, rev |-> 0]
    /\ cache = [m \in Machine |-> NotCached]
    /\ backoff = [m \in Machine |-> FALSE]
    /\ op = [m \in Machine |-> Idle]
    /\ late = {}

-----------------------------------------------------------------------------
(* Reading. *)

\* What lock_fresh hands an operation: the row, or the cache while the machine
\* backs off from a database that did not answer.
View(m) ==
    IF cache[m].loaded /\ backoff[m]
    THEN cache[m]
    ELSE [loaded |-> TRUE, record |-> row.record, rev |-> row.rev]

\* info, certificate, an attach: the entry is read and left alone.
Lookup(m) ==
    /\ op[m] = Idle
    /\ cache' = [cache EXCEPT ![m] = View(m)]
    /\ UNCHANGED <<row, backoff, op, late>>

\* refresh() got no answer: the cached copy is used, and no read tried for a while.
ReadFails(m) ==
    /\ op[m] = Idle /\ cache[m].loaded
    /\ backoff' = [backoff EXCEPT ![m] = TRUE]
    /\ UNCHANGED <<row, cache, op, late>>

BackoffEnds(m) ==
    /\ backoff[m]
    /\ backoff' = [backoff EXCEPT ![m] = FALSE]
    /\ UNCHANGED <<row, cache, op, late>>

\* collect_idle dropped the entry, or invalidate() after an import.
Forget(m) ==
    /\ op[m] = Idle
    /\ cache' = [cache EXCEPT ![m] = NotCached]
    /\ UNCHANGED <<row, backoff, op, late>>

-----------------------------------------------------------------------------
(* Operations: the entry is locked and read, the new record computed. *)

Start(m, new, undo, queues) ==
    /\ op[m] = Idle
    /\ cache' = [cache EXCEPT ![m] = View(m)]
    /\ op' = [op EXCEPT ![m] = [stage |-> "saving", new |-> new, undo |-> undo,
                                queues |-> queues]]
    /\ UNCHANGED <<row, backoff, late>>

Request(m, new) == Start(m, new, Missing, FALSE)

CreateTunnel(m) == ~View(m).record.live /\ Request(m, Created)

RemoveTunnel(m) ==
    View(m).record.live /\ Request(m, Removed(View(m).record))

\* An attach or a bridge closing writes state and last_connected_at only.
Touch(m) == View(m).record.live /\ Request(m, View(m).record)

BindCertificate(m, c) ==
    /\ MayBind(View(m).record)
    /\ Start(m, Bound(View(m).record, c), BindFailed(View(m).record, c), TRUE)

Renew(m, c) ==
    /\ MayRenew(View(m).record)
    /\ Start(m, Renewing(View(m).record, c), View(m).record, TRUE)

Update(m, c, input) ==
    /\ Wants(View(m).record, c)
    /\ Request(m, Updated(View(m).record, c, input))

ShowAgain(m) ==
    /\ MayShowIssuing(View(m).record)
    /\ Request(m, ShowIssuing(View(m).record))

-----------------------------------------------------------------------------
(* Writing. *)

\* Mutant of Write: the UPDATE does not name the revision.
WriteAnyRevision(record, base) ==
    /\ row.rev < MaxRev
    /\ row' = [record |-> record, rev |-> row.rev + 1]

\* save_tunnel's UPDATE ... WHERE revision = base.
Write(record, base) ==
    /\ row.rev < MaxRev
    /\ row.rev = base
    /\ row' = [record |-> record, rev |-> row.rev + 1]

\* The write took effect; a bind or a renewal goes on to queue its job.
Commit(m) ==
    /\ op[m].stage = "saving"
    /\ Write(op[m].new, cache[m].rev)
    /\ cache' = [cache EXCEPT ![m] =
                   [loaded |-> TRUE, record |-> op[m].new, rev |-> row.rev + 1]]
    /\ op' = [op EXCEPT ![m] = IF op[m].queues
                               THEN [op[m] EXCEPT !.stage = "queueing"]
                               ELSE Idle]
    /\ UNCHANGED <<backoff, late>>

\* Another writer changed the row: the entry is dropped and the operation fails.
Conflict(m) ==
    /\ op[m].stage = "saving"
    /\ cache[m].rev # row.rev
    /\ cache' = [cache EXCEPT ![m] = NotCached]
    /\ op' = [op EXCEPT ![m] = Idle]
    /\ UNCHANGED <<row, backoff, late>>

\* Mutant of SaveError: the entry already holds the record that was not saved.
SaveErrorKeepsNew(m) ==
    /\ op[m].stage = "saving"
    /\ Cardinality(late) < MaxLate
    /\ late' = late \union {[record |-> op[m].new, base |-> cache[m].rev]}
    /\ cache' = [cache EXCEPT ![m].record = op[m].new]
    /\ op' = [op EXCEPT ![m] = Idle]
    /\ UNCHANGED <<row, backoff>>

\* The statement got no answer: the operation fails with its cache as it was,
\* and the write may take effect at any later time, or never.
SaveError(m) ==
    /\ op[m].stage = "saving"
    /\ Cardinality(late) < MaxLate
    /\ late' = late \union {[record |-> op[m].new, base |-> cache[m].rev]}
    /\ op' = [op EXCEPT ![m] = Idle]
    /\ UNCHANGED <<row, cache, backoff>>

LateWrite(w) ==
    /\ Write(w.record, w.base)
    /\ late' = late \ {w}
    /\ UNCHANGED <<cache, backoff, op>>

LateNothing(w) ==
    /\ late' = late \ {w}
    /\ UNCHANGED <<row, cache, backoff, op>>

\* ensure_issuance added the job.
Queued(m) ==
    /\ op[m].stage = "queueing"
    /\ op' = [op EXCEPT ![m] = Idle]
    /\ UNCHANGED <<row, cache, backoff, late>>

\* It failed to: the record is put back (a renewal) or marked failed (a bind).
QueueError(m) ==
    /\ op[m].stage = "queueing"
    /\ op' = [op EXCEPT ![m] = [stage |-> "saving", new |-> op[m].undo,
                                undo |-> Missing, queues |-> FALSE]]
    /\ UNCHANGED <<row, cache, backoff, late>>

\* The request is dropped between two statements.
Dropped(m) ==
    /\ op[m] # Idle
    /\ op' = [op EXCEPT ![m] = Idle]
    /\ UNCHANGED <<row, cache, backoff, late>>

\* The process restarts with nothing cached.
Restart(m) ==
    /\ op' = [op EXCEPT ![m] = Idle]
    /\ cache' = [cache EXCEPT ![m] = NotCached]
    /\ backoff' = [backoff EXCEPT ![m] = FALSE]
    /\ UNCHANGED <<row, late>>

\* import_tunnel, from the CLI: no machine's cache is told.  (`local_update` only
\* makes an import without `force` leave the row alone, which is no step.)
ImportTunnel(r) ==
    /\ row.record # r
    /\ row.rev < MaxRev
    /\ row' = [record |-> r, rev |-> row.rev + 1]
    /\ UNCHANGED <<cache, backoff, op, late>>

-----------------------------------------------------------------------------

Next ==
    \/ \E m \in Machine :
         \/ Lookup(m) \/ ReadFails(m) \/ BackoffEnds(m) \/ Forget(m)
         \/ CreateTunnel(m) \/ RemoveTunnel(m) \/ Touch(m) \/ ShowAgain(m)
         \/ \E c \in Cert :
              \/ BindCertificate(m, c)
              \/ Renew(m, c)
              \/ \E input \in Inputs : Update(m, c, input)
         \/ Commit(m) \/ Conflict(m) \/ SaveError(m)
         \/ Queued(m) \/ QueueError(m)
         \/ Dropped(m) \/ Restart(m)
    \/ \E w \in late : LateWrite(w) \/ LateNothing(w)
    \/ \E r \in Imports : ImportTunnel(r)

Spec == Init /\ [][Next]_vars

-----------------------------------------------------------------------------
(* Properties. *)

\* Every variable keeps its type.
TypeOK ==
    /\ row \in Versions
    /\ cache \in [Machine -> Entries]
    /\ backoff \in [Machine -> BOOLEAN]
    /\ op \in [Machine -> Ops]
    /\ late \subseteq Writes

\* A cache that carries the row's revision carries the row's record: what an
\* operation computed its write from is what the write replaces, so the check
\* `WHERE revision = ?` rules out lost updates.  A cache is never ahead of the row.
CacheTrue ==
    \A m \in Machine :
        /\ cache[m].rev <= row.rev
        /\ cache[m].loaded /\ cache[m].rev = row.rev => cache[m].record = row.record

\* The row behaves as one record that every operation changes in one step.
Atomic == INSTANCE TunnelRecord WITH rec <- row.record
AtomicRecord == Atomic!RecordSpec
=============================================================================
