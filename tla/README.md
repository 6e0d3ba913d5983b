# A formal model of OpenTunnel

TLA+ models of OpenTunnel: of `opentunnel-server`, the service behind the tunnels,
and of the Rust client, its CLI and its background service; the TLC instances that
check them and the TLAPS proofs about them. `PROJECT.json` lists the components,
runs, mutants, theorems, hazards and findings, and maps every definition to the
source lines it stands for.

## The system

A tunnel is a hostname whose TLS visitors are carried to a client over a
WebSocket (a *bridge*). The service runs on several machines that share a MySQL
database and link with each other (the *mesh*). A client keeps a *profile* (a
tunnel's token, key and certificate, and its routes) on disk and a background
service that holds the bridge.

| Part | State it keeps | Operations | What makes it hard |
| --- | --- | --- | --- |
| Tunnel records (`service.rs`, `record.rs`, `store.rs`) | a row per tunnel with a revision; a cached copy per machine | create, remove, bind a certificate, renew, update, touch, import | two machines write one row; reads fail and a stale copy is used; a statement times out and still takes effect; requests are dropped half way |
| Certificate jobs (`jobs.rs`, `store.rs`, `retry.rs`) | a row per certificate with a lease; slots and tasks per machine | claim, run, extend, record, finish, retry, requeue, release | leases expire under a running attempt; crashes between two statements; statements without an answer; slots on error paths |
| Issuance (`service.rs` with `jobs.rs`) | both of the above | bind or renew, then a job, then the outcome in the record | record and job are two rows written one after the other |
| Renewal alarms (`jobs.rs`, `store.rs`, `service.rs`) | a due time per tunnel | set, read due, clear, fire | two machines take one alarm; a machine dies between the clear and the renewal |
| Certificate of the API domain (`jobs.rs`) | one key and certificate, one job's name | load, create, name a job, add it, install | every machine does this at once, and may die between two statements |
| Rate limits (`limits.rs`, `store.rs`) | a row per key | take, prune | concurrent takes at the boundary of the burst |
| ACME orders (`acme.rs`, `dns.rs`, sweep of `jobs.rs`) | authorizations and orders at the CA, records in the zone | order, publish, answer, poll, finalize, clean up, sweep | every request may fail, or apply without an answer; what is left behind is handed out again |
| Mesh (`mesh.rs`) | own entries with a sequence number; a table and an index of the peers' entries; links | attach, detach, leave, dial, accept, register, apply, link down | both sides dial at once, restarts with a new life, full queues, a link replaced mid-stream |
| Bridges (`service.rs`, `bridge.rs`, `cluster.rs`) | sessions and their routes; the entry lock | register, attach (asking other machines), retire, close, delete | an attach waits for other machines with the lock held; a deletion has to reach every machine |
| Connections over a bridge (`relay.rs`, `bridge.rs`, the client's `tunnel.rs`) | numbers, slots, budgets, queues | open, data, end, reset, stall, idle, drain | bounded waiting at both ends; numbers are used again |
| Public listener (`relay.rs`, `service.rs`, `cluster.rs`) | cached records with staleness; forwarded connections | route, read again, forward, answer | events, links and reads overlap; an answer comes late |
| Peer authentication (`peer_auth.rs`, `cluster.rs`) | a table of nonces | sign, verify, prune | the table is full; clocks differ |
| Shutdown (`server.rs`, `service.rs`, `http.rs`) | the draining flag; connections | signal, leave, drain, close, release | bridges and connections come while the machine goes |
| Client library (`crates/opentunnel`) | a profile's files; the session | ensure, resume, remove, connect, refresh, supervise | a process dies between two files; two processes share them |
| CLI and daemon (`crates/opentunnel-cli`) | lock and socket files, the config file, the service unit | up, down, route, serve | processes see each other only through files |

Components interact through the database (records, jobs, alarms, rates), through
mesh events (`attached`, `detached`, `leaving`, tunnel changed or deleted, job
enqueued), through signed HTTP requests between machines (who holds a route,
forwarded visitors), through the entry lock of a tunnel within a machine, and on
the client's side through files, the control socket and watch channels.

What makes each part correct: records are changed atomically; a job is decided by
its latest claim and always ends; a tunnel never waits for a job that is over; what
is due is renewed; a rate is kept across machines; a record the CA looks for is
published; a table catches up with what its peer announces; a machine announces
what is attached; routes are exclusive on a machine; a deleted tunnel's bridges
close everywhere; data of one visitor never reaches another and every share is
given back; a cached answer is corrected; a request counts once; a profile can
always be read; routes of the file come to be those of the bridge.

## Modules

| Module | Models | Remarks |
| --- | --- | --- |
| `Names` | machines and certificate IDs | shared constants |
| `JobLeases` | the runner and the attempts of `jobs.rs`, the job statements of `store.rs` | one action per statement and per step between two awaits; the outcome of an order and what the record says are left open |
| `RecordOps` | what each service operation makes of a record | pure operators, shared by the next three |
| `TunnelRecord` | the promise: one record, each operation one step | abstract specification |
| `Records` | caches, revisions, conditional writes, failed reads, late writes, imports | refines `TunnelRecord` with `rec <- row.record` |
| `Issuance` | a tunnel's certificate end to end | composes `JobLeases` and `TunnelRecord`: each attempt step is a job step and a record step |
| `Renewals` | alarms and the renewals they start | a renewal's job is one step with an outcome |
| `ServerCertificate` | the API domain's certificate | statement by statement on every machine |
| `Quotas` | one rate key | GCRA, statement by statement |
| `AcmeOrder` | the attempts of one job at the CA, the zone, the sweep | the CA is external: it reuses authorizations, checks at any time, may fail or never finish |
| `Mesh` | processes, links, tables | each end of a link has a task of its own |
| `Bridges` | sessions of one tunnel on all machines, deletion | takes the mesh as a table that follows; a broken link loses events |
| `Channels` | the connections of one bridge, both ends | a socket is its sender's queue |
| `Routing` | one route, the visitors of one machine (the edge) | takes the mesh as `Bridges` does |
| `Shutdown` | one machine's shutdown | |
| `PeerAuth` | signed requests and their nonces | a proof is right only for what a machine signed |
| `Profile` | a profile's files under two processes | the API is what `Records` and `Issuance` say, seen from one client |
| `Reconcile` | an edit of the routes on its way to the bridge | |
| `Lifecycle` | the processes of the background service | the service manager is external |
| `JobLeasesProofs`, `RecordsProofs`, `IssuanceProofs`, `ChannelsProofs` | | the theorems about the module of that name; `IssuanceProofs` builds on `JobLeasesProofs` |
| `NetworkProofs` | | the theorems about `Bridges` and `Mesh` |
| `SharedProofs` | | the theorems about `Quotas`, `Renewals` and `AcmeOrder` |
| `PublicProofs` | | the theorems about `Routing`, `Shutdown` and `PeerAuth` |
| `ClientProofs` | | the theorems about `Lifecycle` and `Profile` |
| `MCJobLeases`, `MCRecords`, `MCIssuance` | | instances of one module |
| `MCNetwork`, `MCShared`, `MCPublic`, `MCClient` | | instances of several independent modules; see *Runs* |

### State and actions against the code

`JobLeases`. `status`, `owner`, `lease`, `due`, `attempts` are the columns of
`jobs`; a lease is `none`, `live` or `expired` instead of a time. `running` is
`Jobs::running`; `round` is one pass of `start_due` (listed jobs, the one being
claimed); `tasks` are the spawned `execute` futures, each in a phase between two
awaits. `mode` follows stop, release and exit of the process. Times are left
out: `BecomeDue` and `LeaseRunsOut` let them pass; `LeaseLost` is the fault that
a lease is not extended in time. `claims` and `requeued` are history.

`Records`. `row` is the record with its revision; `cache` a machine's
`EntryState`; `op` the operation that holds the entry lock, between its read and
its answer; `late` holds statements whose caller gave up. `Commit`, `Conflict`
and `SaveError` are the three answers of `save`.

`Issuance`. The record is atomic (that is what `Records` shows); a machine's
cached copy matters only in the back-off after a failed read. `Save` needs the
view to be the record, `SaveConflict` is the other case.

`Renewals`. `alarm` is the column, as `none`, `set` or `due`; `loop`, `batch` and
`taken` are one pass of `fire_due_alarms`: read the due ones, clear each that is
still what was read (`same`), fire those it cleared. An operation of a record and
the setting of its alarm are one step that may leave the alarm out.

`ServerCertificate`. `row` and `named` are the stored certificate and the job's name
in `meta`; `ensure[h].at` is the statement a machine's pass comes to next; `queue`
holds the jobs with the key each certifies; `serving` is what each machine serves.

`Quotas`. `tat` is the row; `taking` a request between its statements, with the
time it read at the start; `Prune` deletes a row whose time has passed.

`AcmeOrder`. `ca` is each identifier's latest authorization, `order` the latest
order, `zone` the challenge records (of which `old` are past `DNS_SWEEP_AGE`). `pc`
walks through `Acme::issue` request by request, `todo` through its loops; `records`,
`unsettled` and `settled` are what the clean-up decides on. Each request is answered,
applied without an answer, or not applied; `Interrupt` cuts an attempt off at any
request as a shutdown does, `Crash` ends it without clean-up. `sweep` is `sweep_dns`.

`Mesh`. `life` orders processes of one machine by `(started_at, epoch)`; a
restart picks any unused life, so clocks may go back. `end[l][m]` is the task of
machine m on link l: subscribed to the local table, hello said, hello read,
registered, closed. `wire` holds queued and sent frames of a direction. A bridge
is named by life and sequence number.

`Bridges`. `stage` is a session (`called`: its attach waits for the lock;
`asking`: it holds the lock and asks other machines); `holder` is the entry lock
across those awaits, `telling` the lock of a remove between its save and its
announcement; `cached`, `fresh`, `backoff` are what `lock_for_attach` looks at;
`news` are the steps of `run_notices` and of the check after a link comes up.

`Channels`. On the server: `channels` is the bridge's table, `visitors` the slots,
`budget`, `shared` and `credit` the free shares, `inbound` and `outbound` the queues,
`reader` the bridge's reader (reading, or waiting for a share until `Stall`). On the
client: `served`, `task`, `local`, the queues `controls` and `datas`, and `creader`,
the item its reader waits to deliver. A frame is a connection and its place in the
stream, so that a frame given to the wrong connection or out of order shows. A target
learns of its visitor's end in two ways: it is told (`tfin`), or its socket is dropped
when the task is aborted or the session ends (`tcut`; `tunnel.rs:593`, `645-653`,
`667-670`, `832-848`), which looks the same to it after only part of the data. A number
is given as the code gives it, by the table alone (`service.rs:1790-1804`); `clash` notes
that the one given was still spoken of (`Lingers`). `Idle` may come at any time, since the
code's timer knows only sockets; it comes for certain (`Expired`) once nothing of the
connection is under way on the bridge.

`Routing`. `record`, `stale`, `old`, `known` are the edge's entry, `generation` is
`Service::generation`, `reading` the read that holds the entry's lock. `queue`,
`carries`, `notices` are an event's way: a peer's link queue, then what the mesh told
the edge. `visitor` is one visitor, `forwarded` what peers hold for it. A connection the
edge gave up on is from then on only the peer's: to that machine it is a visitor that goes
(`Refuse`, when the write of `FORWARD_ACCEPTED` fails, `UploadEnd`, `UploadError` and
`Idle` of `Channels`), and `Accounted` and `BothEnd` are about its slot and its end.

`Shutdown`. `main` is how far `run` came; `drainer` is the drain: the entries it has
yet to look at, the bridges it has yet to tell; `connection` an API connection
between handshake, requests and close; `late` those that saw the drain as they began.

`PeerAuth`. `seen` is a machine's `Nonces`; `Kept` and `Room` prune it, by the window
and then by the median; `forgot` are requests dropped while they were fresh, by a
restart or because fresh ones alone filled the table.

`Profile`. `disk` has one value per file; `doing[p].writes` are the file writes a
process has still to make, and `Crash` may come between any two. `bound` is each
tunnel's request and certificate at the API. `torn`, `crossed` and `left` are history:
a removal cut off; a failed certificate requested again by a command while the service
provisions, or issued after all by an attempt that overlapped (`IssueLate`); tunnels left
at the API.

`Reconcile`. `config` is the file with its modification time, truncated and written
in two steps; `daemon` one pass of the daemon's loop, read by read; `watch` the sender
of the routes and `supervisor` the receiver with the version it saw; `reload` and
`shutdown` are the other channels. A command may end at any point after it truncated the
file (`CommandEnds`: killed, or its write, the creation or the Reload failed), and a pass
at each of its reads and in `connect` (`PassFails`). `set_routes` does not fail in a pass:
`config::parse` accepts only what `validate_routes` does. `missed` is history: a command or
a pass broke off, and no pass has begun since.

`Lifecycle`. `at` is each service process between lock, socket, serving and exit;
`socket` is whose socket file it is; `registered` the unit; `cli` the command that
runs, which sees the processes only through the socket, in `up` twice (`UpCommand`, and
again in `StopRequest`), and may break off (`CommandBreaks`). `halted` is history: the unit
was told to stop, or written and not started, and nothing has started it since.

## Runs

Modules that do not interact share a TLC run: a variable `part` chooses, at the start,
which of them a behaviour is about, the others stay in their initial state, and
every property holds of every part. This is a union of state spaces, not a product.
Nothing is lost by it where the modules touch different state, or where one takes what
the other one promises as given (`Bridges` and `Routing` take what `CatchesUp`,
`AnnouncesTruth` and `Converges` say of the mesh).

| Run | Instance | Shows |
| --- | --- | --- |
| `jobs` | 2 machines, 1 job, 1 fault of any kind, fair | `NoSlotLeak`, `RunsOnce`, `FencedResults`, `JobEnds` |
| `records` | 2 machines, 2 certificates, 3 revisions, 1 late write | `CacheTrue`, refinement `AtomicRecord` |
| `issuance` | 2 machines with 2 slots, 2 certificates (a bind replaces the other), 1 fault | `NeverStuck`, `AbandonedOnlyUnwanted`, `SlotForRenewals` |
| `renewal` | 1 machine, a certificate, its renewal and a refused bind, retries, 1 fault (failed reads too), fair | `NeverStuck`, `Settles` |
| `network` | parts mesh (2 machines, 2 links, one bridge before and a change after, a crash, a cut or a machine that leaves), bridges (3 with one route on 2 machines, 1 fault), sharing (2 visitors on a bridge, a ClientHello of each and one's answer, every queue and share at its limit, 1 mishap), reusing (2 visitors with one number), streaming (1 visitor, 2 frames each way) | `CatchesUp`; `AnnouncesTruth`, `RoutesExclusive`; `Accounted`, `Streams` |
| `links_live` | parts mesh (2 lives of a machine, a crash, a cut or a leave) and streaming (1 visitor with data both ways, pings, 1 mishap), fair | `Converges`; `Flows`, `BothEnd` |
| `bridges_live` | parts attach (4 bridges that want one route, 2 on each machine) and delete (a bridge on each machine; link, crash or dropped cache), fair | `AttachEnds`; `DeletedCloses` |
| `shared` | parts quotas (2 requests, burst 2), renewals (2 machines), server (2 machines), acme (a hostname and its wildcard, 1 fault and 1 incident), fair | `WithinRate`; `Covered`, `RenewsInTime`; `ServesEverywhere`; `Published`, `Completes` |
| `client` | parts profile (2 processes, 3 keys, 2 faults), routes (2 names, 2 targets, 2 edits, 1 tunnel), closing (1 name, 2 tunnels, 2 edits, 2 sessions, passes or commands that fail or daemons that stop), service (3 commands, 3 crashes or commands that break off), fair | `Whole`, `Fits`, `NoneLost`, `Provisions`; `RoutesFollow`, `Closes`; `Reached`, `StaysUp` |
| `public` | parts routing (edge and 2 peers, 1 fault, 1 move), shutdown (3 bridges of 2 tunnels, 1 connection), auth (3 requests, 2 nonces, 1 restart), fair | `CacheFollows`, `Reaches`; `DrainsGracefully`; `AcceptedOnce` |

Runs that end in a violation, each a disagreement of the code with what the
repository says of it (quoted in `PROJECT.json`):

| Run | What happens |
| --- | --- |
| `rerun` | a crash between recording a renewal and ending its job; the rerun's failure replaces the serving certificate |
| `ensure_failed` | a first certificate that failed leaves a pending request; `ensure` resumes it, and the API answers with the same failure on every call |

### Known disagreements without a run

The passing runs leave out the fault kinds under which their properties are known
to fail, or their properties name the case. Putting a kind in the run's `FaultKinds`
shows the behaviour:

- `issuance` with `lease`: an attempt that lost its lease while it waited writes
  `challenge` (`jobs.rs:392` does not look at the lease) after the new owner failed
  the job for good; `NeverStuck` is violated. The same happens with `stop` and `hang`
  (two faults): an attempt outlives `RELEASE_WAIT` and its machine's leases are given
  up under it. `docs/server.md:189` says the tunnel shows `issuing`/`challenge` until
  the job ends.
- `issuance` with `read`: for `REFRESH_BACKOFF_MS` after a failed read a machine
  uses its cached record (`service.rs:674`). A copy older than a bind makes it judge
  the new certificate unwanted; `AbandonedOnlyUnwanted` is violated.
- `network` with `forget`: a silent bridge (`silence`) is retired while its record is
  not loaded (`service.rs:1715`) and stays announced; `AnnouncesTruth` is violated.
  `docs/server.md:692-694` says `detached` is announced when a bridge is retired.
- `bridges_live` with `read`: the database cannot be read when a deletion is heard
  (`cluster.rs:365`) and the bridges stay; `DeletedCloses` is violated.
  `docs/server.md:701-702` says that other machines close them.
- `bridges_live` with `save`: a deletion that took effect without an answer is
  not announced (`service.rs:979`); `DeletedCloses` is violated.
- The lease check before recording (`jobs.rs:418`) only stops an attempt when the
  statement answers no: without an answer (`CheckLeaseError`) it goes on to record.
  `docs/server.md:175` says results are recorded only by the lease holder.
- A link's `draining` comes from its own hello (`mesh.rs:1139`): a hello written
  before a machine began to leave, registered after `leaving` was heard on the link
  it replaces, brings that machine's entries back until the `leaving` queued behind
  it is read. `CatchesUp` allows this and shows that it passes.
- A reset that arrives after the client's end is ignored by the server, whose table
  has no such connection any more (`bridge.rs:446`), so data still queued for the visitor
  is not dropped; `docs/protocol.md:174` says `reset` aborts a connection.
- A link that comes up while an entry is read for the first time (`service.rs:534`)
  passes unnoticed: the generation is noted after the read. `service.rs:557-561` says
  that a link which came up makes a record be read again;
  `CacheFollows` excepts it (`raced`), `Reaches` shows that the TTL corrects it.
- A shutdown that cuts off the creation of a challenge record leaves that record to
  the sweep, which `Completes` shows to remove it. A sweep that read the leases before
  an attempt took an old record over may remove that record under the attempt;
  `Published` excepts it (`raced`), `Completes` shows that the job still ends.
- A process that dies in `remove_dir_all` (`storage.rs:167`) leaves a profile with some
  of its files; `Whole`, `Fits`, `NoneLost` and `Provisions` except it (`torn`).
- `remove` on a profile whose tunnel is pending removes the files and leaves the tunnel at
  the API: only a saved one is deleted there (`client.rs:187`). `client.rs:185` says
  "Deletes the tunnel on the server and removes local credentials"; `NoneLost` excepts it
  (`left`).
- A command that ends between its write and its Reload, or a pass that fails at a read
  (an `identity` or a file that cannot be read, an identity `connect` cannot use), leaves
  the daemon with the routes or the tunnel it had, or with none, until the next edit,
  Reload, hangup or start: a pass notes the file's time first (`daemon.rs:199`) and
  `check` compares nothing else (`daemon.rs:186`). `RoutesFollow` excepts it (`missed`).
- An `up` can leave a registered profile down: its unit is silent at the first look
  (`service.rs:99` of the CLI), answers at the one in `stop` (`:127`), is told to stop and
  ends without a failure; `enable --now` comes while it is still closing and does nothing.
  The command reports "background service did not start", but nothing starts it before the
  next login or `up`. `StaysUp` excepts it (`halted`), and a unit that a command which
  broke off had stopped, or written and not started.
- A connection number may be given again while the former owner's messages are on their
  way, or while it is carried without a place in the table (`service.rs:1790-1804` looks
  at the tables of the bridges only). It takes 2^32 connections in that time; `Accounted`
  and `Streams` say nothing after it (`clash`).

### Bounds

Two machines are enough for every race of this design: each protocol here is between
a machine and the database or between a pair. In `renewal` one machine suffices: the
races of two machines for a job are in `jobs` and `issuance`, and what is left is the
order of statements and their failures. One fault per part, of any kind and at any
step, is the bound of most runs; they have other sources of disturbance (retries, lease
ends, rebinding, links that overflow, sessions that end), and in `client` two faults
let a recovery be disturbed itself. Runs take one to four minutes, which is what these
numbers are chosen for.

- Jobs: `MaxAttempts` 1 gives a retry and a last attempt; `ATTEMPTS` 2 separates
  unknown errors from transient ones. `MaxRev` 3 lets a conflict be followed by
  another write. One tunnel suffices for alarms: what races is one row.
- Mesh: `LINK_QUEUE` is 2 in `network`, so that it overflows. Two links are the ones
  both sides dial; a third opens after one closed. A bridge is attached before the
  machines link, so that every snapshot says something.
- Channels: with 3 numbers, of which 0 is never used and another bridge may have one, a
  number is given again as soon as it is out of the table. `sharing` gives each visitor a number
  of its own, `reusing` both the same one: after the first is gone from both ends, or
  earlier, which ends the behaviour as a clash. In both the visitor whose target answers is
  routed first. `streaming` has one visitor whose stream is a ClientHello and a frame up,
  two frames down, so that an order and a gap are possible.
  Every budget, queue and the client's own limit is 1 or 2. Byte counts are frames. In
  `sharing` the idle timeout comes only as `Expired`; in the other two parts at any time.
- Rates: a burst of 2, an interval of 3 and a clock to 5 reach the boundary, the first
  insertion and a pruned row.
- ACME: a hostname and its wildcard share the record's name, which is what makes their
  records meet; `MaxGen` 4 authorizations of an identifier are more than an attempt's
  two orders need. Assumed: attempts of a job follow each other (`RunsOnce`), an attempt
  with the CA's check takes less than the sweep's age of an hour, one sweep at a time.
- API certificate: it begins with none, or with one that is due, served or not by each
  machine. `Wake` assumes that a pass's statements take less time than the pause
  between two passes. `MaxJobs` bounds the jobs' names. Two machines may both
  add a job; the model allows it.
- Routing: one edge, one route, at most one connection forwarded to a peer at a time;
  machines begin linked; the TTLs are one flag `old`, since only their order matters.
- Peer authentication: tables of two receivers do not meet, so one receiver checks;
  `MAX_NONCES` 2 with 3 requests overflows.
- Client: three keys and tunnels allow a re-key and a new tunnel after a removal; one
  edit can fall into each window of a daemon's pass, two make times collide. `MaxStops` 2
  lets a daemon be stopped while its supervisor backs off after a failed session, or a
  failed pass follow a command that broke off; after the second edit one such failure is
  left. One command runs at a time (the CLI has no lock for this; two commands that load
  and save the file at once lose an edit, as with any editor).

Machines are interchangeable in the safety runs that declare a symmetry; the liveness
runs use none. Deadlock checking is off where the bounded system may stop (all sessions
used up, all jobs ended).

### Fairness

Tokio runs every task that can go on: weak fairness of runner, attempt, link, notice,
reader and supervisor steps, of each machine and each peer by itself. The entry lock
is a fair mutex; a bridge takes it finitely often, so that weak fairness of `Attach` and
of closing is enough. Strong fairness is assumed twice: a cool-down ends, so passes of
the job runner without one come again (`StartRound`), and a machine's pass over the
API certificate begins again and again although `Wake` waits for the pass of the other
machine (`ServerWork`). The platform restarts machines, clocks
advance, dialers retry while a peer is in DNS, the CA answers in the end, records grow
old, the service manager restarts what failed, and a program that wants a tunnel calls
`ensure` again. An active tunnel's client reconnects again and again, as it does
whenever its server is deployed. Visitors come to the edge again and again, but neither
visitors nor targets of a connection are owed anything: they may stop reading or sending
for ever. No fault is ever forced.

## Proofs

The theorems hold for every value of the constants that satisfies the modules' named
assumptions (types and finiteness of the constants, and that the values standing for
"none" are not among the others). They are proofs about the specifications without fairness.
Each inductive invariant was model-checked before it was proved.

`JobLeasesProofs`, for every set of machines, certificates, slots and fault kinds
(`JobAssumption`):

- `TypeCorrect`: `Spec => []TypeOK`;
- `SlotInvariant`: `Spec => []SlotInv`, the inductive invariant;
- `SlotsNeverLeak`, `RenewalsKeepASlot`: `NoSlotLeak` and `SlotForRenewals`;
- `ResultsAreFenced`: the action property `FencedResults`;
- `JobsRunOnce`: `RunsOnce`.

`SlotInv` is `TypeOK` with three parts. `SlotsExact`: `running[m]` is exactly the
certificates of m's tasks and of its claim in progress. `OneTask`: a machine has
at most one task per certificate, and none for one it is claiming; it follows
from `SlotsExact` only as long as a job enters `running` before it is claimed.
`OwnerIsLatest`: when a row has an owner and that machine has a task for it, the
task's claim number is the row's. None is inductive alone: fencing names only the
machine, so a task of an earlier claim on the same machine has to be excluded,
which needs `OneTask`, which needs the slots. `OnceInv` adds, as long as there was no
fault, that a leased row's lease is live and its owner attempts it, and that a free row
was claimed once per failed attempt.

`IssuanceProofs`, for every set of machines, certificates and slots, and every fault
but `lease`, `hang` and `read` (`Calm`; with each of these a property fails, see *Known
disagreements*):

- `NoTunnelIsStuck`: `IssuanceSpec => []NeverStuck`;
- `OnlyUnwantedIsAbandoned`: the action property `AbandonedOnlyUnwanted`.

Record and job are two rows without a common transaction, and `NeverStuck` relates them.
`IssuanceInv` adds what holds in between. `Leased`: an attempt has its lease, and its job
is pending; with `OneTask` of `SlotInv` it is then the only attempt at that job in the
cluster. `Told`: an attempt that is about to end the job has settled what the record says
of its certificate, and one that found it unwanted is still right. `Known` and `RecordOK`:
certificates with a job or in the record were given out, so that no record comes to want
one again. `Change` lists what the service does to a record about a certificate, and
`RecordChanges` shows that this leaves what is settled or unwanted of every other one so.

`RecordsProofs`, for every set of machines, certificates and imports and any number of
unanswered statements (`NamesAssumption`, `RecordAssumption`):

- `WritesAreSound`: `Spec => []RecordInv`, the inductive invariant;
- `CachesAreTrue`: `CacheTrue`;
- `RecordsRefineTunnelRecord`: `Spec => AtomicRecord`, the refinement of
  `TunnelRecord` with `rec <- row.record`.

`RecordInv` adds two parts to types and `CacheTrue`. `OpsSound`: what an operation is
about to save is an operation on the record in its cache, and so is the undo it will
save if its job cannot be queued. `LateSound`: a statement without an answer whose
revision is still the row's is an operation on the row. With `CacheTrue` each write
that passes `WHERE revision = ?` is then one step of the abstract record.

`NetworkProofs`, of `Bridges`, for every set of machines and bridges and all routes
(`BridgeAssumption`):

- `BridgeInvariant`: `Spec => []BridgeInv`, the inductive invariant;
- `BridgeTypes`, `RoutesStayExclusive`: `TypeOK` and `RoutesExclusive`;
- `AttachedAreAnnounced`: the half of `AnnouncesTruth` that holds under every fault;
- `AnnouncedIsTrue`: `AnnouncesTruth`, where `forget` is not among the faults (with it
  the property fails, see *Known disagreements*).

`RoutesExclusive` is not inductive: between its check and its claim an attach waits
for other machines. `Locks` (an attach asks exactly while it holds its machine's
entry) excludes a second attach on the machine meanwhile, and `Exclusive` extends the
property to the one that asks. `TruthInv` adds that while a session lasts its machine has
the record at hand (`AtHand`), without which a retired bridge could not be withdrawn, and
that a machine is told to close only bridges of a deleted tunnel (`CloseIsTrue`).

`NetworkProofs`, of `Mesh`, for any machines, lives, addresses, links and length of the
queues (`MeshAssumption`):

- `TablesCatchUp`: `MeshSpec => []CatchesUp`.

`CatchesUp` is about links that were registered. `MeshInv` says of each direction of each
link (`WayOK`) what has to be true long before that. `TalkOK`: the hello comes first, and
the reader registers only with the life it says, which is that of the writer as long as the
writer is subscribed. `AheadOK`: while it is, the frames behind the hello lead to exactly
what the writer has attached (`Leads`), *whatever* record of that life the reader will
begin with, since what `register` keeps of an older link is not known yet; from `register`
on they lead there from the record there is (`Follows`). `LinkOK`, `EndOK` and `PeerOK` say
which tasks exist, that none outlives its process, and that a machine knows a peer by a
link on which its own task is up. So a change with its frame (`ChangeCarried`,
`LeavingCarried`), a snapshot (`SnapshotsLead`) and a frame read (`FinalTail`) each keep the
end of the queue where it is, a queue that is full unsubscribes the writer before anything
is missing, and the end of a task (`ShuttingKeeps`) leaves no subscribed writer behind.
What a queue comes to (`Final`) is a recursive function over its length; that it exists and
is unique is proved from the least number of a set of them (`LeastIs`, from the library's
theorem on minimal elements), which replaces the induction rule the provers cannot use.

`ChannelsProofs`, for any number of visitors, connection numbers and frames, and any
budgets, queue lengths and limits (`ChannelAssumption`):

- `StreamsAreWhole`: `ChannelsSpec => []Streams`;
- `SharesAreAccounted`: `ChannelsSpec => []Accounted`.

Both are of the form "until a number is given that is still spoken of": `clash` is set by
`Route` and never reset, and what is shown inductive is `clash \/ ChannelsInv`. The code
does not prevent a clash (see *Known disagreements*), so no theorem says there is none.
`ChannelsInv` consists of types, `Balanced` (what `Accounted` says) and four parts.
`Tables`: a connection is *spoken of* while it is active, served, with the bridge's reader
or in a message under way; no two of these have the same number, so that a number
finds the connection meant, or none. It covers every reuse of a number whose former owner
is spoken of no more, and `TablesRoute` is the one place where the absence of a clash is
used. `Phases`: which states of
the visitor, its two tasks, the readers and the client's task go together. `DownOK` and
`UpOK` put everything between a sender and its receiver in a row: what was taken, what is
held or waits with a reader (`Shape`: consecutive frames, then perhaps the end) and what
is in a queue shared with all other connections (`Ordered`: exactly the frames after
those, in order, the end behind them). Of these, only what the receiver took is in
`Streams`. In the direction of the visitor they hold as long as its connection is in the
table or its end was read (`EndRead`); a connection that is neither is to be torn down. In
the direction of the target they begin with the `open` that is still in the queue
(`Opening`, `OpenFirst`) and end with the client's task. Each action is then one of a few
cases: it leaves a row alone (`DownSame`, `UpSame`), moves a frame one place on, adds one,
or ends the row (`DownCut`, `UpStopped`).

`SharedProofs` (`QuotaAssumption`, `RenewalAssumption`, `AcmeAssumption`):

- `RateHolds`: `QuotaSpec => []WithinRate`, for every rate and number of requests. `Paid`:
  every request let through moved the row, or the rows before it, by an interval,
  and the row is never further ahead of the clock than a burst; the conditional UPDATE and
  INSERT make the row that is moved the one that was looked at.
- `RenewalsAreCovered`: `RenewalSpec => []Covered`. `Covered` is inductive with the
  types: an alarm is cleared only by the machine that then has it in `taken`.
- `CheckedIsPublished`: `AcmeSpec => []Published`, for any identifiers, authorizations,
  faults and incidents. `Published` is about the CA and the zone only. `AcmeInv` adds what
  the attempt knows: `Leased` and `Answerable` (it runs under the job's lease, and its
  records are those of authorizations it is to answer), `Shown` (it answers none whose
  record was not created), `Unsettled` (it counts every one of them the CA may be
  checking, and deletes no record before it saw that none is), and `Swept` (what a sweep
  is about to delete is old, or was taken over by the attempt since, which makes it
  `raced`).

`PublicProofs` (`ShutdownAssumption`, `RoutingAssumption`, `PeerAuthAssumption`):

- `DrainIsGraceful`: `ShutdownSpec => []DrainsGracefully`. `AheadOfDrain`: a bridge not
  told yet is in an entry the drain has still to look at, or among those it collected.
- `CachedAnswersFollow`: `RoutingSpec => []CacheFollows`. `ReadFollows` says of a read in
  progress what `CacheFollows` says of the cache: its answer is not behind, or what
  changed since is on its way, or the entry is marked when the answer is recorded.
- `RequestsAcceptedOnce`: `AuthSpec => []AcceptedOnce`. `Remembered`: a request that was
  accepted is in its machine's table, among the forgotten ones, or not fresh any more;
  pruning by the window drops nothing that `verify` would accept again.

`ClientProofs` (`LifecycleAssumption`, `ProfileAssumption`):

- `ServiceIsReached`: `LifecycleSpec => []Reached`. `OneHolds`: one process at most is
  between taking the lock and its end, so nobody else binds or removes the socket file.
- `FilesAreWhole`, `NoTunnelIsLost`, `CertificateFits`: `Whole`, `NoneLost` and `Fits` of
  `ProfileSpec`. `ProfileInv` says which tunnel and which key the profile is about and, for
  every step a process may be at, that the writes it has still to make are of that tunnel
  and key and complete what is on disk: each prefix of them can be the last (`Crash`).
  The three properties are about the disk and say nothing of the writes under way, so none
  is inductive.

`TypeCorrect`, `BridgeTypes` and the inductive invariants state results the runs do not
name; the runs check the properties that rest on them.

Only model-checked: all liveness, and with it `ServerCertificate` and `Reconcile`, whose
properties are all of that kind. Fairness and ENABLED are beyond the prover. Every invariant
that a passing run checks is also proved.

## Not modelled

- Byte-level work: SNI, PROXY protocol, WebSocket and frame encodings, DNS and CSR
  checks, signatures themselves.
- The owner's cool-down after CA errors (a pass of the job runner may find one or not)
  and the cached backlog of the limits: both only delay work.
- Metrics, analytics, logging, HTTP formatting and the website: nothing decides by them.
- Configuration and the migration of old data: start-up code without concurrency.
- Serving local HTTP targets in the client, log viewing and output of the CLI.
- The TypeScript client: a second implementation of the client's protocol; the Rust one
  is modelled.
- Load tests and examples.

### Simplifications inside the modelled parts

- `AcmeOrder`: the sweep is that of a provider that can list its records (Cloudflare). For
  one that cannot (`dns.rs:348-357`) nothing is swept; a record an attempt could not
  remove then stays, and of `Completes` only the issuance holds.
- `Issuance.Resume` has no upper age (`ORPHAN_MAX_AGE_MS`, `service.rs:1282`): issuance
  that waited longer than that without a job is taken up only by the client's next bind.
- `PeerAuth.Receive` reads the clock (`cluster.rs:171`) and records the nonce (`:182`) in
  one step, and the clock does not go back.
- `Shutdown.Respond` closes a connection after its request during the drain, as for
  HTTP/1.1; an HTTP/2 connection is kept (`http.rs:689-692`) and ends with the graceful
  shutdown that comes next.
- `Profile.Remove` comes when the service has stopped (the CLI stops it first, but returns
  when it no longer answers; the library's `remove` leaves that to its caller).
  `Profile.Check` compares the files of the moment of the check, the code the ones loaded
  before the request (`client.rs:143-162`); only a service that renews meanwhile makes a
  difference, and `ensure` then saves what it got.
- `Lifecycle`: the service manager behaves as systemd does (`enable --now` on a unit that is
  stopping does nothing, `disable --now` waits for its end, `Restart=on-failure`); launchd's
  `bootout` and `bootstrap` are not told apart. One command runs at a time.

## Plan

1. The cool-down: merge by maximum, reset after success.
2. A record that conflicts with a pending renewal in `Issuance` on two machines with
   failed reads, once a way around the known disagreement is in the code.
