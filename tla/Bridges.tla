------------------------------ MODULE Bridges ------------------------------
(***************************************************************************)
(* The bridges of one tunnel on every machine (service.rs, bridge.rs,      *)
(* cluster.rs): registering, attaching, going silent, closing, and the     *)
(* tunnel's deletion on one machine reaching the bridges on the others.    *)
(*                                                                         *)
(* A machine's entry lock covers each of these, also across an attach's    *)
(* questions to the machines whose bridges claim its routes.  The mesh is  *)
(* taken at its word (module Mesh): a linked machine's table follows what  *)
(* the other one announced, and a link that breaks loses events and table. *)
(***************************************************************************)
EXTENDS Naturals, FiniteSets

CONSTANTS
    Machine,            \* machine IDs
    Bridge,             \* bound: the bridge sessions there are
    On,                 \* the machine each bridge connects to
    Claims,             \* the routes each bridge attaches
    MAX_TUNNEL_ROUTES,  \* routes the tunnel's bridges on a machine may claim
    MayRemove,          \* machines a DELETE of the tunnel may reach
    FaultKinds,         \* the disturbances that may happen
    MaxFaults,          \* bound: how many of them
    NoBridge            \* the entry lock is free

ASSUME BridgeAssumption ==
    /\ On \in [Bridge -> Machine] /\ MayRemove \subseteq Machine
    /\ IsFiniteSet(Bridge) /\ NoBridge \notin Bridge
    /\ \A b \in Bridge : IsFiniteSet(Claims[b])
    /\ MAX_TUNNEL_ROUTES \in Nat /\ MaxFaults \in Nat
    /\ FaultKinds \subseteq {"read", "save", "ask", "link", "crash", "silence", "forget", "expel"}

VARIABLES
    deleted,    \* the tunnel's row says deleted
    \* per machine
    cached,     \* EntryState::record: "none" (not loaded), "live", "deleted"
    fresh,      \* it was read by this generation moments ago (ATTACH_REREAD_MS)
    backoff,    \* a read failed less than REFRESH_BACKOFF_MS ago
    holder,     \* the attach that holds the entry lock across its questions
    telling,    \* a remove that saved holds it until it told the others
    announced,  \* the bridges in the mesh's local table
    seen,       \* the mesh's table: bridges of each other machine
    news,       \* notices being acted on
    \* per bridge
    stage,      \* its session
    closing,    \* bridges the server closes (server_close)
    silent,     \* bridges whose client is gone without a close
    asks,       \* machines an attach still has to ask
    \* between machines
    linked,     \* pairs of machines with a mesh link
    told,       \* TunnelDeleted events on their way
    faults      \* history: disturbances so far

bridgeVars == <<stage, closing, silent, asks>>
cacheVars == <<cached, fresh, backoff>>
meshVars == <<announced, seen, linked, told>>
vars == <<deleted, cacheVars, holder, telling, news, bridgeVars, meshVars, faults>>

Stages == {"new", "open", "called", "asking", "attached", "retired", "gone"}
News == {"deleted", "reconcile", "listed", "close"}

Pairs == {{m, p} : m, p \in Machine}

Init ==
    /\ deleted = FALSE
    /\ cached = [m \in Machine |-> "none"]
    /\ fresh = [m \in Machine |-> FALSE]
    /\ backoff = [m \in Machine |-> FALSE]
    /\ holder = [m \in Machine |-> NoBridge]
    /\ telling = [m \in Machine |-> FALSE]
    /\ announced = [m \in Machine |-> {}]
    /\ seen = [m \in Machine |-> [p \in Machine |-> {}]]
    /\ news = [m \in Machine |-> {}]
    /\ stage = [b \in Bridge |-> "new"]
    /\ closing = {} /\ silent = {}
    /\ asks = [b \in Bridge |-> {}]
    /\ linked = {s \in Pairs : Cardinality(s) = 2}
    /\ told = {}
    /\ faults = 0

Fault(kind) ==
    /\ kind \in FaultKinds
    /\ faults < MaxFaults
    /\ faults' = faults + 1

Here(m) == {b \in Bridge : On[b] = m}
Registered(m) == {b \in Here(m) : stage[b] \notin {"new", "gone"}}
Live(m) == {b \in Here(m) : stage[b] = "attached"}
Free(m) == holder[m] = NoBridge /\ ~telling[m]
Overlap(b, bridges) == \E c \in bridges : Claims[b] \intersect Claims[c] # {}

Row == IF deleted THEN "deleted" ELSE "live"

-----------------------------------------------------------------------------
(* The record an operation sees.  `view` is "error" when there is none. *)

\* The entry is read from the database, and moments later still trusted.
Read(m, view) ==
    /\ view = Row
    /\ cached' = [cached EXCEPT ![m] = view]
    /\ fresh' = [fresh EXCEPT ![m] = TRUE]
    /\ UNCHANGED <<backoff, faults>>

Trusts(m, view) ==
    /\ cached[m] # "none" /\ view = cached[m]
    /\ UNCHANGED <<cacheVars, faults>>

\* lock_routable, lock: a loaded record is used as it is.  (One that says deleted
\* is read again after a while; the tunnel does not come back.)
LockRoutable(m, view) ==
    \/ Trusts(m, view)
    \/ cached[m] = "none" /\ Read(m, view)
    \/ cached[m] = "none" /\ Fault("read") /\ view = "error" /\ UNCHANGED cacheVars

\* lock_for_attach: read again unless that was done moments ago or a read failed
\* moments ago; a failed read falls back on the loaded record.
LockForAttach(m, view) ==
    LET trusted == cached[m] # "none" /\ (backoff[m] \/ fresh[m]) IN
    \/ trusted /\ Trusts(m, view)
    \/ ~trusted /\ Read(m, view)
    \/ /\ ~trusted /\ Fault("read")
       /\ IF cached[m] = "none" THEN view = "error" /\ UNCHANGED backoff
          ELSE view = cached[m] /\ backoff' = [backoff EXCEPT ![m] = TRUE]
       /\ UNCHANGED <<cached, fresh>>

FreshEnds(m) ==
    /\ fresh[m]
    /\ fresh' = [fresh EXCEPT ![m] = FALSE]
    /\ UNCHANGED <<deleted, cached, backoff, holder, telling, news, bridgeVars, meshVars, faults>>

BackoffEnds(m) ==
    /\ backoff[m]
    /\ backoff' = [backoff EXCEPT ![m] = FALSE]
    /\ UNCHANGED <<deleted, cached, fresh, holder, telling, news, bridgeVars, meshVars, faults>>

\* The entry is not loaded any more: an import (invalidate) or a write that met
\* another one (save).
Forget(m) ==
    /\ Free(m) /\ cached[m] # "none" /\ Fault("forget")
    /\ cached' = [cached EXCEPT ![m] = "none"]
    /\ fresh' = [fresh EXCEPT ![m] = FALSE]
    /\ UNCHANGED <<deleted, backoff, holder, telling, news, bridgeVars, meshVars>>

-----------------------------------------------------------------------------
(* Sessions. *)

\* register_bridge
Register(b) ==
    LET m == On[b] IN
    /\ stage[b] = "new" /\ Free(m)
    /\ \E view \in {"live", "deleted", "error"} :
         /\ LockRoutable(m, view)
         /\ stage' = [stage EXCEPT ![b] = IF view = "live" THEN "open" ELSE "gone"]
    /\ UNCHANGED <<deleted, holder, telling, news, closing, silent, asks, meshVars>>

\* The client's attach is read, while the server has not closed the session, and
\* waits for the entry.
Call(b) ==
    /\ stage[b] = "open" /\ b \notin closing
    /\ stage' = [stage EXCEPT ![b] = "called"]
    /\ UNCHANGED <<deleted, cacheVars, holder, telling, news, closing, silent, asks, meshVars, faults>>

\* The server closes the session: no attach came in time, or the client sent what
\* it must not.
Expel(b) ==
    /\ stage[b] \in {"open", "attached"} /\ b \notin closing
    /\ Fault("expel")
    /\ closing' = closing \union {b}
    /\ UNCHANGED <<deleted, cacheVars, holder, telling, news, stage, silent, asks, meshVars>>

\* The client vanishes without a close and is not heard of for STALE_BRIDGE_MS.
Silence(b) ==
    /\ stage[b] = "attached" /\ b \notin silent
    /\ Fault("silence")
    /\ silent' = silent \union {b}
    /\ UNCHANGED <<deleted, cacheVars, holder, telling, news, stage, closing, asks, meshVars>>

Stale(m) == Live(m) \intersect silent

\* retire_stale's effect on the stages, and on the mesh: only with the record at
\* hand are the others told.
Retired(m) == [c \in Bridge |-> IF c \in Stale(m) THEN "retired" ELSE stage[c]]
Untold(m, record) == IF record = "none" THEN announced[m] ELSE announced[m] \ Stale(m)

Sweep(m) ==
    /\ Free(m) /\ Stale(m) # {}
    /\ stage' = Retired(m)
    /\ closing' = closing \union Stale(m)
    /\ announced' = [announced EXCEPT ![m] = Untold(m, cached[m])]
    /\ UNCHANGED <<deleted, cacheVars, holder, telling, news, silent, asks, seen, linked, told, faults>>

\* What attach checks on this machine, once stale bridges are retired.
MayAttach(b) ==
    LET others == Live(On[b]) \ (Stale(On[b]) \union {b}) IN
    /\ ~Overlap(b, others)
    /\ Cardinality(UNION {Claims[c] : c \in others}) + Cardinality(Claims[b]) <= MAX_TUNNEL_ROUTES

\* Mutant of Attach: the entry lock is not held while other machines are asked.
AttachUnlocked(b) ==
    LET m == On[b] IN
    /\ stage[b] = "called" /\ Free(m)
    /\ LockForAttach(m, "live") /\ MayAttach(b)
    /\ stage' = [stage EXCEPT ![b] = "asking"]
    /\ asks' = [asks EXCEPT ![b] = {p \in Machine : Overlap(b, seen[m][p])}]
    /\ UNCHANGED <<deleted, holder, telling, news, closing, silent, meshVars>>

\* attach: the checks on this machine; then the machines whose bridges claim one
\* of the routes are asked.
Attach(b) ==
    LET m == On[b] IN
    /\ stage[b] = "called" /\ Free(m)
    /\ \E view \in {"live", "deleted", "error"} :
         /\ LockForAttach(m, view)
         /\ IF view # "live"
            THEN /\ closing' = closing \union {b}
                 /\ stage' = [stage EXCEPT ![b] = "open"]
                 /\ UNCHANGED <<announced, holder, asks>>
            ELSE /\ announced' = [announced EXCEPT ![m] = Untold(m, view)]
                 /\ IF MayAttach(b)
                    THEN /\ stage' = [Retired(m) EXCEPT ![b] = "asking"]
                         /\ closing' = closing \union Stale(m)
                         /\ holder' = [holder EXCEPT ![m] = b]
                         /\ asks' = [asks EXCEPT ![b] = {p \in Machine : Overlap(b, seen[m][p])}]
                    ELSE /\ stage' = [Retired(m) EXCEPT ![b] = "open"]
                         /\ closing' = closing \union Stale(m) \union {b}
                         /\ UNCHANGED <<holder, asks>>
    /\ UNCHANGED <<deleted, telling, news, silent, seen, linked, told>>

\* Machine p answers (held_routes): a live bridge there that claims a route and is
\* not closing is a conflict.
Ask(b, p) ==
    LET m == On[b]
        conflict == Overlap(b, Live(p) \ (Stale(p) \union closing))
    IN
    /\ stage[b] = "asking" /\ p \in asks[b]
    /\ {m, p} \in linked /\ Free(p)
    /\ announced' = [announced EXCEPT ![p] = Untold(p, cached[p])]
    /\ IF conflict
       THEN /\ stage' = [Retired(p) EXCEPT ![b] = "open"]
            /\ closing' = closing \union Stale(p) \union {b}
            /\ holder' = [holder EXCEPT ![m] = NoBridge]
            /\ asks' = [asks EXCEPT ![b] = {}]
       ELSE /\ stage' = Retired(p)
            /\ closing' = closing \union Stale(p)
            /\ asks' = [asks EXCEPT ![b] = @ \ {p}]
            /\ UNCHANGED holder
    /\ UNCHANGED <<deleted, cacheVars, telling, news, silent, seen, linked, told, faults>>

\* Mutant of AskFails: nobody stops waiting for a machine that is busy.
AskNeverTimesOut(b, p) ==
    /\ stage[b] = "asking" /\ p \in asks[b]
    /\ {On[b], p} \notin linked
    /\ asks' = [asks EXCEPT ![b] = @ \ {p}]
    /\ UNCHANGED <<deleted, cacheVars, holder, telling, news, stage, closing, silent, meshVars, faults>>

\* It cannot be asked (not linked), or does not answer within CONTROL_TIMEOUT (its
\* entry is locked, or the network fails): it does not count.
AskFails(b, p) ==
    /\ stage[b] = "asking" /\ p \in asks[b]
    /\ \/ ({On[b], p} \notin linked \/ ~Free(p)) /\ UNCHANGED faults
       \/ Fault("ask")
    /\ asks' = [asks EXCEPT ![b] = @ \ {p}]
    /\ UNCHANGED <<deleted, cacheVars, holder, telling, news, stage, closing, silent, meshVars>>

\* No machine holds the routes: the bridge is attached and announced.
Attached(b) ==
    LET m == On[b] IN
    /\ stage[b] = "asking" /\ asks[b] = {}
    /\ stage' = [stage EXCEPT ![b] = "attached"]
    /\ announced' = [announced EXCEPT ![m] = @ \union {b}]
    /\ holder' = [holder EXCEPT ![m] = NoBridge]
    /\ UNCHANGED <<deleted, cacheVars, telling, news, closing, silent, asks, seen, linked, told, faults>>

\* Mutant of Close: the other machines are not told.
CloseQuietly(b) ==
    /\ stage[b] \in {"open", "attached", "retired"} /\ Free(On[b])
    /\ stage' = [stage EXCEPT ![b] = "gone"]
    /\ UNCHANGED <<deleted, cacheVars, holder, telling, news, closing, silent, asks, meshVars, faults>>

\* bridge_closed: the client went, or a close the server sent is over (it ends the
\* session 5 s later in any case).
Close(b) ==
    LET m == On[b] IN
    /\ stage[b] \in {"open", "attached", "retired"} /\ Free(m)
    /\ stage' = [stage EXCEPT ![b] = "gone"]
    /\ announced' = [announced EXCEPT ![m] = IF stage[b] = "attached" THEN @ \ {b} ELSE @]
    /\ UNCHANGED <<deleted, cacheVars, holder, telling, news, closing, silent, asks, seen, linked, told, faults>>

-----------------------------------------------------------------------------
(* Deleting. *)

\* remove: the record is read again (or trusted, during an outage), the bridges here
\* close, the row is saved.  A save without an answer may have taken effect; then
\* nobody is told.  One that met another write (of the tunnel's certificate, say, or
\* another remove) took none.
Remove(m) ==
    /\ m \in MayRemove /\ Free(m)
    /\ "live" = IF cached[m] # "none" /\ backoff[m] THEN cached[m] ELSE Row
    /\ closing' = closing \union Registered(m)
    /\ \/ /\ ~deleted /\ deleted' = TRUE
          /\ cached' = [cached EXCEPT ![m] = "deleted"]
          /\ fresh' = [fresh EXCEPT ![m] = FALSE]
          /\ telling' = [telling EXCEPT ![m] = TRUE]
          /\ UNCHANGED faults
       \/ /\ ~deleted /\ Fault("save")
          /\ deleted' \in BOOLEAN
          /\ cached' = [cached EXCEPT ![m] = "live"]
          /\ fresh' = [fresh EXCEPT ![m] = cached[m] = "none"]
          /\ UNCHANGED telling
       \/ /\ (deleted /\ UNCHANGED faults) \/ Fault("forget")
          /\ cached' = [cached EXCEPT ![m] = "none"]
          /\ fresh' = [fresh EXCEPT ![m] = FALSE]
          /\ UNCHANGED <<deleted, telling>>
    /\ UNCHANGED <<backoff, holder, news, stage, silent, asks, meshVars>>

\* The event goes to every machine linked now.
TellDeleted(m) ==
    /\ telling[m]
    /\ telling' = [telling EXCEPT ![m] = FALSE]
    /\ told' = told \union {<<m, p>> : p \in {q \in Machine \ {m} : {m, q} \in linked}}
    /\ UNCHANGED <<deleted, cacheVars, holder, news, bridgeVars, announced, seen, linked, faults>>

Noticed(m, was, now) == news' = [news EXCEPT ![m] = (@ \ was) \union now]

HearDeleted(m, p) ==
    /\ <<p, m>> \in told
    /\ told' = told \ {<<p, m>>}
    /\ Noticed(m, {}, {"deleted"})
    /\ UNCHANGED <<deleted, cacheVars, holder, telling, bridgeVars, announced, seen, linked, faults>>

\* The database is asked whether the tunnel is deleted; an error ends the matter.
CheckDeleted(m, notice) ==
    /\ notice \in news[m] /\ notice \in {"deleted", "listed"}
    /\ \/ Noticed(m, {notice}, IF deleted THEN {"close"} ELSE {}) /\ UNCHANGED faults
       \/ Noticed(m, {notice}, {}) /\ Fault("read")
    /\ UNCHANGED <<deleted, cacheVars, holder, telling, bridgeVars, meshVars>>

\* close_deleted
CloseDeleted(m) ==
    /\ "close" \in news[m] /\ Free(m)
    /\ Noticed(m, {"close"}, {})
    /\ closing' = closing \union Registered(m)
    /\ cached' = [cached EXCEPT ![m] = "none"]
    /\ fresh' = [fresh EXCEPT ![m] = FALSE]
    /\ UNCHANGED <<deleted, backoff, holder, telling, stage, silent, asks, meshVars, faults>>

\* Mutant of List: a link that came up is not acted on.
ListNothing(m) ==
    /\ "reconcile" \in news[m]
    /\ Noticed(m, {"reconcile"}, {})
    /\ UNCHANGED <<deleted, cacheVars, holder, telling, bridgeVars, meshVars, faults>>

\* close_deleted_tunnels: some time after a link came up, the tunnels with an
\* attached bridge here are listed, to be checked.
List(m) ==
    /\ "reconcile" \in news[m] /\ Free(m)
    /\ Noticed(m, {"reconcile"}, IF Live(m) # {} THEN {"listed"} ELSE {})
    /\ UNCHANGED <<deleted, cacheVars, holder, telling, bridgeVars, meshVars, faults>>

-----------------------------------------------------------------------------
(* The mesh and the processes. *)

\* The table of m follows what p announced.
Follow(m, p) ==
    /\ {m, p} \in linked /\ m # p
    /\ seen[m][p] # announced[p]
    /\ seen' = [seen EXCEPT ![m][p] = announced[p]]
    /\ UNCHANGED <<deleted, cacheVars, holder, telling, news, bridgeVars, announced, linked, told, faults>>

\* What a machine forgets of the machines it lost.
Unlinked(links) ==
    /\ linked' = linked \ links
    /\ seen' = [m \in Machine |-> [p \in Machine |-> IF {m, p} \in links THEN {} ELSE seen[m][p]]]
    /\ told' = {e \in told : {e[1], e[2]} \notin links}

LinkDown(pair) ==
    /\ pair \in linked
    /\ Fault("link")
    /\ Unlinked({pair})
    /\ UNCHANGED <<deleted, cacheVars, holder, telling, news, bridgeVars, announced>>

\* A link comes up: cached answers are read again, a check is queued.
LinkUp(pair) ==
    /\ pair \in Pairs \ linked /\ Cardinality(pair) = 2
    /\ linked' = linked \union {pair}
    /\ fresh' = [m \in Machine |-> IF m \in pair THEN FALSE ELSE fresh[m]]
    /\ news' = [m \in Machine |-> IF m \in pair THEN news[m] \union {"reconcile"} ELSE news[m]]
    /\ UNCHANGED <<deleted, cached, backoff, holder, telling, bridgeVars, announced, seen, told, faults>>

\* The process dies and starts again with nothing.
Crash(m) ==
    /\ Fault("crash")
    /\ cached' = [cached EXCEPT ![m] = "none"]
    /\ fresh' = [fresh EXCEPT ![m] = FALSE]
    /\ backoff' = [backoff EXCEPT ![m] = FALSE]
    /\ holder' = [holder EXCEPT ![m] = NoBridge]
    /\ telling' = [telling EXCEPT ![m] = FALSE]
    /\ news' = [news EXCEPT ![m] = {}]
    /\ announced' = [announced EXCEPT ![m] = {}]
    /\ stage' = [b \in Bridge |-> IF b \in Registered(m) THEN "gone" ELSE stage[b]]
    /\ asks' = [b \in Bridge |-> IF On[b] = m THEN {} ELSE asks[b]]
    /\ Unlinked({pair \in linked : m \in pair})
    /\ UNCHANGED <<deleted, closing, silent>>

-----------------------------------------------------------------------------

Session(b) ==
    \/ Register(b) \/ Call(b) \/ Attach(b) \/ Attached(b)
    \/ Expel(b) \/ Silence(b) \/ Close(b)
    \/ \E p \in Machine : Ask(b, p) \/ AskFails(b, p)

Next ==
    \/ \E b \in Bridge : Session(b)
    \/ \E m \in Machine :
         \/ FreshEnds(m) \/ BackoffEnds(m) \/ Forget(m) \/ Sweep(m)
         \/ Remove(m) \/ TellDeleted(m) \/ CloseDeleted(m) \/ List(m)
         \/ \E notice \in News : CheckDeleted(m, notice)
         \/ \E p \in Machine : HearDeleted(m, p) \/ Follow(m, p)
         \/ Crash(m)
    \/ \E pair \in Pairs : LinkDown(pair) \/ LinkUp(pair)

Spec == Init /\ [][Next]_vars

\* The steps of an attach that holds the entry, of the tasks that act on notices, and
\* of those that need the entry for it.  Each step is one of finitely many.
Asking(b) == Attached(b) \/ \E p \in Machine : Ask(b, p) \/ AskFails(b, p)
Notices(m) ==
    \/ TellDeleted(m)
    \/ \E p \in Machine : HearDeleted(m, p)
    \/ \E notice \in News : CheckDeleted(m, notice)
Closing(m) == CloseDeleted(m) \/ List(m)

-----------------------------------------------------------------------------
(* Properties. *)

VarsOK ==
    /\ deleted \in BOOLEAN
    /\ cached \in [Machine -> {"none", "live", "deleted"}]
    /\ fresh \in [Machine -> BOOLEAN] /\ backoff \in [Machine -> BOOLEAN]
    /\ holder \in [Machine -> Bridge \union {NoBridge}]
    /\ telling \in [Machine -> BOOLEAN]
    /\ announced \in [Machine -> SUBSET Bridge]
    /\ seen \in [Machine -> [Machine -> SUBSET Bridge]]
    /\ news \in [Machine -> SUBSET News]
    /\ stage \in [Bridge -> Stages]
    /\ closing \subseteq Bridge /\ silent \subseteq Bridge
    /\ asks \in [Bridge -> SUBSET Machine]
    /\ linked \subseteq Pairs
    /\ told \subseteq Machine \X Machine
    /\ faults \in Nat

\* Every variable keeps its type, and only an attach that asks holds a lock.
TypeOK ==
    /\ VarsOK
    /\ \A m \in Machine : holder[m] # NoBridge => stage[holder[m]] = "asking"

\* What a machine announces is true: every attached bridge, and while the tunnel is
\* not deleted nothing else ("it announces `attached` before the client hears
\* `attached` and `detached` when the bridge closes or is retired as silent").
AnnouncesTruth ==
    \A m \in Machine :
        /\ Live(m) \subseteq announced[m]
        /\ deleted \/ announced[m] \subseteq Live(m)

\* No two attached bridges of one machine claim the same route, though an attach
\* waits for other machines between its check and its claim.
RoutesExclusive ==
    \A m \in Machine : \A b \in Live(m) : ~Overlap(b, Live(m) \ {b})

\* Every attach ends, also when two machines wait for each other's entry.
AttachEnds ==
    \A b \in Bridge : stage[b] \in {"called", "asking"} ~> stage[b] \notin {"called", "asking"}

\* Once the tunnel is deleted, no bridge stays attached on any machine ("a check
\* catches deletions made meanwhile", "Bridges attached to other machines close
\* too").
DeletedCloses == [](deleted => <>[](\A b \in Bridge : stage[b] # "attached"))
=============================================================================
