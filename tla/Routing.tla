------------------------------ MODULE Routing ------------------------------
(***************************************************************************)
(* Where a visitor's connection goes (route_tunnel of relay.rs; route and  *)
(* lock_routable of service.rs; forward and the internal listener of       *)
(* cluster.rs), for one route of one tunnel and the visitors of one        *)
(* machine, the edge.                                                      *)
(*                                                                         *)
(* The edge answers from its cached record, which other machines' events   *)
(* and new links make it read again, and forwards to the machine its mesh  *)
(* table names.  The mesh is taken at its word (module Mesh): a machine    *)
(* subscribes a link before it says hello, a link that breaks loses what   *)
(* it carried, and a registered link's table follows the other machine.    *)
(***************************************************************************)
EXTENDS Naturals, Sequences, FiniteSets

CONSTANTS
    Peer,               \* the other machines
    Edge,               \* the machine the visitors arrive at
    MaxRoutingFaults,   \* bound: links broken, answers lost or late
    MaxMoves,           \* bound: times the tunnel's client leaves a machine
    Nobody

ASSUME RoutingAssumption ==
    /\ IsFiniteSet(Peer) /\ Edge \notin Peer /\ Nobody \notin Peer \union {Edge}
    /\ MaxRoutingFaults \in Nat /\ MaxMoves \in Nat

VARIABLES
    row,        \* the tunnel in the database
    telling,    \* machines that wrote it and have the others still to tell
    unheard,    \* the last write got no answer, so nobody is told
    record,     \* the edge's entry: what it knows of the tunnel
    stale,      \* ... another machine said it changed
    old,        \* ... longer ago than the TTL in force (SAFETY_TTL_MS, shorter while the mesh is not complete)
    known,      \* ... the generation it was read in
    generation, \* Service::generation
    reading,    \* the database read that holds the entry lock
    expiring,   \* an `expire` waits for the entry lock
    notices,    \* what the mesh told the edge, in order
    queue,      \* each peer's link queue to the edge: none, not registered there yet, or read there
    carries,    \* peers whose queue has an event about the tunnel
    linked,     \* peers with a link in the edge's mesh
    table,      \* peers the edge's mesh table says hold the route
    attached,   \* the machine the tunnel's client is attached to
    moves,      \* history: times it left
    visitor,    \* the edge's visitor: its step, the machine it was sent to, and those tried
    forwarded,  \* each peer's forwarded connection: none, asked, carried, or refused
    mistakes,   \* history: faults
    raced       \* history: a link came up during the entry's first read

cache == <<record, stale, old, known, generation, reading, expiring, raced>>
mesh == <<notices, queue, carries, linked, table>>
client == <<attached, moves>>
serving == <<visitor, forwarded>>
routingVars == <<row, telling, unheard, cache, mesh, client, serving, mistakes>>

NotReading == [kind |-> "no", answer |-> "none", generation |-> 0]
NoVisitor == [step |-> "none", to |-> Nobody, tried |-> Nobody, attempts |-> 0]

\* The machines run and are linked; the tunnel is not created yet.
RoutingInit ==
    /\ row = "missing" /\ telling = {} /\ unheard = FALSE
    /\ record = "none" /\ stale = FALSE /\ old = FALSE /\ known = 0 /\ generation = 0
    /\ reading = NotReading /\ expiring = FALSE /\ raced = FALSE
    /\ notices = <<>> /\ queue = [p \in Peer |-> "read"] /\ carries = {} /\ linked = Peer /\ table = {}
    /\ attached = Nobody /\ moves = 0
    /\ visitor = NoVisitor /\ forwarded = [p \in Peer |-> "none"]
    /\ mistakes = 0

Mistake == mistakes < MaxRoutingFaults /\ mistakes' = mistakes + 1
Unlocked == reading = NotReading

-----------------------------------------------------------------------------
(* The tunnel changes: created, and its certificate ready.                 *)

Changed == IF row = "missing" THEN "pending" ELSE "ready"

\* A save on another machine, and one nobody learns of.
SaveAt(p) ==
    /\ row # "ready" /\ row' = Changed
    /\ \/ telling' = telling \union {p} /\ unheard' = FALSE /\ UNCHANGED mistakes
       \/ Mistake /\ unheard' = TRUE /\ UNCHANGED telling
    /\ UNCHANGED <<cache, mesh, client, serving>>

\* A save here, under the entry lock, of what was read again for it.
SaveHere ==
    /\ row # "ready" /\ Unlocked /\ row' = Changed
    /\ record' = row' /\ stale' = FALSE /\ old' = FALSE /\ known' = generation /\ raced' = FALSE
    /\ UNCHANGED <<telling, unheard, generation, reading, expiring, mesh, client, serving, mistakes>>

\* announce: to the links subscribed now.
Announce(p) ==
    /\ p \in telling /\ telling' = telling \ {p}
    /\ carries' = IF queue[p] # "none" THEN carries \union {p} ELSE carries
    /\ UNCHANGED <<row, unheard, cache, notices, queue, linked, table, client, serving, mistakes>>

-----------------------------------------------------------------------------
(* Links, as the edge sees them.                                           *)

Subscribe(p) ==
    /\ queue[p] = "none" /\ queue' = [queue EXCEPT ![p] = "new"]
    /\ UNCHANGED <<row, telling, unheard, cache, notices, carries, linked, table, client, serving, mistakes>>

LinkUp(p) ==
    /\ queue[p] = "new" /\ queue' = [queue EXCEPT ![p] = "read"]
    /\ linked' = linked \union {p} /\ notices' = Append(notices, "link_up")
    /\ UNCHANGED <<row, telling, unheard, cache, carries, table, client, serving, mistakes>>

Break(p) ==
    /\ queue[p] # "none" /\ Mistake
    /\ queue' = [queue EXCEPT ![p] = "none"] /\ carries' = carries \ {p}
    /\ UNCHANGED <<row, telling, unheard, cache, notices, linked, table, client, serving>>

LinkDown(p) ==
    /\ p \in linked /\ queue[p] = "none"
    /\ linked' = linked \ {p} /\ table' = table \ {p}
    /\ UNCHANGED <<row, telling, unheard, cache, notices, queue, carries, client, serving, mistakes>>

Hear(p) ==
    /\ queue[p] = "read" /\ p \in carries /\ carries' = carries \ {p}
    /\ notices' = Append(notices, "changed")
    /\ UNCHANGED <<row, telling, unheard, cache, queue, linked, table, client, serving, mistakes>>

\* The table follows what the peer announces.
Learn(p) ==
    LET follows == IF attached = p THEN table \union {p} ELSE table \ {p}
    IN /\ queue[p] = "read" /\ table # follows /\ table' = follows
       /\ UNCHANGED <<row, telling, unheard, cache, notices, queue, carries, linked, client, serving, mistakes>>

-----------------------------------------------------------------------------
(* The entry.                                                              *)

\* run_notices: an event expires the entry, a new link every entry.
Notice ==
    /\ notices # <<>> /\ notices' = Tail(notices)
    /\ IF Head(notices) = "changed" THEN expiring' = TRUE /\ UNCHANGED <<generation, raced>>
       ELSE /\ generation' = generation + 1 /\ UNCHANGED expiring
            /\ raced' = (raced \/ reading.kind = "lock")
    /\ UNCHANGED <<row, telling, unheard, record, stale, old, known, reading, queue, carries, linked, table,
                   client, serving, mistakes>>

Expire ==
    /\ expiring /\ Unlocked /\ expiring' = FALSE /\ stale' = (record # "none")
    /\ UNCHANGED <<row, telling, unheard, record, old, known, generation, reading, raced, mesh, client,
                   serving, mistakes>>

\* Mutant: a mesh that is complete is trusted for good.
NeverOld ==
    /\ record # "none" /\ Unlocked /\ ~old /\ linked # Peer /\ old' = TRUE
    /\ UNCHANGED <<row, telling, unheard, record, stale, known, generation, reading, expiring, raced, mesh,
                   client, serving, mistakes>>

Age ==
    /\ record # "none" /\ Unlocked /\ ~old /\ old' = TRUE
    /\ UNCHANGED <<row, telling, unheard, record, stale, known, generation, reading, expiring, raced, mesh,
                   client, serving, mistakes>>

\* lock_routable: which answers are used without being read again.
Trusts == ~stale /\ (record = "ready" \/ (known = generation /\ ~old))

\* `lock` on first use, or `refresh`, which notes the generation before it reads.
Reads(kind) == [kind |-> kind, answer |-> "none", generation |-> IF kind = "lock" THEN 0 ELSE generation]

BeginRead ==
    /\ visitor.step = "arrived" /\ Unlocked /\ ~(record # "none" /\ Trusts)
    /\ reading' = Reads(IF record = "none" THEN "lock" ELSE "refresh")
    /\ UNCHANGED <<row, telling, unheard, record, stale, old, known, generation, expiring, raced, mesh, client,
                   serving, mistakes>>

Query ==
    /\ ~Unlocked /\ reading.answer = "none" /\ reading' = [reading EXCEPT !.answer = row]
    /\ UNCHANGED <<row, telling, unheard, record, stale, old, known, generation, expiring, raced, mesh, client,
                   serving, mistakes>>

\* Mutant: a refresh too takes the generation of now.
EndReadLate ==
    /\ reading.answer # "none" /\ reading' = NotReading
    /\ record' = reading.answer /\ stale' = FALSE /\ old' = FALSE /\ known' = generation
    /\ raced' = (raced /\ reading.kind = "lock")
    /\ visitor' = [visitor EXCEPT !.step = "route"]
    /\ UNCHANGED <<row, telling, unheard, generation, expiring, mesh, client, forwarded, mistakes>>

\* The answer is recorded, and the visitor goes on; a first read takes the generation of now.
EndRead ==
    /\ reading.answer # "none" /\ reading' = NotReading
    /\ record' = reading.answer /\ stale' = FALSE /\ old' = FALSE
    /\ known' = (IF reading.kind = "lock" THEN generation ELSE reading.generation)
    /\ raced' = (raced /\ reading.kind = "lock")
    /\ visitor' = [visitor EXCEPT !.step = "route"]
    /\ UNCHANGED <<row, telling, unheard, generation, expiring, mesh, client, forwarded, mistakes>>

\* The database does not answer: the cached record is used, or the visitor fails.
ReadFails ==
    /\ ~Unlocked /\ Mistake /\ reading' = NotReading /\ raced' = (raced /\ record # "none")
    /\ visitor' = (IF record = "none" THEN NoVisitor ELSE [visitor EXCEPT !.step = "route"])
    /\ UNCHANGED <<row, telling, unheard, record, stale, old, known, generation, expiring, mesh, client,
                   forwarded>>

\* collect_idle: an entry nobody uses, not read for a while.
Collect ==
    /\ record # "none" /\ Unlocked /\ old /\ visitor = NoVisitor /\ attached # Edge /\ ~expiring
    /\ record' = "none" /\ stale' = FALSE /\ raced' = FALSE /\ old' = FALSE /\ known' = 0
    /\ UNCHANGED <<row, telling, unheard, generation, reading, expiring, mesh, client, serving, mistakes>>

-----------------------------------------------------------------------------
(* The tunnel's client.                                                    *)

AttachAt(p) ==
    /\ row = "ready" /\ attached = Nobody /\ attached' = p
    /\ UNCHANGED <<row, telling, unheard, cache, mesh, moves, serving, mistakes>>

\* Attached here, the record was read again for it.
AttachHere ==
    /\ row = "ready" /\ attached = Nobody /\ Unlocked /\ attached' = Edge
    /\ record' = row /\ stale' = FALSE /\ old' = FALSE /\ known' = generation /\ raced' = FALSE
    /\ UNCHANGED <<row, telling, unheard, generation, reading, expiring, mesh, moves, serving, mistakes>>

Detach ==
    /\ attached # Nobody /\ moves < MaxMoves /\ moves' = moves + 1 /\ attached' = Nobody
    /\ UNCHANGED <<row, telling, unheard, cache, mesh, serving, mistakes>>

-----------------------------------------------------------------------------
(* A visitor.                                                              *)

\* connection, up to its ClientHello.
Arrive ==
    /\ visitor = NoVisitor /\ visitor' = [NoVisitor EXCEPT !.step = "arrived"]
    /\ UNCHANGED <<row, telling, unheard, cache, mesh, client, forwarded, mistakes>>

TrustRecord ==
    /\ visitor.step = "arrived" /\ Unlocked /\ record # "none" /\ Trusts
    /\ visitor' = [visitor EXCEPT !.step = "route"]
    /\ UNCHANGED <<row, telling, unheard, cache, mesh, client, forwarded, mistakes>>

\* route, and what route_tunnel does with it: carried here, sent on, or rejected.
Route ==
    /\ visitor.step = "route"
    /\ visitor' = [visitor EXCEPT !.step = IF record # "ready" THEN "rejected"
                                           ELSE IF attached = Edge THEN "carried" ELSE "look"]
    /\ UNCHANGED <<row, telling, unheard, cache, mesh, client, forwarded, mistakes>>

\* forward: two attempts, the second at another machine.
Forward ==
    /\ visitor.step = "look"
    /\ \/ /\ visitor.attempts = 2 \/ table \ {visitor.tried} = {}
          /\ visitor' = [visitor EXCEPT !.step = "rejected"] /\ UNCHANGED forwarded
       \/ /\ visitor.attempts < 2
          /\ \E p \in table \ {visitor.tried} :
               /\ forwarded' = [forwarded EXCEPT ![p] = "asked"]
               /\ visitor' = [visitor EXCEPT !.step = "open", !.to = p, !.attempts = @ + 1]
    /\ UNCHANGED <<row, telling, unheard, cache, mesh, client, mistakes>>

\* internal_connection: refused without the bridge, or from a machine without a link.
Answer(p) ==
    /\ forwarded[p] = "asked"
    /\ \/ attached = p /\ queue[p] # "none" /\ forwarded' = [forwarded EXCEPT ![p] = "carried"] /\ UNCHANGED mistakes
       \/ /\ \/ (attached # p \/ queue[p] # "read") /\ UNCHANGED mistakes
             \/ Mistake
          /\ forwarded' = [forwarded EXCEPT ![p] = "refused"]
    /\ UNCHANGED <<row, telling, unheard, cache, mesh, client, visitor>>

\* Accepted: the edge splices.  Refused: it looks again.
Opened ==
    LET p == visitor.to
    IN /\ visitor.step = "open" /\ forwarded[p] \in {"carried", "refused"}
       /\ IF forwarded[p] = "carried"
          THEN visitor' = [visitor EXCEPT !.step = "spliced"] /\ UNCHANGED forwarded
          ELSE /\ visitor' = [visitor EXCEPT !.step = "look", !.tried = p, !.to = Nobody]
               /\ forwarded' = [forwarded EXCEPT ![p] = "none"]
       /\ UNCHANGED <<row, telling, unheard, cache, mesh, client, mistakes>>

\* No answer within ACK_TIMEOUT, or no connection: the socket is dropped.  The peer may accept it yet, and
\* has then a visitor that left (module Channels: Refuse, or UploadEnd, UploadError and Idle).
OpenFails ==
    /\ visitor.step = "open" /\ Mistake
    /\ visitor' = [visitor EXCEPT !.step = "look", !.tried = visitor.to, !.to = Nobody]
    /\ forwarded' = [forwarded EXCEPT ![visitor.to] = "none"]
    /\ UNCHANGED <<row, telling, unheard, cache, mesh, client>>

\* The bridge went: the connection is reset there, and splice ends.
ForwardedEnds(p) ==
    /\ forwarded[p] = "carried" /\ attached # p /\ visitor.step = "spliced" /\ visitor.to = p
    /\ forwarded' = [forwarded EXCEPT ![p] = "none"] /\ visitor' = NoVisitor
    /\ UNCHANGED <<row, telling, unheard, cache, mesh, client, mistakes>>

\* splice ends, or the visitor carried here does, or one rejected is closed.
Leave ==
    /\ visitor.step \in {"carried", "spliced", "rejected"} /\ visitor' = NoVisitor
    /\ forwarded' = [p \in Peer |-> IF p = visitor.to THEN "none" ELSE forwarded[p]]
    /\ UNCHANGED <<row, telling, unheard, cache, mesh, client, mistakes>>

-----------------------------------------------------------------------------
\* The tunnel is created, gets its certificate and its client, and the machines tell each other.
Background ==
    \/ SaveHere \/ AttachHere \/ Notice \/ Expire
    \/ \E p \in Peer : SaveAt(p) \/ AttachAt(p) \/ Announce(p)
                      \/ Subscribe(p) \/ LinkUp(p) \/ LinkDown(p) \/ Hear(p) \/ Learn(p)
VisitorSteps == Arrive \/ TrustRecord \/ BeginRead \/ Query \/ EndRead \/ Route \/ Forward \/ Opened \/ Leave
PeerSteps(p) == Answer(p) \/ ForwardedEnds(p)

RoutingNext ==
    \/ Background \/ VisitorSteps \/ Age \/ Collect
    \/ Detach \/ ReadFails \/ OpenFails \/ \E p \in Peer : PeerSteps(p) \/ Break(p)

RoutingSpec == RoutingInit /\ [][RoutingNext]_routingVars

-----------------------------------------------------------------------------
\* What makes the edge read an answer again: it was not told yet, or is about to act on what it was told.
Awaited == telling # {} \/ carries # {} \/ notices # <<>> \/ expiring \/ \E p \in Peer : queue[p] # "read"

\* lock_routable trusts no answer that is behind the database, however events, lost links, new ones and
\* reads overlap: only for as long as what changed is on its way, or when nobody learnt of it.
\* (One gap is known, `raced`: a link that comes up during an entry's first read.)
CacheFollows ==
    record \in {"missing", "pending"} /\ record # row /\ Trusts => Awaited \/ unheard \/ raced

============================================================================
