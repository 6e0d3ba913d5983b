-------------------------------- MODULE Mesh --------------------------------
(***************************************************************************)
(* The mesh of opentunnel-server (mesh.rs): every machine announces the    *)
(* bridges attached to it over TCP links, and keeps a table of the bridges *)
(* of every machine it is linked with.                                     *)
(*                                                                         *)
(* A link starts with a hello of each side, then a snapshot of the         *)
(* sender's bridges, then numbered changes.  Both machines of a pair dial, *)
(* so two links may come up at once; machines restart, leave, fall behind  *)
(* and lose links.  Frames of one link and direction arrive in order, or   *)
(* the link ends.                                                          *)
(***************************************************************************)
EXTENDS Naturals, Sequences, FiniteSets

CONSTANTS
    Node,     \* machine IDs
    Lives,       \* bound: (started_at, epoch) of a process, in their order
    Address,     \* the address of each machine in each of its lives
    LINK_QUEUE,  \* frames that may wait on a link
    Link,        \* bound: links that may be open at once
    NoLink,      \* no link
    First,       \* bound: the lives the machines may begin in
    Before,      \* bound: bridges each machine has before it has a link
    MaxChanges,  \* bound: bridges that attach or detach later
    MaxTroubles, \* bound: links that fail on their own, crashes and shutdowns
    MayEnd       \* bound: the machines that may crash or shut down

ASSUME MeshAssumption ==
    /\ Lives \subseteq Nat \ {0}
    /\ Address \in [Node -> [Lives -> Nat]]
    /\ LINK_QUEUE \in Nat \ {0, 1}
    /\ NoLink \notin Link
    /\ First \subseteq [Node -> Lives] /\ Before \in [Node -> Nat]
    /\ {MaxChanges, MaxTroubles} \subseteq Nat
    /\ MayEnd \subseteq Node

VARIABLES
    \* processes
    life,      \* the life of each machine, 0 when it is down
    lived,     \* history: its lives so far
    leaving,   \* "no", "draining" (the flag is set), "told" (peers were told)
    changes,   \* history: bridges that attached or detached
    troubles,  \* history: links that failed, crashes and shutdowns
    \* Local: the machine's own table
    seq,       \* changes announced
    entries,   \* bridges attached
    \* Remote: what it knows of its peers
    peer,      \* peers
    index,     \* index
    \* links
    dialed,    \* who dialed each link, to whom
    end,       \* the task of each machine on the link
    wire       \* frames on their way to each machine, queued ones included

processVars == <<life, lived, leaving, troubles>>
localVars == <<seq, entries, changes>>
remoteVars == <<peer, index>>
linkVars == <<dialed, end, wire>>
nodeVars == <<processVars, localVars, remoteVars, linkVars>>

-----------------------------------------------------------------------------

NoPeer == [link |-> NoLink, life |-> 0, dialer |-> 0, draining |-> FALSE,
           seq |-> 0, entries |-> {}, open |-> FALSE]

\* A task on a link: how far it is, whether it is in Local::links, whether its token
\* is cancelled, and the life and draining flag of the hello it read.
NoEnd == [stage |-> "none", subscribed |-> FALSE, cancelled |-> FALSE,
          life |-> 0, draining |-> FALSE]

Unused == <<>>

MeshInit ==
    /\ life \in First /\ lived = [m \in Node |-> {life[m]}]
    /\ leaving = [m \in Node |-> "no"]
    /\ changes = 0 /\ troubles = 0
    /\ seq = Before
    /\ entries = [m \in Node |-> {<<life[m], n>> : n \in 1..Before[m]}]
    /\ peer = [m \in Node |-> [p \in Node |-> NoPeer]]
    /\ index = [m \in Node |-> {}]
    /\ dialed = [l \in Link |-> Unused]
    /\ end = [l \in Link |-> [m \in Node |-> NoEnd]]
    /\ wire = [l \in Link |-> [m \in Node |-> <<>>]]

\* Frames: a bridge stands for its entry.
Hello(m) == [type |-> "hello", life |-> life[m], draining |-> leaving[m] # "no"]
Snapshot(m, n, part, more) == [type |-> "snapshot", life |-> life[m], seq |-> n, entries |-> part, more |-> more]
SnapshotPart(part) == [type |-> "part", entries |-> part, more |-> FALSE]
Announced(type, m, bridge) == [type |-> type, seq |-> seq[m] + 1, bridge |-> bridge]
Leaving == [type |-> "leaving"]

Joins(l, m) == dialed[l] # Unused /\ m \in {dialed[l][1], dialed[l][2]}
Other(l, m) == IF dialed[l][1] = m THEN dialed[l][2] ELSE dialed[l][1]

-----------------------------------------------------------------------------
(* This machine's entries. *)

Waits(l, m) == Len(SelectSeq(wire[l][m], LAMBDA f : f.type # "hello"))

\* Mutant of Broadcast: a full queue drops the frame and keeps the link.
BroadcastDrops(m, frame) ==
    LET full(l) == Waits(l, Other(l, m)) >= LINK_QUEUE IN
    /\ wire' = [l \in Link |->
         IF Joins(l, m) /\ end[l][m].subscribed /\ ~full(l)
         THEN [wire[l] EXCEPT ![Other(l, m)] = Append(@, frame)]
         ELSE wire[l]]
    /\ UNCHANGED <<end, dialed>>

\* broadcast: a link whose queue is full is dropped and cancelled.
Broadcast(m, frame) ==
    LET full(l) == Waits(l, Other(l, m)) >= LINK_QUEUE IN
    /\ wire' = [l \in Link |->
         IF Joins(l, m) /\ end[l][m].subscribed /\ ~full(l)
         THEN [wire[l] EXCEPT ![Other(l, m)] = Append(@, frame)]
         ELSE wire[l]]
    /\ end' = [l \in Link |->
         IF Joins(l, m) /\ end[l][m].subscribed /\ full(l)
         THEN [end[l] EXCEPT ![m].subscribed = FALSE, ![m].cancelled = TRUE]
         ELSE end[l]]
    /\ UNCHANGED dialed

Change == changes < MaxChanges /\ changes' = changes + 1

\* A bridge attached here; its ID is unique in the life.
TellAttached(m) ==
    LET bridge == <<life[m], seq[m] + 1>> IN
    /\ life[m] # 0 /\ Change
    /\ seq' = [seq EXCEPT ![m] = @ + 1]
    /\ entries' = [entries EXCEPT ![m] = @ \union {bridge}]
    /\ Broadcast(m, Announced("attached", m, bridge))
    /\ UNCHANGED <<processVars, remoteVars>>

TellDetached(m, bridge) ==
    /\ Change
    /\ bridge \in entries[m]
    /\ seq' = [seq EXCEPT ![m] = @ + 1]
    /\ entries' = [entries EXCEPT ![m] = @ \ {bridge}]
    /\ Broadcast(m, Announced("detached", m, bridge))
    /\ UNCHANGED <<processVars, remoteVars>>

Trouble == troubles < MaxTroubles /\ troubles' = troubles + 1

\* leave: the flag is set, then the peers linked now are told.
SetDraining(m) ==
    /\ m \in MayEnd /\ life[m] # 0 /\ leaving[m] = "no" /\ Trouble
    /\ leaving' = [leaving EXCEPT ![m] = "draining"]
    /\ UNCHANGED <<life, lived, localVars, remoteVars, linkVars>>

TellLeaving(m) ==
    /\ leaving[m] = "draining"
    /\ leaving' = [leaving EXCEPT ![m] = "told"]
    /\ Broadcast(m, Leaving)
    /\ UNCHANGED <<life, lived, troubles, localVars, remoteVars>>

\* The frames of a snapshot: one, or as many as its size takes.
Snapshots(m) ==
    {<<Snapshot(m, seq[m], entries[m], FALSE)>>}
      \union {<<Snapshot(m, seq[m], part, TRUE), SnapshotPart(entries[m] \ part)>> :
                part \in SUBSET entries[m] \ {{}, entries[m]}}

\* subscribe: the link's queue starts with a snapshot.
Subscribe(l, m, p) ==
    \E frames \in Snapshots(m) :
        wire' = [wire EXCEPT ![l][p] = @ \o frames]

-----------------------------------------------------------------------------
(* Links. *)

\* The address p has now is that of a link of m.
Linked(m, p) == peer[m][p] # NoPeer /\ Address[p][peer[m][p].life] = Address[p][life[p]]

\* dial: the two tasks of a connection, once both proved themselves.  The dialer goes
\* on to link().
Connected(m, p) ==
    [q \in Node |->
        CASE q = m -> [NoEnd EXCEPT !.stage = "opening", !.subscribed = TRUE]
          [] q = p -> [NoEnd EXCEPT !.stage = "waiting"]
          [] OTHER -> NoEnd]

\* dial_loop: an address that is not linked and not being dialed.
Dial(l, m, p) ==
    /\ life[m] # 0 /\ life[p] # 0 /\ m # p
    /\ dialed[l] = Unused
    /\ ~Linked(m, p)
    /\ \A k \in Link : dialed[k] = <<m, p>> => end[k][m].stage = "closed"
    /\ dialed' = [dialed EXCEPT ![l] = <<m, p>>]
    /\ end' = [end EXCEPT ![l] = Connected(m, p)]
    /\ Subscribe(l, m, p)
    /\ UNCHANGED <<processVars, localVars, remoteVars>>

\* The acceptor goes on to link() too.
Accept(l, m) ==
    /\ end[l][m].stage = "waiting"
    /\ end' = [end EXCEPT ![l][m].stage = "opening", ![l][m].subscribed = TRUE]
    /\ Subscribe(l, m, Other(l, m))
    /\ UNCHANGED <<processVars, localVars, remoteVars, dialed>>

\* The hello is written before anything of the queue.
SayHello(l, m) ==
    /\ end[l][m].stage = "opening"
    /\ end' = [end EXCEPT ![l][m].stage = "greeting"]
    /\ wire' = [wire EXCEPT ![l][Other(l, m)] = <<Hello(m)>> \o @]
    /\ UNCHANGED <<processVars, localVars, remoteVars, dialed>>

\* The peer's hello is read; its address is checked while other links go on.
ReadHello(l, m) ==
    /\ end[l][m].stage = "greeting"
    /\ wire[l][m] # <<>> /\ Head(wire[l][m]).type = "hello"
    /\ end' = [end EXCEPT ![l][m].stage = "checking",
                          ![l][m].life = Head(wire[l][m]).life,
                          ![l][m].draining = Head(wire[l][m]).draining]
    /\ wire' = [wire EXCEPT ![l][m] = Tail(@)]
    /\ UNCHANGED <<processVars, localVars, remoteVars, dialed>>

Dialer(l, m) ==
    IF dialed[l][1] = m THEN Address[m][life[m]] ELSE Address[Other(l, m)][end[l][m].life]

\* Mutant of Wins: each side prefers the link it dialed.
WinsOwn(l, m, known) == dialed[l][1] = m

\* register's choice between a new link and the one there is: never another
\* address; then the newer life, the lower dialer, the newer link.
Wins(l, m, known) ==
    LET p == Other(l, m)
        hello == end[l][m]
    IN /\ Address[p][known.life] = Address[p][hello.life]
       /\ IF hello.life # known.life THEN hello.life > known.life
          ELSE Dialer(l, m) <= known.dialer

Indexed(p, bridges) == {p} \X bridges

\* What a new link keeps of the old one's entries: those of the same life.
Kept(l, m, known) == IF known.life = end[l][m].life THEN known.entries ELSE {}

RegisterLink(l, m) ==
    LET p == Other(l, m)
        known == peer[m][p]
        kept == Kept(l, m, known)
    IN
    /\ end[l][m].stage = "checking"
    /\ known # NoPeer => Wins(l, m, known)
    /\ peer' = [peer EXCEPT ![m][p] =
                  [link |-> l, life |-> end[l][m].life, dialer |-> Dialer(l, m),
                   draining |-> end[l][m].draining, seq |-> 0, entries |-> kept,
                   open |-> FALSE]]
    /\ index' = [index EXCEPT ![m] = (@ \ Indexed(p, known.entries)) \union Indexed(p, kept)]
    /\ end' = [k \in Link |->
                 CASE k = l -> [end[l] EXCEPT ![m].stage = "up"]
                   [] k = known.link -> [end[k] EXCEPT ![m].cancelled = TRUE]
                   [] OTHER -> end[k]]
    /\ UNCHANGED <<processVars, localVars, dialed, wire>>

-----------------------------------------------------------------------------
(* The end of a link. *)

\* link_down: only the link the peer is known by takes its entries along.
LinkLost(l, m) ==
    LET p == Other(l, m) IN
    IF peer[m][p].link = l
    THEN /\ peer' = [peer EXCEPT ![m][p] = NoPeer]
         /\ index' = [index EXCEPT ![m] = @ \ Indexed(p, peer[m][p].entries)]
    ELSE UNCHANGED remoteVars

\* What m has written to p when its task ends: until it was up, nothing but its hello,
\* which is ahead of what is queued.
Flushed(l, m, p) ==
    CASE end[l][m].stage = "up" -> wire[l][p]
      [] end[l][m].stage # "up" /\ wire[l][p] # <<>> /\ Head(wire[l][p]).type = "hello" -> <<Head(wire[l][p])>>
      [] OTHER -> <<>>

\* The task of machine m ends.
CloseLink(l, m) ==
    LET p == Other(l, m) IN
    IF end[l][p].stage = "closed"
    THEN /\ dialed' = [dialed EXCEPT ![l] = Unused]
         /\ end' = [end EXCEPT ![l] = [q \in Node |-> NoEnd]]
         /\ wire' = [wire EXCEPT ![l] = [q \in Node |-> <<>>]]
    ELSE /\ end' = [end EXCEPT ![l][m] = [NoEnd EXCEPT !.stage = "closed"]]
         /\ wire' = [wire EXCEPT ![l] = [wire[l] EXCEPT ![m] = <<>>, ![p] = Flushed(l, m, p)]]
         /\ UNCHANGED dialed

EndHere(l, m) == LinkLost(l, m) /\ CloseLink(l, m) /\ UNCHANGED <<life, lived, leaving, localVars>>

Runs(l, m) == Joins(l, m) /\ end[l][m].stage \notin {"none", "closed"}

\* A duplicate link.
RefuseLink(l, m) ==
    /\ end[l][m].stage = "checking"
    /\ peer[m][Other(l, m)] # NoPeer /\ ~Wins(l, m, peer[m][Other(l, m)])
    /\ EndHere(l, m) /\ UNCHANGED troubles

\* The other side ended the link, or a token was cancelled.
Hangup(l, m) ==
    /\ Runs(l, m)
    /\ \/ end[l][Other(l, m)].stage = "closed"
       \/ end[l][m].stage = "up" /\ end[l][m].cancelled
    /\ EndHere(l, m) /\ UNCHANGED troubles

\* The network failed, or nothing came for too long.
Cut(l, m) ==
    /\ Runs(l, m)
    /\ Trouble
    /\ EndHere(l, m)

-----------------------------------------------------------------------------
(* Frames. *)

Bailed == NoPeer

\* apply: what a frame makes of a peer, Bailed when it ends the link.
Applied(known, frame) ==
    LET unless(draining, bridges) == IF draining THEN {} ELSE bridges IN
    IF known = Bailed THEN Bailed ELSE
    CASE frame.type = "snapshot" /\ frame.life = known.life ->
           [known EXCEPT !.seq = frame.seq, !.open = frame.more,
                         !.entries = unless(known.draining, frame.entries)]
      [] frame.type = "part" /\ known.open ->
           [known EXCEPT !.open = frame.more,
                         !.entries = @ \union unless(known.draining, frame.entries)]
      [] frame.type = "attached" /\ ~known.open /\ frame.seq = known.seq + 1 ->
           [known EXCEPT !.seq = frame.seq,
                         !.entries = @ \union unless(known.draining, {frame.bridge})]
      [] frame.type = "detached" /\ frame.seq = known.seq + 1 ->
           [known EXCEPT !.seq = frame.seq, !.entries = @ \ {frame.bridge}]
      [] frame.type = "leaving" -> [known EXCEPT !.draining = TRUE, !.entries = {}]
      [] OTHER -> Bailed

Readable(l, m) ==
    /\ end[l][m].stage = "up" /\ wire[l][m] # <<>>
    /\ end[l][Other(l, m)].stage \in {"up", "closed"}

Apply(l, m) ==
    LET p == Other(l, m)
        after == Applied(peer[m][p], Head(wire[l][m]))
    IN
    /\ Readable(l, m)
    /\ peer[m][p].link = l /\ after # Bailed
    /\ peer' = [peer EXCEPT ![m][p] = after]
    /\ index' = [index EXCEPT ![m] = (@ \ Indexed(p, peer[m][p].entries))
                                        \union Indexed(p, after.entries)]
    /\ wire' = [wire EXCEPT ![l][m] = Tail(@)]
    /\ UNCHANGED <<processVars, localVars, dialed, end>>

\* The link was replaced, or the frame does not fit.
Bail(l, m) ==
    /\ Readable(l, m)
    /\ \/ peer[m][Other(l, m)].link # l
       \/ Applied(peer[m][Other(l, m)], Head(wire[l][m])) = Bailed
    /\ EndHere(l, m) /\ UNCHANGED troubles

-----------------------------------------------------------------------------
(* Processes. *)

\* The process is gone: its tasks end, what they wrote may still be read.
Die(m) ==
    /\ life' = [life EXCEPT ![m] = 0]
    /\ leaving' = [leaving EXCEPT ![m] = "no"]
    /\ seq' = [seq EXCEPT ![m] = 0]
    /\ entries' = [entries EXCEPT ![m] = {}]
    /\ UNCHANGED changes
    /\ peer' = [peer EXCEPT ![m] = [p \in Node |-> NoPeer]]
    /\ index' = [index EXCEPT ![m] = {}]
    /\ LET gone(l) == Joins(l, m) /\ end[l][Other(l, m)].stage = "closed"
       IN /\ dialed' = [l \in Link |-> IF gone(l) THEN Unused ELSE dialed[l]]
          /\ end' = [l \in Link |->
               IF gone(l) THEN [q \in Node |-> NoEnd]
               ELSE IF Joins(l, m) THEN [end[l] EXCEPT ![m] = [NoEnd EXCEPT !.stage = "closed"]]
               ELSE end[l]]
          /\ wire' = [l \in Link |->
               IF gone(l) THEN [q \in Node |-> <<>>]
               ELSE IF Joins(l, m) THEN [wire[l] EXCEPT ![m] = <<>>, ![Other(l, m)] = Flushed(l, m, Other(l, m))]
               ELSE wire[l]]
    /\ UNCHANGED lived

\* A crash, while there is another life to go on with.
Crashes(m) == m \in MayEnd /\ life[m] # 0 /\ lived[m] # Lives /\ Trouble /\ Die(m)

\* halt, at the end of a shutdown.
Halt(m) == leaving[m] = "told" /\ Die(m) /\ UNCHANGED troubles

\* A new life; the clock may have been set back, so it need not be a later one.
Restart(m, new) ==
    /\ life[m] = 0 /\ new \in Lives \ lived[m]
    /\ life' = [life EXCEPT ![m] = new]
    /\ lived' = [lived EXCEPT ![m] = @ \union {new}]
    /\ UNCHANGED <<leaving, troubles, localVars, remoteVars, linkVars>>

-----------------------------------------------------------------------------

LinkStep(l, m) ==
    \/ Accept(l, m) \/ SayHello(l, m) \/ ReadHello(l, m)
    \/ RegisterLink(l, m) \/ RefuseLink(l, m)
    \/ Apply(l, m) \/ Bail(l, m) \/ Hangup(l, m)

MeshNext ==
    \/ \E m \in Node :
         \/ TellAttached(m) \/ SetDraining(m) \/ TellLeaving(m)
         \/ Crashes(m) \/ Halt(m)
         \/ \E bridge \in entries[m] : TellDetached(m, bridge)
         \/ \E new \in Lives : Restart(m, new)
         \/ \E l \in Link :
              \/ LinkStep(l, m) \/ Cut(l, m)
              \/ \E p \in Node : Dial(l, m, p)

MeshSpec == MeshInit /\ [][MeshNext]_nodeVars

-----------------------------------------------------------------------------
(* Properties. *)

\* The link machine m knows p by still carries what p announces.
Carries(m, p) ==
    /\ peer[m][p] # NoPeer
    /\ end[peer[m][p].link][p].subscribed

\* What frames make of a peer, one after the other.
Final(known, frames) ==
    LET run[i \in 0 .. Len(frames)] == IF i = 0 THEN known ELSE Applied(run[i - 1], frames[i])
    IN  run[Len(frames)]

\* Whatever is on its way over such a link, applied to the table, gives exactly
\* what p has attached now (nothing once p told that it leaves), with no gap and
\* no frame out of place: a snapshot and the changes after it miss nothing.
CatchesUp ==
    \A m, p \in Node :
        Carries(m, p) =>
            LET final == Final(peer[m][p], wire[peer[m][p].link][m]) IN
               /\ final # Bailed
               /\ ~final.open
               /\ final.life = life[p] /\ final.seq = seq[p]
               /\ leaving[p] = "told" => final.draining
               /\ final.entries = IF final.draining THEN {} ELSE entries[p]

\* What machine m may send visitors of p's bridges to.
Located(m, p) ==
    {bridge \in peer[m][p].entries : <<p, bridge>> \in index[m] /\ ~peer[m][p].draining}

Agree(m, p) ==
    /\ Located(m, p) = IF leaving[p] = "no" THEN entries[p] ELSE {}
    /\ life[m] # 0 /\ life[p] # 0 => peer[m][p].link = peer[p][m].link /\ peer[m][p] # NoPeer

Agreed == \A m, p \in Node : m # p /\ life[m] # 0 => Agree(m, p)
=============================================================================
