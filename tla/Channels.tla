------------------------------ MODULE Channels ------------------------------
(***************************************************************************)
(* The public connections one bridge carries, at both ends: the server     *)
(* (relay.rs, bridge.rs and the routing of service.rs) and the client's    *)
(* session (tunnel.rs of the client library).                              *)
(*                                                                         *)
(* A visitor's connection has a number, a place in the bridge's table and  *)
(* a slot.  Its upload and download tasks share the bridge's outbound      *)
(* queue with the bridge's reader; data from the client is held in memory  *)
(* against a budget until the visitor takes it, and over budget the reader *)
(* waits, for at most STALL.  The client has a queue for control messages  *)
(* and one for data; its reader waits for a full local connection, at most *)
(* STALLED_CHANNEL_TIMEOUT.  A socket is its sender's queue.  A frame is a *)
(* connection and its place in the stream; one frame is one share of a     *)
(* budget, and the machine's budget counts with the bridge's.              *)
(***************************************************************************)
EXTENDS Naturals, Sequences, FiniteSets, Functions

CONSTANTS
    Conn,             \* bound: the visitors there are
    Numbers,          \* connection numbers are 0 .. Numbers - 1 (2^32 in the code)
    Uploads,          \* bound: data frames of each visitor after its ClientHello
    Downloads,        \* bound: data frames of each target
    CHANNEL_BUDGET, BRIDGE_BUDGET,    \* data held for one visitor, for all of them
    OUTBOUND_BUDGET, OUTBOUND_QUEUE,  \* visitors' data, messages for the socket
    CLIENT_QUEUE, INBOUND_QUEUE,      \* the client's data queue, one connection's queue
    ConnLimit,        \* conns_per_bridge, conns_per_tunnel, what the client advertised
    MAX_CONNS,        \* the client's own limit
    Elsewhere,        \* the sets of numbers the tunnel's other bridges may have in use
    MaxPings,         \* bound: pings of either side
    Mishaps, MaxMishaps,            \* bound: the disturbances, and how many
    None

ASSUME ChannelAssumption ==
    /\ IsFiniteSet(Conn) /\ None \notin Conn \union (Conn \X (Conn \X Nat)) /\ Numbers \in Nat \ {0, 1}
    /\ Uploads \in [Conn -> Nat] /\ Downloads \in [Conn -> Nat] /\ {MaxMishaps, MaxPings} \subseteq Nat
    /\ {CHANNEL_BUDGET, BRIDGE_BUDGET, OUTBOUND_BUDGET, OUTBOUND_QUEUE, CLIENT_QUEUE,
        INBOUND_QUEUE, ConnLimit, MAX_CONNS} \subseteq Nat \ {0}
    /\ Mishaps \subseteq {"lose", "drain", "visitor", "target", "route", "refuse"}

VARIABLES
    \* a visitor's connection
    visit,      \* "new", "routed" (in the table), "carried" (its tasks run), "done"
    num,        \* its number
    up, down,   \* its upload and download: "off", "run", "done"
    finished,   \* connections with an outcome (Finish::outcome)
    abort,      \* connections to tear down at once
    inbound,    \* data from the client queued for the visitor
    budget,     \* free shares of the connection
    vis,        \* its socket: "open", "fin" (its side was shut down), or "reset"
    got, sent,  \* the frames the visitor took and sent
    vend,       \* visitors that ended their side
    \* the bridge
    bridge,     \* "up", "closing" (server_close), "lost" (the socket is), "gone"
    sequence,   \* the next number
    channels,   \* the table: number to connection
    visitors,   \* slots taken
    shared,     \* free shares of the bridge, for data from the client
    moved,      \* connections whose drained_at is later than the reader's wait began
    reader,     \* the bridge reader
    outbound,   \* messages for the client
    credit,     \* free shares of the bridge, for data from visitors
    \* the client
    served,     \* its table: number to connection
    task,       \* run_channel: "off", "run", "ended" (end sent), "failed", "done"
    local,      \* data queued for a connection's local side
    tgot, tsent,\* the frames a target got and sent
    tfin, tcut, \* targets told of the visitor's end; whose socket was dropped without it
    tend,       \* targets that ended their side
    controls, datas,  \* the client's two queues
    creader,    \* the item the client's reader waits to deliver, or None
    \* history
    pings, mishaps, lostResets,
    clash       \* a number was given to a visitor while another one was spoken of by it

finishVars == <<finished, abort>>
visitorVars == <<visit, num, up, down, vis, got, sent, vend>>
heldVars == <<inbound, budget, shared, moved>>
outVars == <<outbound, credit, lostResets>>
clientVars == <<served, task, local, tgot, tsent, tfin, tcut, tend, controls, datas, creader, pings>>
channelsVars == <<visitorVars, finishVars, heldVars, outVars, clientVars, bridge, sequence, clash, channels,
          visitors, reader, mishaps>>

Message(t, c, k) == [t |-> t, n |-> num[c], c |-> c, k |-> k]
Signal(t) == [t |-> t, n |-> 0, c |-> None, k |-> 0]

Reading == [at |-> "read", c |-> None, x |-> <<>>, todo |-> {}, tell |-> Signal("none")]

ChannelsInit ==
    /\ visit = [c \in Conn |-> "new"] /\ num = [c \in Conn |-> 0]
    /\ up = [c \in Conn |-> "off"] /\ down = [c \in Conn |-> "off"]
    /\ finished = {} /\ abort = {}
    /\ inbound = [c \in Conn |-> <<>>] /\ budget = [c \in Conn |-> CHANNEL_BUDGET]
    /\ vis = [c \in Conn |-> "open"] /\ got = [c \in Conn |-> <<>>]
    /\ sent = [c \in Conn |-> 0] /\ vend = {}
    /\ bridge = "up" /\ sequence = Numbers - 1
    /\ channels = [n \in 1 .. Numbers - 1 |-> None] /\ visitors = 0
    /\ shared = BRIDGE_BUDGET /\ moved = {} /\ reader = Reading
    /\ outbound = <<>> /\ credit = OUTBOUND_BUDGET
    /\ served = [n \in 1 .. Numbers - 1 |-> None]
    /\ task = [c \in Conn |-> "off"] /\ local = [c \in Conn |-> <<>>]
    /\ tgot = [c \in Conn |-> <<>>] /\ tsent = [c \in Conn |-> 0]
    /\ tfin = {} /\ tcut = {} /\ tend = {} /\ controls = <<>> /\ datas = <<>> /\ creader = None
    /\ pings = 0 /\ mishaps = 0 /\ lostResets = {} /\ clash = FALSE

Mishap(kind) ==
    /\ kind \in Mishaps /\ mishaps < MaxMishaps
    /\ mishaps' = mishaps + 1

-----------------------------------------------------------------------------
(* The bridge's outbound queue. *)

Open == bridge \in {"up", "closing"}

\* tx.send: waits for a place, and fails once the writer is gone.
Send(messages) ==
    IF Open THEN /\ Len(outbound) + Len(messages) <= OUTBOUND_QUEUE
                 /\ outbound' = outbound \o messages
    ELSE UNCHANGED outbound

\* tx.try_send of a reset: without a place in the queue the client is not told.
TrySendReset(c) ==
    /\ IF Open /\ Len(outbound) < OUTBOUND_QUEUE
       THEN outbound' = Append(outbound, Message("reset", c, 0)) /\ UNCHANGED lostResets
       ELSE lostResets' = lostResets \union {c} /\ UNCHANGED outbound
    /\ UNCHANGED credit

Done == {c \in Conn : visit[c] = "done"}

\* Finish::finish: the first writer wins, its tear-down included.
Finish(conns, tearDown) ==
    /\ finished' = finished \union conns
    /\ abort' = IF tearDown THEN abort \union (conns \ finished) ELSE abort

Unlist(n) == channels' = [channels EXCEPT ![n] = None]

EndOf(c) == <<c, 0>>

\* The shares of the data queued for a visitor, given back when it is dropped.
Frames(c) == {i \in DOMAIN inbound[c] : inbound[c][i] # EndOf(c)}
Data(c) == Cardinality(Frames(c))

\* drained_at, as far as the reader's wait goes.
Drained(c) == moved' = IF reader.at = "wait" THEN moved \union {c} ELSE moved

GiveBack(c) ==
    /\ inbound' = [inbound EXCEPT ![c] = <<>>]
    /\ budget' = [budget EXCEPT ![c] = @ + Data(c)]
    /\ shared' = shared + Data(c)
    /\ IF Data(c) > 0 THEN Drained(c) ELSE UNCHANGED moved

-----------------------------------------------------------------------------
(* Routing a visitor. *)

\* Numbers go round, skip 0 and those in the tables of the tunnel's bridges.
Usable(n, taken) == n # 0 /\ channels[n] = None /\ n \notin taken
Candidate(i) == (sequence + i) % Numbers

\* A connection that left the table may still be carried, served or spoken of by its
\* number.  Nothing in the code looks for that: giving the number again then is noted
\* as a clash, after which a message may find another connection than its own.
Lingers(n) ==
    \/ \E c \in Conn : visit[c] = "carried" /\ num[c] = n
    \/ served[n] # None \/ reader.tell.n = n
    \/ \E m \in Range(outbound) \union Range(controls) \union Range(datas) : m.n = n
    \/ reader.c # None /\ num[reader.c] = n
    \/ \E c \in reader.todo : num[c] = n

Route(c) ==
    /\ visit[c] = "new" /\ bridge # "gone" /\ visitors < ConnLimit
    /\ \E taken \in Elsewhere, i \in 0 .. Numbers - 1 :
         /\ Usable(Candidate(i), taken) /\ \A j \in 0 .. i - 1 : ~Usable(Candidate(j), taken)
         /\ num' = [num EXCEPT ![c] = Candidate(i)]
         /\ sequence' = Candidate(i + 1)
         /\ channels' = [channels EXCEPT ![Candidate(i)] = c]
         /\ clash' = (clash \/ Lingers(Candidate(i)))
    /\ visitors' = visitors + 1
    /\ visit' = [visit EXCEPT ![c] = "routed"]
    /\ UNCHANGED <<up, down, vis, got, sent, vend, finishVars, heldVars, outVars, clientVars,
                   bridge, reader, mishaps>>

\* The client is told, and sent the ClientHello; both directions start.
Carry(c) ==
    /\ visit[c] = "routed"
    /\ Send(<<Message("open", c, 0), Message("data", c, 1)>>)
    /\ visit' = [visit EXCEPT ![c] = "carried"]
    /\ up' = [up EXCEPT ![c] = "run"] /\ down' = [down EXCEPT ![c] = "run"]
    /\ sent' = [sent EXCEPT ![c] = 1]
    /\ UNCHANGED <<num, vis, got, vend, finishVars, heldVars, credit, lostResets, clientVars,
                   bridge, sequence, clash, channels, visitors, reader, mishaps>>

\* Mutant: the slot is not given back.
RefuseLeaks(c) ==
    /\ visit[c] = "routed" /\ Mishap("refuse")
    /\ Unlist(num[c])
    /\ visit' = [visit EXCEPT ![c] = "done"]
    /\ UNCHANGED <<num, up, down, vis, got, sent, vend, finishVars, heldVars, outVars, clientVars,
                   bridge, sequence, clash, visitors, reader>>

\* The machine that forwarded the visitor is gone before it could be told.
Refuse(c) ==
    /\ visit[c] = "routed" /\ Mishap("refuse")
    /\ Unlist(num[c])
    /\ visit' = [visit EXCEPT ![c] = "done"] /\ visitors' = visitors - 1
    /\ UNCHANGED <<num, up, down, vis, got, sent, vend, finishVars, heldVars, outVars, clientVars,
                   bridge, sequence, clash, reader>>

-----------------------------------------------------------------------------
(* The visitor's upload: both a read and the tear-down may be taken. *)

Uploading(c, state) ==
    /\ up[c] = "run" /\ visit[c] = "carried"
    /\ up' = [up EXCEPT ![c] = state]
    /\ UNCHANGED <<visit, num, down, vis, got, heldVars, clientVars, bridge, sequence, clash, visitors,
                   reader>>

Upload(c) ==
    /\ Uploading(c, IF Open THEN "run" ELSE "done")
    /\ sent[c] < 1 + Uploads[c] /\ sent' = [sent EXCEPT ![c] = @ + 1]
    /\ IF Open THEN /\ credit > 0 /\ credit' = credit - 1 /\ UNCHANGED finishVars
       ELSE Finish({c}, TRUE) /\ UNCHANGED credit
    /\ Send(<<Message("data", c, sent'[c])>>)
    /\ UNCHANGED <<vend, channels, lostResets, mishaps>>

UploadEnd(c) ==
    /\ Uploading(c, "done")
    /\ vend' = vend \union {c}
    /\ Send(<<Message("end", c, 0)>>)
    /\ UNCHANGED <<sent, finishVars, channels, credit, lostResets, mishaps>>

UploadError(c) ==
    /\ Mishap("visitor") /\ Uploading(c, "done")
    /\ TrySendReset(c)
    /\ Unlist(num[c]) /\ Finish({c}, TRUE)
    /\ UNCHANGED <<sent, vend>>

UploadAborted(c) ==
    /\ c \in abort /\ Uploading(c, "done")
    /\ UNCHANGED <<sent, vend, finishVars, channels, outVars, mishaps>>

-----------------------------------------------------------------------------
(* The visitor's download. *)

Downloading(c, state) ==
    /\ down[c] = "run" /\ visit[c] = "carried"
    /\ down' = [down EXCEPT ![c] = state]
    /\ UNCHANGED <<visit, num, up, sent, vend, clientVars, bridge, sequence, clash, visitors, reader>>

Ending(c) == inbound[c] # <<>> /\ Head(inbound[c]) = EndOf(c)
Waiting(c) == inbound[c] # <<>> /\ ~Ending(c)

\* The visitor's socket took the data: its share is given back.
Written(c) ==
    /\ Waiting(c) /\ Downloading(c, "run")
    /\ got' = [got EXCEPT ![c] = Append(@, Head(inbound[c]))]
    /\ inbound' = [inbound EXCEPT ![c] = Tail(@)]
    /\ budget' = [budget EXCEPT ![c] = @ + 1] /\ shared' = shared + 1
    /\ Drained(c)
    /\ UNCHANGED <<vis, finishVars, channels, outVars, mishaps>>

\* write_watched: the write waits, but the visitor acknowledges what it got.
Progress(c) ==
    /\ Waiting(c) /\ reader.at = "wait" /\ c \notin moved /\ Downloading(c, "run")
    /\ Drained(c)
    /\ UNCHANGED <<vis, got, finishVars, inbound, budget, shared, channels, outVars, mishaps>>

WriteError(c) ==
    /\ Mishap("visitor") /\ Waiting(c) /\ Downloading(c, "done")
    /\ GiveBack(c)
    /\ Unlist(num[c]) /\ TrySendReset(c) /\ Finish({c}, TRUE)
    /\ UNCHANGED <<vis, got>>

\* The client's end, or nobody is left to queue anything.
Orphan(c) == c \notin Range(channels) /\ c # reader.c /\ c \notin reader.todo

DownloadEnd(c) ==
    /\ Ending(c) \/ (inbound[c] = <<>> /\ Orphan(c))
    /\ Downloading(c, "done")
    /\ vis' = [vis EXCEPT ![c] = "fin"]
    /\ GiveBack(c)
    /\ UNCHANGED <<got, finishVars, channels, outVars, mishaps>>

DownloadAborted(c) ==
    /\ c \in abort /\ Downloading(c, "done")
    /\ GiveBack(c)
    /\ UNCHANGED <<vis, got, finishVars, channels, outVars, mishaps>>

-----------------------------------------------------------------------------
(* The connection is over. *)

\* The socket is dropped: with a reset when it is torn down, else behind its end.
Over(c, tearDown) ==
    /\ visit[c] = "carried"
    /\ visit' = [visit EXCEPT ![c] = "done"]
    /\ up' = [up EXCEPT ![c] = "off"] /\ down' = [down EXCEPT ![c] = "off"]
    /\ vis' = [vis EXCEPT ![c] = IF tearDown THEN "reset" ELSE @]
    /\ finished' = finished \ {c} /\ abort' = abort \ {c}
    /\ Unlist(num[c]) /\ visitors' = visitors - 1
    /\ UNCHANGED <<num, got, sent, vend, clientVars, bridge, sequence, clash, reader, mishaps>>

\* Both directions ended.
Ended(c) ==
    /\ up[c] = "done" /\ down[c] = "done" /\ Over(c, c \in abort)
    /\ UNCHANGED <<heldVars, outVars>>

\* Quiet for too long, or half-closed and quiet for less.  What counts is what the
\* visitor's socket did: the timeout may come while something is still queued.
Idle(c) ==
    /\ Over(c, TRUE)
    /\ TrySendReset(c)
    /\ GiveBack(c)

\* Mutant: only a half-closed connection has a timeout.
ExpiredHalf(c) ==
    /\ Idle(c) /\ (up[c] = "done" \/ down[c] = "done")
    /\ c # reader.c /\ c \notin reader.todo
    /\ \A m \in Range(outbound) \union Range(controls) \union Range(datas) : m.c # c

\* It comes for certain once nothing of the connection is under way on the bridge.
Expired(c) ==
    /\ Idle(c) /\ c # reader.c /\ c \notin reader.todo
    /\ \A m \in Range(outbound) \union Range(controls) \union Range(datas) : m.c # c

-----------------------------------------------------------------------------
(* The bridge's reader. *)

\* The client's writer prefers control messages to data.
Arrived == IF controls # <<>> THEN Head(controls) ELSE Head(datas)
Arrive ==
    /\ reader.at = "read" /\ Open /\ (controls # <<>> \/ datas # <<>>)
    /\ IF controls # <<>> THEN controls' = Tail(controls) /\ UNCHANGED datas
       ELSE datas' = Tail(datas) /\ UNCHANGED controls
    /\ UNCHANGED <<visitorVars, served, task, local, tgot, tsent, tfin, tcut, tend, creader, pings,
                   outVars, bridge, sequence, clash, visitors, mishaps>>

Fits(c) == budget[c] > 0 /\ shared > 0

\* The data is queued with its share; a visitor that is gone drops both.
Hold(c, x) ==
    IF visit[c] = "done" \/ down[c] = "done" THEN UNCHANGED <<inbound, budget, shared>>
    ELSE /\ inbound' = [inbound EXCEPT ![c] = Append(@, x)]
         /\ budget' = [budget EXCEPT ![c] = @ - 1] /\ shared' = shared - 1

\* Once the server closed the session nothing of the client matters; messages of a
\* connection that is not in the table neither.
Ignore ==
    /\ Arrive
    /\ \/ bridge = "closing"
       \/ Arrived.t = "pong"
       \/ Arrived.t \in {"data", "end", "reset"} /\ channels[Arrived.n] = None
    /\ UNCHANGED <<finishVars, heldVars, channels, reader>>

ReadPing ==
    /\ Arrive /\ bridge = "up" /\ Arrived.t = "ping"
    /\ reader' = [Reading EXCEPT !.at = "tell", !.tell = Signal("pong")]
    /\ UNCHANGED <<finishVars, heldVars, channels>>

\* Over budget the reader stops: it waits for visitors to take data.
ReadData ==
    /\ Arrive /\ bridge = "up" /\ Arrived.t = "data"
    /\ LET c == channels[Arrived.n] IN
         /\ c # None
         /\ IF Fits(c) THEN Hold(c, <<Arrived.c, Arrived.k>>) /\ UNCHANGED <<reader, moved>>
            ELSE /\ reader' = [Reading EXCEPT !.at = "wait", !.c = c, !.x = <<Arrived.c, Arrived.k>>]
                 /\ moved' = IF budget[c] = CHANNEL_BUDGET THEN {c} ELSE {}
                 /\ UNCHANGED <<inbound, budget, shared>>
    /\ UNCHANGED <<finishVars, channels>>

\* Mutant: the end does not queue behind the data.
ReadEndFirst ==
    /\ Arrive /\ bridge = "up" /\ Arrived.t = "end"
    /\ LET c == channels[Arrived.n] IN
         /\ c # None
         /\ Unlist(Arrived.n) /\ Finish({c}, FALSE)
         /\ inbound' = IF visit[c] = "done" \/ down[c] = "done" THEN inbound
                       ELSE [inbound EXCEPT ![c] = <<EndOf(c)>> \o @]
    /\ UNCHANGED <<budget, shared, moved, reader>>

\* The visitor gets everything before the half-close.
ReadEnd ==
    /\ Arrive /\ bridge = "up" /\ Arrived.t = "end"
    /\ LET c == channels[Arrived.n] IN
         /\ c # None
         /\ Unlist(Arrived.n) /\ Finish({c}, FALSE)
         /\ inbound' = IF visit[c] = "done" \/ down[c] = "done" THEN inbound
                       ELSE [inbound EXCEPT ![c] = Append(@, EndOf(c))]
    /\ UNCHANGED <<budget, shared, moved, reader>>

ReadReset ==
    /\ Arrive /\ bridge = "up" /\ Arrived.t = "reset"
    /\ channels[Arrived.n] # None
    /\ Unlist(Arrived.n) /\ Finish({channels[Arrived.n]}, TRUE)
    /\ UNCHANGED <<heldVars, reader>>

ReaderOnly == UNCHANGED <<visitorVars, clientVars, bridge, sequence, clash, visitors, mishaps>>

\* Its visitor, or another one, took data in time.
WaitEnds ==
    /\ reader.at = "wait" /\ Fits(reader.c)
    /\ Hold(reader.c, reader.x) /\ reader' = Reading /\ moved' = {}
    /\ ReaderOnly /\ UNCHANGED <<finishVars, channels, outVars>>

\* The client may hear nothing else meanwhile: a ping, if the queue has a place.
KeepAlive ==
    /\ reader.at = "wait" /\ pings < MaxPings
    /\ pings' = pings + 1
    /\ outbound' = IF Open /\ Len(outbound) < OUTBOUND_QUEUE THEN Append(outbound, Signal("ping")) ELSE outbound
    /\ UNCHANGED <<visitorVars, finishVars, heldVars, credit, lostResets, served, task, local, tgot,
                   tsent, tfin, tcut, tend, controls, datas, creader, bridge, sequence, clash, channels, visitors,
                   reader, mishaps>>

\* STALL is over: connections with data waiting whose visitor took none are reset.
Stall ==
    /\ reader.at = "wait"
    /\ reader' = [reader EXCEPT !.at = "stall",
                     !.todo = {d \in Range(channels) \ {None} : budget[d] < CHANNEL_BUDGET /\ d \notin moved}]
    /\ moved' = {}
    /\ ReaderOnly /\ UNCHANGED <<finishVars, inbound, budget, shared, channels, outVars>>

\* reset: out of the table and torn down, then the client is told.
Reset(c, todo, stays) ==
    /\ Unlist(num[c]) /\ Finish({c} \ Done, TRUE)
    /\ reader' = [at |-> "tell", c |-> stays, x |-> reader.x, todo |-> todo,
                  tell |-> Message("reset", c, 0)]
    /\ UNCHANGED heldVars

ResetStalled ==
    /\ reader.at = "stall"
    /\ \E c \in reader.todo : Reset(c, reader.todo \ {c}, reader.c)
    /\ ReaderOnly /\ UNCHANGED outVars

\* The data the reader waited with: its connection may have been reset, the space
\* others gave back may fit it, or its visitor is too slow.
LastTry ==
    /\ reader.at = "stall" /\ reader.todo = {}
    /\ LET c == reader.c IN
       IF channels[num[c]] = None \/ Fits(c)
       THEN /\ IF channels[num[c]] = None THEN UNCHANGED <<inbound, budget, shared>> ELSE Hold(c, reader.x)
            /\ reader' = Reading /\ UNCHANGED <<finishVars, channels, moved>>
       ELSE Reset(c, {}, None)
    /\ ReaderOnly /\ UNCHANGED outVars

\* send: the reader waits for a place in the queue.
Tell ==
    /\ reader.at = "tell" /\ Send(<<reader.tell>>)
    /\ reader' = IF reader.c = None THEN Reading
                 ELSE [reader EXCEPT !.at = "stall", !.tell = Signal("none")]
    /\ ReaderOnly /\ UNCHANGED <<finishVars, heldVars, channels, credit, lostResets>>

-----------------------------------------------------------------------------
(* The end of the session. *)

\* The writer ends, and with it the queue.
DropOutbound == outbound' = <<>> /\ credit' = OUTBOUND_BUDGET /\ UNCHANGED lostResets

\* The socket breaks, a write takes longer than WRITE_TIMEOUT, or the client hears
\* nothing for its idle timeout.
Lose ==
    /\ Open /\ Mishap("lose")
    /\ bridge' = "lost" /\ DropOutbound
    /\ UNCHANGED <<visitorVars, finishVars, heldVars, clientVars, sequence, clash, channels, visitors,
                   reader>>

\* send_drain: the client is told to go elsewhere, if the queue has a place.
Drain ==
    /\ bridge = "up" /\ Mishap("drain")
    /\ bridge' = "closing"
    /\ outbound' = IF Len(outbound) < OUTBOUND_QUEUE THEN Append(outbound, Signal("drain")) ELSE outbound
    /\ UNCHANGED <<visitorVars, finishVars, heldVars, credit, lostResets, clientVars, sequence, clash,
                   channels, visitors, reader>>

\* The reader ends: on the client's close, on a lost socket, or moments after it
\* sent a close.  Every connection in the table is torn down.
CloseBridge ==
    /\ bridge \in {"closing", "lost"} /\ reader.at \in {"read", "wait"}
    /\ bridge' = "gone" /\ reader' = Reading /\ DropOutbound
    /\ Finish(Range(channels) \ {None}, TRUE)
    /\ channels' = [n \in DOMAIN channels |-> None]
    /\ moved' = {}
    /\ UNCHANGED <<visitorVars, inbound, budget, shared, clientVars, sequence, clash, visitors, mishaps>>

-----------------------------------------------------------------------------
(* The client: its reader. *)

ServerSide == UNCHANGED <<visitorVars, finishVars, heldVars, lostResets, sequence, clash, channels,
                          visitors, reader>>

\* Mutant: control messages wait with the data.
ControlWaits(message) ==
    Len(datas) < CLIENT_QUEUE /\ datas' = Append(datas, message) /\ UNCHANGED controls

\* Control messages have a queue of their own, without a bound: the reader never waits.
Control(message) == controls' = Append(controls, message) /\ UNCHANGED datas

\* The head of the server's queue reaches the client; a visitor's share is given back.
Receive(t) ==
    /\ Open /\ creader = None /\ outbound # <<>> /\ Head(outbound).t = t
    /\ outbound' = Tail(outbound)
    /\ credit' = IF t = "data" /\ Head(outbound).k > 1 THEN credit + 1 ELSE credit
    /\ ServerSide /\ UNCHANGED pings

Arriving == Head(outbound)

\* An open for a route the client does not serve is refused, and one too many.
RefuseOpen ==
    /\ Receive("open")
    /\ IF Cardinality({n \in DOMAIN served : served[n] # None}) >= MAX_CONNS THEN UNCHANGED mishaps
       ELSE Mishap("route")
    /\ Control([Arriving EXCEPT !.t = "reset"])
    /\ UNCHANGED <<served, task, local, tgot, tsent, tfin, tcut, tend, creader, bridge>>

AcceptOpen ==
    /\ Receive("open")
    /\ Cardinality({n \in DOMAIN served : served[n] # None}) < MAX_CONNS
    /\ served' = [served EXCEPT ![Arriving.n] = Arriving.c]
    /\ task' = [task EXCEPT ![Arriving.c] = "run"]
    /\ UNCHANGED <<local, tgot, tsent, tfin, tcut, tend, controls, datas, creader, bridge, mishaps>>

Running(c) == task[c] \in {"run", "ended"}

\* deliver: to a local side that is over it is dropped; for one that is full the
\* reader waits.
Deliver ==
    /\ \E t \in {"data", "end"} : Receive(t)
    /\ LET c == IF Arriving.n \in DOMAIN served THEN served[Arriving.n] ELSE None
           item == <<Arriving.c, Arriving.k>>
       IN  IF c = None \/ ~Running(c) THEN UNCHANGED <<local, creader>>
           ELSE IF Len(local[c]) < INBOUND_QUEUE
           THEN local' = [local EXCEPT ![c] = Append(@, item)] /\ UNCHANGED creader
           ELSE creader' = <<c, item>> /\ UNCHANGED local
    /\ UNCHANGED <<served, task, tgot, tsent, tfin, tcut, tend, controls, datas, bridge, mishaps>>

ClientOnly ==
    /\ ServerSide /\ UNCHANGED <<outbound, credit, pings, bridge>>

Delivered ==
    /\ creader # None
    /\ LET c == creader[1] IN
         /\ ~Running(c) \/ Len(local[c]) < INBOUND_QUEUE
         /\ local' = IF Running(c) THEN [local EXCEPT ![c] = Append(@, creader[2])] ELSE local
    /\ creader' = None
    /\ ClientOnly
    /\ UNCHANGED <<served, task, tgot, tsent, tfin, tcut, tend, controls, datas, mishaps>>

\* The task of a connection is over, aborted or not: it leaves the table, and its
\* sockets are dropped.  A target that was not told of the visitor's end sees one now.
Leave(c, state) ==
    /\ task' = [task EXCEPT ![c] = state]
    /\ served' = [n \in DOMAIN served |-> IF served[n] = c THEN None ELSE served[n]]
    /\ local' = [local EXCEPT ![c] = <<>>]
    /\ tcut' = tcut \union ({c} \ tfin)
    /\ UNCHANGED <<tgot, tsent, tfin, tend>>

\* STALLED_CHANNEL_TIMEOUT: the local side does not read.  A place in its queue, or its
\* end, comes before the timeout.
Stalled ==
    /\ creader # None /\ Running(creader[1]) /\ Len(local[creader[1]]) >= INBOUND_QUEUE
    /\ Leave(creader[1], "done") /\ creader' = None
    /\ Control(Message("reset", creader[1], 0))
    /\ ClientOnly /\ UNCHANGED mishaps

HearReset ==
    /\ Receive("reset")
    /\ LET c == served[Arriving.n] IN
       IF c = None THEN UNCHANGED <<task, served, local, tgot, tsent, tfin, tcut, tend>> ELSE Leave(c, "done")
    /\ UNCHANGED <<controls, datas, creader, bridge, mishaps>>

HearPing ==
    /\ Receive("ping")
    /\ Control(Signal("pong"))
    /\ UNCHANGED <<served, task, local, tgot, tsent, tfin, tcut, tend, creader, bridge, mishaps>>

HearPong ==
    /\ Receive("pong")
    /\ UNCHANGED <<served, task, local, tgot, tsent, tfin, tcut, tend, controls, datas, creader, bridge, mishaps>>

Heartbeat ==
    /\ Open /\ creader = None /\ pings < MaxPings
    /\ pings' = pings + 1
    /\ Control(Signal("ping"))
    /\ ServerSide
    /\ UNCHANGED <<outbound, credit, served, task, local, tgot, tsent, tfin, tcut, tend, creader, bridge, mishaps>>

\* The session ends at the client, which then reconnects: told to drain, or the
\* socket is closed.  Every connection is aborted.
SessionEnds ==
    /\ \/ bridge \in {"lost", "gone"}
       \/ Open /\ creader = None /\ outbound # <<>> /\ Head(outbound).t = "drain"
    /\ DropOutbound
    /\ served # [n \in DOMAIN served |-> None] \/ controls # <<>> \/ datas # <<>> \/ Open
    /\ bridge' = IF bridge = "gone" THEN "gone" ELSE "lost"
    /\ served' = [n \in DOMAIN served |-> None]
    /\ task' = [c \in Conn |-> IF task[c] = "off" THEN "off" ELSE "done"]
    /\ local' = [c \in Conn |-> <<>>]
    /\ tcut' = tcut \union {c \in Range(served) \ tfin : c # None}
    /\ controls' = <<>> /\ datas' = <<>> /\ creader' = None
    /\ UNCHANGED <<visitorVars, finishVars, heldVars, sequence, clash, channels, visitors, reader,
                   tgot, tsent, tfin, tend, pings, mishaps>>

-----------------------------------------------------------------------------
(* The client: one connection (run_channel). *)

Serving(c) == c \in Range(served) /\ ClientOnly /\ UNCHANGED creader

\* The local side takes what the visitor sent, and passes its end on.
Take(c) ==
    /\ Running(c) /\ local[c] # <<>> /\ Head(local[c])[2] # 0 /\ Serving(c)
    /\ local' = [local EXCEPT ![c] = Tail(@)]
    /\ tgot' = [tgot EXCEPT ![c] = Append(@, Head(local[c]))]
    /\ UNCHANGED <<served, task, tsent, tfin, tcut, tend, controls, datas, mishaps>>

TakeEnd(c) ==
    /\ Running(c) /\ local[c] # <<>> /\ Head(local[c])[2] = 0 /\ Serving(c)
    /\ local' = [local EXCEPT ![c] = <<>>] /\ tfin' = tfin \union {c}
    /\ UNCHANGED <<served, task, tgot, tsent, tcut, tend, controls, datas, mishaps>>

\* The target's data, and its end, wait for a place in the data queue.
Queue(message) == Len(datas) < CLIENT_QUEUE /\ datas' = Append(datas, message) /\ UNCHANGED controls

Answer(c) ==
    /\ task[c] = "run" /\ tsent[c] < Downloads[c] /\ Serving(c)
    /\ tsent' = [tsent EXCEPT ![c] = @ + 1]
    /\ Queue(Message("data", c, tsent[c] + 1))
    /\ UNCHANGED <<served, task, local, tgot, tfin, tcut, tend, mishaps>>

AnswerEnds(c) ==
    /\ task[c] = "run" /\ Serving(c)
    /\ Queue(Message("end", c, 0))
    /\ tend' = tend \union {c} /\ task' = [task EXCEPT ![c] = "ended"]
    /\ UNCHANGED <<served, local, tgot, tsent, tfin, tcut, mishaps>>

\* Both directions are copied to their ends.
ChannelDone(c) ==
    /\ task[c] = "ended" /\ c \in tfin /\ Serving(c)
    /\ Leave(c, "done") /\ UNCHANGED <<controls, datas, mishaps>>

\* TLS or the target fails, also after its end was sent; then the server is told.
ChannelFails(c) ==
    /\ Running(c) /\ Mishap("target") /\ Serving(c)
    /\ task' = [task EXCEPT ![c] = "failed"] /\ local' = [local EXCEPT ![c] = <<>>]
    /\ tcut' = tcut \union ({c} \ tfin)
    /\ UNCHANGED <<served, tgot, tsent, tfin, tend, controls, datas>>

TellFailed(c) ==
    /\ task[c] = "failed" /\ Serving(c)
    /\ Queue(Message("reset", c, 0)) /\ Leave(c, "done")
    /\ UNCHANGED mishaps

-----------------------------------------------------------------------------
Reader == Ignore \/ ReadPing \/ ReadData \/ ReadEnd \/ ReadReset \/ WaitEnds \/ Stall
          \/ ResetStalled \/ LastTry \/ Tell
ClientReader == RefuseOpen \/ AcceptOpen \/ Deliver \/ HearReset \/ HearPing \/ HearPong \/ Delivered \/ Stalled

ChannelsNext ==
    \/ \E c \in Conn :
         Route(c) \/ Carry(c) \/ Refuse(c) \/ Upload(c) \/ UploadEnd(c) \/ UploadError(c)
         \/ UploadAborted(c) \/ Written(c) \/ Progress(c) \/ WriteError(c) \/ DownloadEnd(c)
         \/ DownloadAborted(c) \/ Ended(c) \/ Idle(c)
         \/ Take(c) \/ TakeEnd(c) \/ Answer(c) \/ AnswerEnds(c) \/ ChannelDone(c) \/ ChannelFails(c) \/ TellFailed(c)
    \/ Reader \/ KeepAlive \/ Lose \/ Drain \/ CloseBridge
    \/ ClientReader \/ Heartbeat \/ SessionEnds

ChannelsSpec == ChannelsInit /\ [][ChannelsNext]_channelsVars

\* What the two programs go on doing by themselves: tasks and readers run, timers
\* fire, queues are written.  Visitors and targets owe nothing: neither sends, ends
\* nor takes anything in any time.
ChannelsFairness ==
    /\ \A c \in Conn :
         /\ WF_channelsVars(Carry(c)) /\ WF_channelsVars(Ended(c)) /\ WF_channelsVars(Expired(c))
         /\ WF_channelsVars(UploadAborted(c)) /\ WF_channelsVars(DownloadAborted(c))
         /\ WF_channelsVars(DownloadEnd(c)) /\ WF_channelsVars(TakeEnd(c))
         /\ WF_channelsVars(ChannelDone(c)) /\ WF_channelsVars(TellFailed(c))
    /\ WF_channelsVars(Reader) /\ WF_channelsVars(ClientReader)
    /\ WF_channelsVars(CloseBridge) /\ WF_channelsVars(SessionEnds)

-----------------------------------------------------------------------------
HeldFrames == UNION {{c} \X Frames(c) : c \in Conn}
CreditedFrames == {i \in DOMAIN outbound : outbound[i].t = "data" /\ outbound[i].k > 1}

Balanced ==
    /\ \A c \in Conn : budget[c] + Data(c) = CHANNEL_BUDGET
    /\ \A c \in Conn : inbound[c] # <<>> => visit[c] = "carried" /\ down[c] = "run"
    /\ shared + Cardinality(HeldFrames) = BRIDGE_BUDGET
    /\ credit + Cardinality(CreditedFrames) = OUTBOUND_BUDGET
    /\ visitors = Cardinality({c \in Conn : visit[c] \in {"routed", "carried"}})

\* Until a number clashes, every share and slot taken is accounted for by something
\* that will give it back (Held, VisitorSlot): data queued for a visitor that is still
\* carried, a data frame in the outbound queue, a connection that is not over.
Accounted == clash \/ Balanced

\* Until a number clashes: a visitor gets its own target's data, in order and without
\* a gap, and a target its own visitor's, whatever numbers are used again.  A visitor
\* that sees its target end, and no reset, got everything the target sent.  A target
\* told of its visitor's end got everything; one whose socket was dropped instead got
\* the beginning, and cannot tell the difference.
Streams ==
    clash \/ \A c \in Conn :
      /\ \A i \in 1 .. Len(got[c]) : got[c][i] = <<c, i>>
      /\ \A i \in 1 .. Len(tgot[c]) : tgot[c][i] = <<c, i>>
      /\ vis[c] = "fin" /\ c \notin abort => c \in tend /\ Len(got[c]) = tsent[c]
      /\ c \in tfin => c \in vend /\ Len(tgot[c]) = sent[c]

\* Neither side stops reading the other for good, whatever visitors and targets do:
\* what the client queued is read, and what the server queued.
Flows ==
    /\ (controls # <<>> \/ datas # <<>>) ~> (~Open \/ (controls = <<>> /\ datas = <<>>))
    /\ (outbound # <<>>) ~> (~Open \/ outbound = <<>>)

\* Every connection ends, on both machines, though its visitor and its target go
\* silent: unless the server could not queue the reset that tells the client, or the
\* target never takes what is queued for it.
BothEnd ==
    \A c \in Conn :
      \/ (visit[c] = "carried") ~> (visit[c] = "done" /\ (c \notin Range(served) \/ c \in lostResets))
      \/ <>[](local[c] # <<>>)

=============================================================================
