------------------------------ MODULE Shutdown ------------------------------
(***************************************************************************)
(* A machine's shutdown (run of server.rs, drain of service.rs, Shutdown   *)
(* and serve_connection of http.rs): bridges that register while the       *)
(* drain collects those there are, and API connections that arrive while   *)
(* the listeners stay open.                                                *)
(***************************************************************************)
EXTENDS Naturals, FiniteSets

CONSTANTS
    Tunnel, Session, Of,    \* tunnels, bridge sessions, and the tunnel of each
    Connection,             \* API connections
    NoSession

ASSUME ShutdownAssumption == Of \in [Session -> Tunnel] /\ NoSession \notin Session

VARIABLES
    main,       \* how far `run` is
    draining,   \* Service::draining
    drainer,    \* the drain task: its step, entries to look at, bridges to tell
    entries,    \* tunnels with an entry
    lock,       \* each entry's lock
    session,    \* bridges: new, registering, registered, told, gone
    connection, \* API connections: none, handshake, idle (before its first request), busy, kept, closed
    late,       \* connections whose task saw the drain when it began
    comers,     \* history: connections that came during the drain
    cutShort    \* history: connections closed before their first request

shutdownVars == <<main, draining, drainer, entries, lock, session, connection, late, comers, cutShort>>

Resting == [step |-> "off", entries |-> {}, bridges |-> {}]

ShutdownInit ==
    /\ main = "serving" /\ draining = FALSE /\ drainer = Resting
    /\ entries = {} /\ lock = [t \in Tunnel |-> NoSession]
    /\ session = [s \in Session |-> "new"]
    /\ connection = [c \in Connection |-> "none"] /\ late = {} /\ comers = {} /\ cutShort = {}

After == [serving |-> "stopped", stopped |-> "left", left |-> "waiting", waiting |-> "closing",
          closing |-> "released", released |-> "exited"]
Gone == main = "exited"
Listening == main \in {"serving", "stopped", "left", "waiting"}
Closing == main \in {"closing", "released", "exited"}

-----------------------------------------------------------------------------
(* run, after the signal.                                                  *)

\* jobs.stop, then the mesh is told; then the drain starts, beside the wait.
Signal == main = "serving" /\ main' = After[main] /\ UNCHANGED <<draining, drainer, entries, lock, session, connection, late, comers, cutShort>>

LeaveMesh ==
    /\ main = "stopped" /\ main' = After[main]
    /\ UNCHANGED <<draining, drainer, entries, lock, session, connection, late, comers, cutShort>>

StartDrain ==
    /\ main = "left" /\ main' = After[main] /\ drainer' = [drainer EXCEPT !.step = "begin"]
    /\ UNCHANGED <<draining, entries, lock, session, connection, late, comers, cutShort>>

\* SHUTDOWN_DRAIN_MS passed, or a second signal: the listeners stop and every connection is asked to close.
StopListening ==
    /\ main = "waiting" /\ main' = After[main]
    /\ UNCHANGED <<draining, drainer, entries, lock, session, connection, late, comers, cutShort>>

\* The connections closed, or CLOSE_TIMEOUT passed; then jobs are released.
Release ==
    /\ main = "closing" /\ main' = After[main]
    /\ UNCHANGED <<draining, drainer, entries, lock, session, connection, late, comers, cutShort>>

Exit ==
    /\ main = "released" /\ main' = After[main]
    /\ session' = [s \in Session |-> "gone"] /\ connection' = [c \in Connection |-> "closed"]
    /\ drainer' = Resting /\ lock' = [t \in Tunnel |-> NoSession]
    /\ UNCHANGED <<draining, entries, late, comers, cutShort>>

-----------------------------------------------------------------------------
(* drain.                                                                  *)

\* Mutant: the flag is not set before the bridges are collected.
FlagLate ==
    /\ drainer.step = "begin" /\ drainer' = [drainer EXCEPT !.step = "collect", !.entries = entries]
    /\ UNCHANGED <<main, draining, entries, lock, session, connection, late, comers, cutShort>>

Flag ==
    /\ drainer.step = "begin" /\ draining' = TRUE
    /\ drainer' = [drainer EXCEPT !.step = "collect", !.entries = entries]
    /\ UNCHANGED <<main, entries, lock, session, connection, late, comers, cutShort>>

\* Each entry's bridges, under its lock.
CollectEntry(t) ==
    /\ drainer.step = "collect" /\ t \in drainer.entries /\ lock[t] = NoSession
    /\ drainer' = [drainer EXCEPT !.entries = @ \ {t},
                     !.bridges = @ \union {s \in Session : Of[s] = t /\ session[s] \in {"registered", "told"}}]
    /\ UNCHANGED <<main, draining, entries, lock, session, connection, late, comers, cutShort>>

Collected ==
    /\ drainer.step = "collect" /\ drainer.entries = {} /\ drainer' = [drainer EXCEPT !.step = "tell"]
    /\ UNCHANGED <<main, draining, entries, lock, session, connection, late, comers, cutShort>>

\* send_drain, at DRAIN_RATE: a bridge that went meanwhile is told in vain.
TellBridge(s) ==
    /\ drainer.step = "tell" /\ s \in drainer.bridges
    /\ drainer' = [drainer EXCEPT !.bridges = @ \ {s}]
    /\ session' = [session EXCEPT ![s] = IF @ = "gone" THEN @ ELSE "told"]
    /\ UNCHANGED <<main, draining, entries, lock, connection, late, comers, cutShort>>

Drained ==
    /\ drainer.step = "tell" /\ drainer.bridges = {} /\ drainer' = [drainer EXCEPT !.step = "done"]
    /\ UNCHANGED <<main, draining, entries, lock, session, connection, late, comers, cutShort>>

-----------------------------------------------------------------------------
(* Bridges.                                                                *)

\* register_bridge: the entry is locked while its record is read.
BeginRegister(s) ==
    /\ ~Gone /\ session[s] = "new" /\ lock[Of[s]] = NoSession
    /\ entries' = entries \union {Of[s]} /\ lock' = [lock EXCEPT ![Of[s]] = s]
    /\ session' = [session EXCEPT ![s] = "registering"]
    /\ UNCHANGED <<main, draining, drainer, connection, late, comers, cutShort>>

EndRegister(s) ==
    /\ session[s] = "registering" /\ lock' = [lock EXCEPT ![Of[s]] = NoSession]
    /\ session' = [session EXCEPT ![s] = IF draining THEN "told" ELSE "registered"]
    /\ UNCHANGED <<main, draining, drainer, entries, connection, late, comers, cutShort>>

\* The tunnel is not there, or the client goes.
Unregister(s) ==
    /\ session[s] \in {"registering", "registered", "told"}
    /\ session[s] = "registering" \/ lock[Of[s]] = NoSession
    /\ lock' = [lock EXCEPT ![Of[s]] = NoSession]
    /\ session' = [session EXCEPT ![s] = "gone"]
    /\ UNCHANGED <<main, draining, drainer, entries, connection, late, comers, cutShort>>

-----------------------------------------------------------------------------
(* API connections.                                                        *)

Accept(c) ==
    /\ Listening /\ connection[c] = "none" /\ connection' = [connection EXCEPT ![c] = "handshake"]
    /\ comers' = IF main = "waiting" THEN comers \union {c} ELSE comers
    /\ UNCHANGED <<main, draining, drainer, entries, lock, session, late, cutShort>>

Asked == main \in {"waiting", "closing", "released"}

\* serve_connection: one that comes during the drain is asked to close only at the end.
Serve(c) ==
    /\ connection[c] = "handshake" /\ connection' = [connection EXCEPT ![c] = "idle"]
    /\ late' = IF Asked THEN late \union {c} ELSE late
    /\ UNCHANGED <<main, draining, drainer, entries, lock, session, comers, cutShort>>

AskedToClose(c) == IF c \in late THEN Closing ELSE Asked

RequestArrives(c) ==
    /\ connection[c] \in {"idle", "kept"} /\ ~Gone /\ connection' = [connection EXCEPT ![c] = "busy"]
    /\ UNCHANGED <<main, draining, drainer, entries, lock, session, late, comers, cutShort>>

\* Answered: the connection is kept, unless the machine drains.
Respond(c) ==
    /\ connection[c] = "busy" /\ connection' = [connection EXCEPT ![c] = IF Asked THEN "closed" ELSE "kept"]
    /\ UNCHANGED <<main, draining, drainer, entries, lock, session, late, comers, cutShort>>

\* graceful_shutdown of one that has no request.
CloseIdle(c) ==
    /\ connection[c] \in {"idle", "kept"} /\ AskedToClose(c)
    /\ connection' = [connection EXCEPT ![c] = "closed"]
    /\ cutShort' = IF connection[c] = "idle" THEN cutShort \union {c} ELSE cutShort
    /\ UNCHANGED <<main, draining, drainer, entries, lock, session, late, comers>>

\* Its client goes, or the handshake fails.
Hangup(c) ==
    /\ connection[c] \in {"handshake", "idle", "busy", "kept"} /\ connection' = [connection EXCEPT ![c] = "closed"]
    /\ UNCHANGED <<main, draining, drainer, entries, lock, session, late, comers, cutShort>>

-----------------------------------------------------------------------------
Run == LeaveMesh \/ StartDrain \/ StopListening \/ Release \/ Exit
Drain == Flag \/ Collected \/ Drained \/ (\E t \in Tunnel : CollectEntry(t)) \/ \E s \in Session : TellBridge(s)

ShutdownNext ==
    \/ Signal \/ Run \/ Drain
    \/ \E s \in Session : BeginRegister(s) \/ EndRegister(s) \/ Unregister(s)
    \/ \E c \in Connection :
         Accept(c) \/ Serve(c) \/ RequestArrives(c) \/ Respond(c) \/ CloseIdle(c) \/ Hangup(c)

ShutdownSpec == ShutdownInit /\ [][ShutdownNext]_shutdownVars

-----------------------------------------------------------------------------
\* Once the drain is done every bridge on the machine was told, also one that was registering while the
\* drain collected, or whose entry did not exist yet.
DrainsAll == drainer.step = "done" => \A s \in Session : session[s] # "registered"

\* A connection that comes while the machine drains gets to send a request: the server closes it before
\* one only at the end.
FirstRequestServed == \A c \in cutShort \intersect comers : Closing

\* Draining is told to every bridge there is, and costs no one who comes meanwhile an answer.
DrainsGracefully == DrainsAll /\ FirstRequestServed
=============================================================================
