------------------------------ MODULE Reconcile ------------------------------
(***************************************************************************)
(* How an edit of a profile's routes reaches the bridge: config.rs and     *)
(* `route` of main.rs write the file, daemon.rs reads it in a pass of      *)
(* several reads, and the Supervisor of tunnel.rs takes the routes from a  *)
(* watch channel, which shows a reader only that something newer is there. *)
(*                                                                         *)
(* The file is truncated and written in two steps, which the clock may not *)
(* tell apart.  A command may be killed or fail between its write and its  *)
(* Reload, and a pass may fail at each read: neither is tried again.       *)
(* Identities are numbers (how one is made: Profile); what is carried over *)
(* an attached bridge is Channels' and Bridges' subject.                   *)
(***************************************************************************)
EXTENDS Naturals

CONSTANTS
    Name, Target,
    MaxEdits, MaxIdentities,    \* bounds: edits of the file, tunnels created
    MaxStops,                   \* bound: sessions, passes and commands that fail, daemons that stop, hangups
    Absent, Invalid             \* a name without a route; a file that does not parse

ASSUME ReconcileAssumption == {MaxEdits, MaxIdentities, MaxStops} \subseteq Nat /\ Absent \notin Target /\ Invalid \notin [Name -> Target \cup {Absent}]

VARIABLES
    config,         \* the file: its routes and its modification time
    command,        \* a command of the CLI
    identity,       \* the saved tunnel, 0: none
    created,        \* tunnels created
    daemon,         \* the daemon and its pass
    reload,         \* Reload commands it has not taken
    watch,          \* the tunnel's routes: the sender's side
    shutdown,       \* the tunnel's shutdown channel
    supervisor,
    missed,         \* history: a command or a pass broke off, and no pass began since
    edits, stops

files == <<config, identity, created>>
tunnelVars == <<watch, shutdown, supervisor>>
reconcileVars == <<files, command, daemon, reload, tunnelVars, missed, edits, stops>>

Empty == [n \in Name |-> Absent]
Contents == [Name -> Target \cup {Absent}]
Keys(routes) == {n \in Name : routes[n] # Absent}

NoCommand == [at |-> "idle", routes |-> Empty, up |-> FALSE]
NoDaemon == [at |-> "off", running |-> 0, stopped |-> FALSE, modified |-> 0, id |-> 0, routes |-> Empty]
NoSupervisor == [at |-> "off", id |-> 0, version |-> 0, told |-> FALSE, names |-> {}, targets |-> Empty]

ReconcileInit ==
    /\ config = [routes |-> Empty, modified |-> 0] /\ command = NoCommand
    /\ identity = 0 /\ created = 0 /\ daemon = NoDaemon /\ reload = FALSE
    /\ watch = [routes |-> Empty, version |-> 0] /\ shutdown = FALSE /\ supervisor = NoSupervisor
    /\ missed = FALSE /\ edits = 0 /\ stops = 0

Stops == stops < MaxStops /\ stops' = stops + 1

-----------------------------------------------------------------------------
(* Commands.                                                               *)

\* choose_route with a name, and the insertion.
Chosen(routes, n, t) == [routes EXCEPT ![n] = t]

\* `route add`: load, choose, and save unless nothing changes; then up.
RouteAdd(n, t) ==
    /\ command = NoCommand /\ config.routes # Invalid /\ edits < MaxEdits /\ edits' = edits + 1
    /\ command' = [at |-> IF config.routes[n] = t THEN "up" ELSE "truncate",
                   routes |-> Chosen(config.routes, n, t), up |-> TRUE]
    /\ UNCHANGED <<files, daemon, reload, tunnelVars, missed, stops>>

\* `route remove`: load, save, and tell a running service.
RouteRemove(n) ==
    /\ command = NoCommand /\ config.routes # Invalid /\ edits < MaxEdits /\ edits' = edits + 1
    /\ config.routes[n] # Absent
    /\ command' = [at |-> "truncate", routes |-> Chosen(config.routes, n, Absent), up |-> FALSE]
    /\ UNCHANGED <<files, daemon, reload, tunnelVars, missed, stops>>

\* save: the file is opened with truncation, ...
Truncate ==
    /\ command.at = "truncate" /\ command' = [command EXCEPT !.at = "write"]
    /\ config' = [routes |-> Empty, modified |-> config.modified + 1]
    /\ UNCHANGED <<identity, created, daemon, reload, tunnelVars, missed, edits, stops>>

\* ... then written, within the same tick of the clock or a later one.
WriteConfig ==
    /\ command.at = "write" /\ command' = [command EXCEPT !.at = IF command.up THEN "up" ELSE "reload"]
    /\ \E tick \in {0, 1} : config' = [routes |-> command.routes, modified |-> config.modified + tick]
    /\ UNCHANGED <<identity, created, daemon, reload, tunnelVars, missed, edits, stops>>

\* A command is killed, or its write, the creation or the Reload fails: the file may be
\* empty, the tunnel new, and the daemon is not told.
CommandEnds ==
    /\ command.at \in {"write", "up", "reload"} /\ Stops /\ command' = NoCommand /\ missed' = TRUE
    /\ UNCHANGED <<files, daemon, reload, tunnelVars, edits>>

\* `up`: the tunnel is created if the profile has none.
EnsureTunnel ==
    /\ command.at = "up" /\ command' = [command EXCEPT !.at = "reload"]
    /\ IF identity # 0 THEN UNCHANGED <<identity, created>>
       ELSE created < MaxIdentities /\ created' = created + 1 /\ identity' = created'
    /\ UNCHANGED <<config, daemon, reload, tunnelVars, missed, edits, stops>>

\* The service is started, or told to reload; a removal does not start it, and one that
\* is closing does not answer.
SendReload ==
    /\ command.at = "reload" /\ command' = NoCommand
    /\ reload' = (reload \/ daemon.at \notin {"off", "closing"})
    /\ daemon' = (IF daemon.at = "off" /\ command.up THEN [NoDaemon EXCEPT !.at = "read"] ELSE daemon)
    /\ UNCHANGED <<files, tunnelVars, missed, edits, stops>>

\* An editor replaces the file, perhaps by one that does not parse.
EditByHand(routes) ==
    /\ command = NoCommand /\ edits < MaxEdits /\ edits' = edits + 1
    /\ config' = [routes |-> routes, modified |-> config.modified + 1]
    /\ UNCHANGED <<identity, created, command, daemon, reload, tunnelVars, missed, stops>>

\* Another program removes the profile's tunnel.
RemovedElsewhere ==
    /\ identity # 0 /\ identity < MaxIdentities /\ identity' = 0
    /\ UNCHANGED <<config, created, command, daemon, reload, tunnelVars, missed, edits, stops>>

-----------------------------------------------------------------------------
(* The daemon.                                                             *)

Between == daemon.at = "idle"
HasTunnel == daemon.running # 0

\* check: a tunnel that stopped is given up, ...
NoticeStopped ==
    /\ Between /\ HasTunnel /\ supervisor.at = "stopped"
    /\ daemon' = [daemon EXCEPT !.running = 0, !.stopped = TRUE] /\ supervisor' = NoSupervisor
    /\ UNCHANGED <<files, command, reload, watch, shutdown, missed, edits, stops>>

\* ... and a file modified since the last pass starts another.
NoticeEdit ==
    /\ Between /\ ~(HasTunnel /\ supervisor.at = "stopped")
    /\ ~daemon.stopped /\ config.modified # daemon.modified
    /\ daemon' = [daemon EXCEPT !.at = "read"]
    /\ UNCHANGED <<files, command, reload, tunnelVars, missed, edits, stops>>

TakeReload ==
    /\ Between /\ reload /\ reload' = FALSE
    /\ daemon' = [daemon EXCEPT !.at = "read", !.stopped = FALSE]
    /\ UNCHANGED <<files, command, tunnelVars, missed, edits, stops>>

Hangup ==
    /\ Between /\ Stops /\ daemon' = [daemon EXCEPT !.at = "read"]
    /\ UNCHANGED <<files, command, reload, tunnelVars, missed, edits>>

\* Mutant: the modification time is read at the end of a pass.
PassedModified == [daemon EXCEPT !.at = "idle", !.id = 0, !.routes = Empty, !.modified = config.modified]

Passed == [daemon EXCEPT !.at = "idle", !.id = 0, !.routes = Empty]

\* try_reconcile: the modification time, ...
ReadModified ==
    /\ daemon.at = "read" /\ daemon' = [daemon EXCEPT !.at = "identity", !.modified = config.modified]
    /\ missed' = FALSE
    /\ UNCHANGED <<files, command, reload, tunnelVars, edits, stops>>

\* ... the identity, without which no tunnel runs, ...
ReadIdentity ==
    /\ daemon.at = "identity"
    /\ daemon' = (IF identity = 0 THEN [daemon EXCEPT !.at = "idle", !.running = 0]
                  ELSE [daemon EXCEPT !.at = "load", !.id = identity])
    /\ supervisor' = (IF identity = 0 THEN NoSupervisor ELSE supervisor)
    /\ UNCHANGED <<files, command, reload, watch, shutdown, missed, edits, stops>>

\* ... the routes ...
LoadConfig ==
    /\ daemon.at = "load" /\ config.routes # Invalid /\ daemon' = [daemon EXCEPT !.at = "apply", !.routes = config.routes]
    /\ UNCHANGED <<files, command, reload, tunnelVars, missed, edits, stops>>

\* ... unless they do not parse: what runs is left.
LoadFails ==
    /\ daemon.at = "load" /\ config.routes = Invalid /\ daemon' = Passed
    /\ UNCHANGED <<files, command, reload, tunnelVars, missed, edits, stops>>

\* The same tunnel gets the routes (set_routes takes what load did).  Another one is dropped, and
\* the saved one, read again, is started (connect).
Same == daemon.running = daemon.id
Apply ==
    /\ daemon.at = "apply"
    /\ \/ Same /\ watch' = [routes |-> daemon.routes, version |-> watch.version + 1]
          /\ daemon' = Passed /\ UNCHANGED <<shutdown, supervisor>>
       \/ ~Same /\ identity # 0 /\ watch' = [routes |-> daemon.routes, version |-> 0] /\ shutdown' = FALSE
          /\ supervisor' = [NoSupervisor EXCEPT !.at = "top", !.id = identity]
          /\ daemon' = [Passed EXCEPT !.running = daemon.id, !.stopped = FALSE]
       \/ ~Same /\ identity = 0 /\ supervisor' = NoSupervisor /\ daemon' = [Passed EXCEPT !.running = 0]
          /\ UNCHANGED <<watch, shutdown>>
    /\ UNCHANGED <<files, command, reload, missed, edits, stops>>

\* A file cannot be read, or the identity cannot be used: the error is recorded.
PassFails ==
    /\ daemon.at \in {"identity", "load"} \/ (daemon.at = "apply" /\ ~Same)
    /\ Stops /\ missed' = TRUE
    /\ IF daemon.at = "apply" THEN daemon' = [Passed EXCEPT !.running = 0] /\ supervisor' = NoSupervisor
       ELSE daemon' = Passed /\ UNCHANGED supervisor
    /\ UNCHANGED <<files, command, reload, watch, shutdown, edits>>

\* A Stop command or a signal: the tunnel is closed ...
StopDaemon ==
    /\ Between /\ Stops /\ daemon' = [daemon EXCEPT !.at = "closing"] /\ shutdown' = TRUE
    /\ UNCHANGED <<files, command, reload, watch, supervisor, missed, edits>>

\* ... and waited for.
Closed ==
    /\ daemon.at = "closing" /\ (HasTunnel => supervisor.at = "stopped")
    /\ daemon' = NoDaemon /\ supervisor' = NoSupervisor /\ reload' = FALSE
    /\ UNCHANGED <<files, command, watch, shutdown, missed, edits, stops>>

\* The service manager, or the next login, starts it.
StartDaemon ==
    /\ daemon.at = "off" /\ created > 0 /\ daemon' = [NoDaemon EXCEPT !.at = "read"]
    /\ UNCHANGED <<files, command, reload, tunnelVars, missed, edits, stops>>

-----------------------------------------------------------------------------
(* Supervisor::run and session.                                            *)

Goto(at) == supervisor' = [supervisor EXCEPT !.at = at]
Newer == watch.version # supervisor.version
Told == shutdown /\ ~supervisor.told        \* `shutdown.changed()` is ready
others == <<files, command, daemon, reload, watch, shutdown, missed, edits>>

\* Mutant: the loop does not look at the shutdown flag.
TopUnchecked ==
    /\ supervisor.at = "top"
    /\ supervisor' = [supervisor EXCEPT !.at = IF watch.routes = Empty THEN "waiting" ELSE "session",
                                        !.version = watch.version]
    /\ UNCHANGED <<others, stops>>

Top ==
    /\ supervisor.at = "top"
    /\ IF shutdown THEN Goto("stopped")
       ELSE supervisor' = [supervisor EXCEPT !.at = IF watch.routes = Empty THEN "waiting" ELSE "session",
                                             !.version = watch.version]
    /\ UNCHANGED <<others, stops>>

\* Without routes: wait for a change of either channel.
WaitEnds ==
    /\ supervisor.at = "waiting"
    /\ \/ Newer /\ supervisor' = [supervisor EXCEPT !.at = "top", !.version = watch.version]
       \/ Told /\ supervisor' = [supervisor EXCEPT !.at = "top", !.told = TRUE]
    /\ UNCHANGED <<others, stops>>

\* session: the routes are read again, and attached with.
SessionBegins ==
    /\ supervisor.at = "session"
    /\ supervisor' = [supervisor EXCEPT !.at = "connect", !.version = watch.version,
                                        !.names = Keys(watch.routes), !.targets = watch.routes]
    /\ UNCHANGED <<others, stops>>

Attached == supervisor.at = "connect" /\ Goto("attached") /\ UNCHANGED <<others, stops>>

\* An attempt or a session that ends waits before the next one; some answers end the tunnel.
SessionFails ==
    /\ supervisor.at \in {"connect", "attached"} /\ Stops
    /\ \/ Goto("backoff")
       \/ supervisor.at = "connect" /\ Goto("stopped")
    /\ UNCHANGED others

BackoffEnds == supervisor.at = "backoff" /\ Goto("top") /\ UNCHANGED <<others, stops>>

\* The same names: new targets; other names: another session.
RoutesChanged ==
    /\ supervisor.at = "attached" /\ Newer
    /\ IF Keys(watch.routes) = supervisor.names
       THEN supervisor' = [supervisor EXCEPT !.version = watch.version, !.targets = watch.routes]
       ELSE supervisor' = [supervisor EXCEPT !.at = "top", !.version = watch.version]
    /\ UNCHANGED <<others, stops>>

\* connect watches a clone of the channel; the backoff goes back to the top.
ShutdownSeen ==
    /\ supervisor.at \in {"connect", "attached", "backoff"} /\ Told
    /\ supervisor' = [supervisor EXCEPT !.at = IF supervisor.at = "backoff" THEN "top" ELSE "stopped",
                                        !.told = supervisor.at # "connect"]
    /\ UNCHANGED <<others, stops>>

-----------------------------------------------------------------------------
Pass == ReadModified \/ ReadIdentity \/ LoadConfig \/ LoadFails \/ Apply
DaemonWork == NoticeStopped \/ NoticeEdit \/ TakeReload \/ Pass \/ Closed
Commands == Truncate \/ WriteConfig \/ EnsureTunnel \/ SendReload
Supervise == Top \/ WaitEnds \/ SessionBegins \/ Attached \/ BackoffEnds \/ RoutesChanged \/ ShutdownSeen

ReconcileNext ==
    \/ Commands \/ DaemonWork \/ Supervise
    \/ CommandEnds \/ PassFails \/ RemovedElsewhere \/ Hangup \/ StopDaemon \/ StartDaemon \/ SessionFails
    \/ \E n \in Name : RouteRemove(n) \/ \E t \in Target : RouteAdd(n, t)
    \/ \E routes \in Contents \cup {Invalid} : EditByHand(routes)

-----------------------------------------------------------------------------
\* The tunnel has the routes of the file: by its names at the server and its targets here.
Carries ==
    \/ supervisor.at = "attached" /\ supervisor.targets = config.routes /\ supervisor.names = Keys(config.routes)
    \/ supervisor.at = "waiting" /\ config.routes = Empty

\* Once the file is left alone, the running tunnel comes to carry exactly its routes and to be the
\* saved tunnel, whatever was read half-written or between two reads; unless it stopped for good, or
\* a command broke off before its Reload, or a pass did, and nothing made the daemon look again.
RoutesFollow ==
    <>[](daemon.at \in {"off", "closing"} \/ daemon.stopped \/ missed \/ identity = 0 \/ config.routes = Invalid
         \/ (Carries /\ supervisor.id = identity))

\* A tunnel that is told to close does, wherever its supervisor was.
Closes == (daemon.at = "closing") ~> (daemon.at # "closing")

==============================================================================
