------------------------------ MODULE Lifecycle ------------------------------
(***************************************************************************)
(* The processes of a profile's background service: serve of daemon.rs and *)
(* the commands of the CLI's service.rs, which see the processes only      *)
(* through the control socket.  A lock file keeps a second process out.    *)
(* The service manager (systemd or launchd) is external: it starts the     *)
(* registered unit, restarts it after a failure and stops it.              *)
(***************************************************************************)
EXTENDS Naturals

CONSTANTS
    MaxUps,         \* bound: commands run
    MaxCrashes,     \* bound: processes that die, services started by hand, commands that break off
    Nowhere         \* no socket file

ASSUME LifecycleAssumption == {MaxUps, MaxCrashes} \subseteq Nat

\* The unit's process, and one started without it.
Serving == {"unit", "plain"}

VARIABLES
    supported,      \* whether there is a service manager
    at,             \* each process
    socket,         \* the process that bound the socket file
    registered,     \* the unit is installed
    cli,            \* the command being run
    halted,         \* history: the unit was told to stop, or not started, and nothing has started it since
    ups, crashes

lifecycleVars == <<supported, at, socket, registered, cli, halted, ups, crashes>>

LifecycleInit ==
    /\ at = [p \in Serving |-> "off"] /\ socket = Nowhere /\ registered = FALSE
    /\ supported \in BOOLEAN /\ cli = "idle" /\ halted = FALSE /\ ups = 0 /\ crashes = 0

Goes(p, to) == at' = [at EXCEPT ![p] = to]

\* What `status` finds: a listener behind the file.
Answers == socket # Nowhere /\ at[socket] = "serving"

-----------------------------------------------------------------------------
(* serve.                                                                  *)

\* Mutant: the lock is given up before the socket is removed.
HoldsBriefly(p) == at[p] \in {"locked", "serving", "closing"}

\* The lock file, until the process ends.
Holds(p) == at[p] \in {"locked", "serving", "closing", "closed", "unlinked"}

\* Mutant: a service that finds another one ends without a failure.
TryLockQuietly(p) ==
    /\ at[p] = "starting"
    /\ Goes(p, IF \E q \in Serving : Holds(q) THEN "off" ELSE "locked")
    /\ UNCHANGED <<supported, socket, registered, cli, halted, ups, crashes>>

TryLock(p) ==
    /\ at[p] = "starting"
    /\ Goes(p, IF \E q \in Serving : Holds(q) THEN "failed" ELSE "locked")
    /\ UNCHANGED <<supported, socket, registered, cli, halted, ups, crashes>>

\* A file left by another process is replaced.
BindSocket(p) ==
    /\ at[p] = "locked" /\ socket' = p /\ Goes(p, "serving")
    /\ UNCHANGED <<supported, registered, cli, halted, ups, crashes>>

\* The listener goes, the tunnel is closed, ...
CloseTunnel(p) ==
    /\ at[p] = "closing" /\ Goes(p, "closed") /\ UNCHANGED <<supported, socket, registered, cli, halted, ups, crashes>>

\* ... the file is removed, and the process ends.
RemoveSocket(p) ==
    /\ at[p] = "closed" /\ socket' = Nowhere /\ Goes(p, "unlinked")
    /\ UNCHANGED <<supported, registered, cli, halted, ups, crashes>>

Exit(p) == at[p] = "unlinked" /\ Goes(p, "off") /\ UNCHANGED <<supported, socket, registered, cli, halted, ups, crashes>>

\* A process dies; its socket file stays.
Dies(p) ==
    /\ at[p] \notin {"off", "failed"} /\ crashes < MaxCrashes /\ crashes' = crashes + 1 /\ Goes(p, "failed")
    /\ UNCHANGED <<supported, socket, registered, cli, halted, ups>>

\* A failed process without a unit is gone.
Reaped ==
    /\ at["plain"] = "failed" /\ Goes("plain", "off") /\ UNCHANGED <<supported, socket, registered, cli, halted, ups, crashes>>

\* `serve` in the foreground, and its end by a signal.
ServeByHand ==
    /\ at["plain"] = "off" /\ crashes < MaxCrashes /\ crashes' = crashes + 1 /\ Goes("plain", "starting")
    /\ UNCHANGED <<supported, socket, registered, cli, halted, ups>>

Interrupt ==
    /\ at["plain"] = "serving" /\ crashes < MaxCrashes /\ crashes' = crashes + 1 /\ Goes("plain", "closing")
    /\ UNCHANGED <<supported, socket, registered, cli, halted, ups>>

\* Restart=on-failure, unless the unit is being stopped.
Restarts ==
    /\ registered /\ cli # "uninstall" /\ at["unit"] = "failed" /\ Goes("unit", "starting") /\ halted' = FALSE
    /\ UNCHANGED <<supported, socket, registered, cli, ups, crashes>>

-----------------------------------------------------------------------------
(* up, down and stop.                                                      *)

Command(name) == cli = "idle" /\ ups < MaxUps /\ ups' = ups + 1 /\ cli' = name

\* With a service that answers, `up` is a Reload; otherwise it replaces what is not registered.
UpCommand ==
    /\ \/ Answers /\ (supported => registered) /\ Command("idle")
       \/ ~Answers /\ ~supported /\ Command("spawn")
       \/ supported /\ ~(registered /\ Answers) /\ Command("stop_up")
    /\ UNCHANGED <<supported, at, socket, registered, halted, crashes>>

\* Stop: the status is read again, and the process that answers now is asked to stop.
StopRequest ==
    /\ cli \in {"stop_up", "stop_down"}
    /\ IF Answers THEN /\ Goes(socket, "closing") /\ cli' = (IF cli = "stop_up" THEN "wait_up" ELSE "wait_down")
                       /\ halted' = (halted \/ socket = "unit")
       ELSE cli' = (IF cli = "stop_up" THEN "install" ELSE "done") /\ UNCHANGED <<at, halted>>
    /\ UNCHANGED <<supported, socket, registered, ups, crashes>>

\* stop waits until nothing answers.
StopWaits ==
    /\ cli \in {"wait_up", "wait_down"} /\ ~Answers /\ cli' = (IF cli = "wait_up" THEN "install" ELSE "done")
    /\ UNCHANGED <<supported, at, socket, registered, halted, ups, crashes>>

\* install: the unit is written, enabled and started; one whose process has not ended is left as it is.
Install ==
    /\ cli = "install" /\ cli' = "idle" /\ registered' = TRUE
    /\ IF at["unit"] \in {"off", "failed"} THEN Goes("unit", "starting") /\ halted' = FALSE ELSE UNCHANGED <<at, halted>>
    /\ UNCHANGED <<supported, socket, ups, crashes>>

\* A command is killed, a request or the service manager's answer fails, or stop gives up waiting: the
\* unit may be written and not started.
CommandBreaks ==
    /\ cli \in {"stop_up", "stop_down", "wait_up", "wait_down", "install", "spawn"} /\ cli' = "idle"
    /\ crashes < MaxCrashes /\ crashes' = crashes + 1
    /\ \/ UNCHANGED <<registered, halted>>
       \/ cli = "install" /\ registered' = TRUE /\ halted' = TRUE
    /\ UNCHANGED <<supported, at, socket, ups>>

\* ensure_running without a service manager; a service still closing keeps the new one out.
Spawn ==
    /\ cli = "spawn" /\ cli' = "idle"
    /\ \E p \in Serving : at[p] \in {"off", "failed"} /\ Goes(p, "starting")
    /\ UNCHANGED <<supported, socket, registered, halted, ups, crashes>>

\* down: the unit is stopped (the manager waits for its end) ...
DownCommand ==
    /\ Command("uninstall") /\ halted' = (halted \/ registered)
    /\ at' = (IF ~registered THEN at
              ELSE [at EXCEPT !["unit"] = IF @ = "serving" THEN "closing"
                        ELSE IF @ \in {"starting", "locked", "failed"} THEN "off" ELSE @])
    /\ UNCHANGED <<supported, socket, registered, crashes>>

\* ... and removed; then whatever still answers is stopped.
Uninstall ==
    /\ cli = "uninstall" /\ at["unit"] \notin {"closing", "closed", "unlinked"}
    /\ registered' = FALSE /\ cli' = "stop_down" /\ UNCHANGED <<supported, at, socket, halted, ups, crashes>>

DownReturns == cli = "done" /\ cli' = "idle" /\ UNCHANGED <<supported, at, socket, registered, halted, ups, crashes>>

-----------------------------------------------------------------------------
ProcessSteps(p) == TryLock(p) \/ BindSocket(p) \/ CloseTunnel(p) \/ RemoveSocket(p) \/ Exit(p)
CommandSteps == StopRequest \/ StopWaits \/ Install \/ Spawn \/ Uninstall \/ DownReturns

LifecycleNext ==
    \/ UpCommand \/ DownCommand \/ CommandSteps \/ CommandBreaks \/ Restarts \/ Reaped \/ ServeByHand \/ Interrupt
    \/ \E p \in Serving : ProcessSteps(p) \/ Dies(p)

LifecycleSpec == LifecycleInit /\ [][LifecycleNext]_lifecycleVars

-----------------------------------------------------------------------------
\* A service that runs can be reached: the socket file is its own, whatever a process that ended,
\* died or lost the lock left or took away.  So two never serve at once.
Reached == \A p \in Serving : at[p] = "serving" => socket = p

\* A registered profile comes to be served and stays so, after crashes, services run by hand and commands
\* that broke off; unless its unit was told to stop and nothing has started it since.  That is also how an
\* `up` can end: a unit silent at its first look and answering at stop's is told to stop, and still closing
\* when it is to be started.
StaysUp == <>[](registered /\ ~halted => Answers)

==============================================================================
