------------------------------ MODULE MCClient ------------------------------
(***************************************************************************)
(* The client's side, for TLC: a profile's files, its routes' way to the   *)
(* bridge, and the processes of its service.  What they share (a saved     *)
(* identity, a daemon that runs) each module keeps its own view of, so     *)
(* each behaviour runs one of them, chosen at the start.                   *)
(***************************************************************************)
EXTENDS Profile, Reconcile, Lifecycle

CONSTANT a

VARIABLE part

clientVars == <<part, profileVars, reconcileVars, lifecycleVars>>

ClientInit ==
    /\ part \in {"profile", "routes", "closing", "service"}
    /\ ProfileInit /\ ReconcileInit /\ LifecycleInit /\ (part # "service" => supported)

\* Two names, one tunnel and no failure; or one name, two tunnels and failures (after the last
\* edit, one fewer).
Editing == ReconcileNext /\ stops' = 0 /\ created' <= 1
OneName(routes) == IF routes = Invalid THEN TRUE ELSE Keys(routes) \subseteq {a}
Failing ==
    /\ ReconcileNext /\ OneName(command'.routes) /\ OneName(config'.routes) /\ (edits' = MaxEdits => stops' < MaxStops)
Reconciling == part \in {"routes", "closing"}

ClientNext ==
    /\ UNCHANGED part
    /\ \/ part = "profile" /\ ProfileNext /\ UNCHANGED <<reconcileVars, lifecycleVars>>
       \/ /\ \/ part = "routes" /\ Editing
             \/ part = "closing" /\ Failing
          /\ UNCHANGED <<profileVars, lifecycleVars>>
       \/ part = "service" /\ LifecycleNext /\ UNCHANGED <<profileVars, reconcileVars>>

\* A program calls ensure again and again, the service goes on, and certificates are issued.
ProfileFairness ==
    /\ WF_profileVars(part = "profile" /\ UserWork)
    /\ WF_profileVars(part = "profile" /\ ServiceWork)
    /\ WF_profileVars(part = "profile" /\ IssueAny)

\* Commands, the daemon's loop and the supervisor's task go on.
ReconcileFairness ==
    /\ WF_reconcileVars(Reconciling /\ Commands)
    /\ WF_reconcileVars(Reconciling /\ DaemonWork)
    /\ WF_reconcileVars(Reconciling /\ Supervise)

\* Commands and processes go on, and the service manager restarts what failed.
LifecycleFairness ==
    /\ WF_lifecycleVars(part = "service" /\ CommandSteps)
    /\ WF_lifecycleVars(part = "service" /\ Restarts)
    /\ WF_lifecycleVars(part = "service" /\ Reaped)
    /\ \A p \in Serving : WF_lifecycleVars(part = "service" /\ ProcessSteps(p))

ClientSpec ==
    ClientInit /\ [][ClientNext]_clientVars /\ ProfileFairness /\ ReconcileFairness /\ LifecycleFairness

\* A program that calls `ensure` again and again ends with a usable tunnel and its current certificate;
\* not one whose first certificate failed, whose removal was cut off, that two processes re-keyed, or
\* whose failed certificate came after all.
Provisions == <>[](part = "profile" => Usable \/ FailedFirst \/ Gone \/ torn \/ crossed)

\* What client.rs says of ensure: "creating it or re-issuing a failed certificate as needed".
EnsureReissues == <>[](part = "profile" => Usable \/ Gone \/ torn \/ crossed)
=============================================================================
