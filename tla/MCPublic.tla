------------------------------ MODULE MCPublic ------------------------------
(***************************************************************************)
(* The public side of the machines, for TLC: where visitors go, how a      *)
(* machine shuts down, and the signed requests between machines.  Each     *)
(* behaviour runs one of the three, chosen at the start.                   *)
(***************************************************************************)
EXTENDS Routing, Shutdown, PeerAuth

VARIABLE part

publicVars == <<part, routingVars, shutdownVars, authVars>>

\* The first two sessions are of one tunnel.
SessionTunnel == [s \in 1..3 |-> IF s = 3 THEN "b" ELSE "a"]

PublicInit ==
    /\ part \in {"routing", "shutdown", "auth"}
    /\ RoutingInit /\ ShutdownInit /\ AuthInit

PublicNext ==
    /\ UNCHANGED part
    /\ \/ part = "routing" /\ RoutingNext /\ UNCHANGED <<shutdownVars, authVars>>
       \/ part = "shutdown" /\ ShutdownNext /\ UNCHANGED <<routingVars, authVars>>
       \/ part = "auth" /\ AuthNext /\ UNCHANGED <<routingVars, shutdownVars>>

\* Machines go on, links are dialed again, time passes, visitors keep coming; every peer goes on by itself.
RoutingFairness ==
    /\ WF_routingVars(part = "routing" /\ Background)
    /\ WF_routingVars(part = "routing" /\ VisitorSteps)
    /\ WF_routingVars(part = "routing" /\ Age)
    /\ \A p \in Peer : WF_routingVars(part = "routing" /\ PeerSteps(p))

PublicSpec == PublicInit /\ [][PublicNext]_publicVars /\ RoutingFairness

\* Once faults end and the tunnel's client stays, visitors get through, whatever the edge had cached: also
\* an answer that no event corrected, which its TTL does.
Reaches == []<>(part = "routing" => visitor.step \in {"carried", "spliced"})
=============================================================================
