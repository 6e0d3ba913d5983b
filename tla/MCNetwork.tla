------------------------------ MODULE MCNetwork ------------------------------
(***************************************************************************)
(* What connects machines and clients, for TLC: the mesh, a tunnel's       *)
(* bridges and the connections over one of them.  Bridges takes the mesh   *)
(* at its word and a bridge is the same to its connections whatever its    *)
(* session goes through, so each behaviour runs one of them, chosen at the *)
(* start.                                                                  *)
(***************************************************************************)
EXTENDS Mesh, Bridges, Channels

CONSTANTS a, b, a1, b1, b2, c1

VARIABLE part

networkVars == <<part, nodeVars, vars, channelsVars>>

\* The address of a is the lower one.
MCAddress == [m \in Node |-> [n \in Lives |-> IF m = a THEN 1 ELSE 2]]

\* b may begin in any of its lives, with a bridge attached.
MCFirst == {first \in [Node -> Lives] : first[a] = 1}
MCBefore == [m \in Node |-> IF m = b THEN 1 ELSE 0]

\* b1 and b2 connect to machine b, the others to machine a.
MCOn == [x \in Bridge |-> IF x \in {b1, b2} THEN b ELSE a]

\* Every bridge of the tunnel wants its base hostname.
MCClaims == [x \in Bridge |-> {"@"}]

\* What visitors and targets of the connections send.
Just(n, m) == [c \in Conn |-> IF c = c1 THEN n ELSE m]
MC11 == Just(1, 1)
MC21 == Just(2, 1)
MC20 == Just(2, 0)

\* Another bridge of the tunnel may have the number that comes next.
MCElsewhere == {{}, {1}}

Start(p) ==
    /\ part = p /\ MeshInit /\ Init /\ ChannelsInit
    /\ p # "mesh" => life[b] = 1

\* Connections: two that share a bridge, short ones, which time out when they are quiet
\* (which of them has which number makes no difference); two that have one number, up to a
\* clash, after which nothing is claimed; and a longer one by itself.  The one whose target
\* answers is routed first.
Short(c) == sent'[c] <= 1 /\ tsent'[c] <= 1
Comes(c) == visit'[c] # "new"
Sharing ==
    /\ ChannelsNext
    /\ \A c \in Conn : Short(c) /\ (Idle(c) => Expired(c))
    /\ \A c \in Conn : Comes(c) => Comes(c1) /\ num'[c] = IF c = c1 THEN 2 ELSE 1
Reusing ==
    /\ ChannelsNext /\ ~clash
    /\ \A c \in Conn : Short(c)
    /\ \A c, d \in Conn : Comes(c) /\ Comes(d) => Comes(c1) /\ num'[c] = num'[d]
Streaming == ChannelsNext /\ \A c \in Conn \ {c1} : ~Comes(c)

\* Attaching, with nothing else going on; and deleting, with one bridge on each machine.
Attaching == Next /\ UNCHANGED <<deleted, faults>>
Deleting == Next /\ \A x \in Bridge \ {a1, b1} : stage'[x] = stage[x]
Bridging == part \in {"bridges", "attach", "delete"}

NetworkNext ==
    /\ UNCHANGED part
    /\ \/ part = "mesh" /\ MeshNext /\ UNCHANGED <<vars, channelsVars>>
       \/ /\ \/ part = "bridges" /\ Next
             \/ part = "attach" /\ Attaching
             \/ part = "delete" /\ Deleting
          /\ UNCHANGED <<nodeVars, channelsVars>>
       \/ /\ \/ part = "sharing" /\ Sharing
             \/ part = "reusing" /\ Reusing
             \/ part = "streaming" /\ Streaming
          /\ UNCHANGED <<nodeVars, vars>>

NetworkSpec == (\E p \in {"mesh", "bridges", "sharing", "reusing", "streaming"} : Start(p)) /\ [][NetworkNext]_networkVars

\* Tokio runs every task; a dialer tries again for as long as its peer is in DNS; the
\* platform restarts a machine; a shutdown goes on to its end.
MeshFairness ==
    \A m \in Node :
        /\ WF_nodeVars(part = "mesh" /\ (TellLeaving(m) \/ Halt(m) \/ \E new \in Lives : Restart(m, new)))
        /\ \A p \in Node \ {m} : WF_nodeVars(part = "mesh" /\ \E l \in Link : Dial(l, m, p))
        /\ \A l \in Link : WF_nodeVars(part = "mesh" /\ LinkStep(l, m))

\* An attach's questions end (answered, refused or timed out), and whoever waits for
\* an entry's lock gets it (tokio's mutex is fair).  Notices are acted on, a close the
\* server sent ends the session, and machines link again.  Clients stay or go.  A bridge
\* takes an entry's lock finitely often, so that weak fairness is enough.
BridgesFairness ==
    /\ \A x \in Bridge :
         /\ WF_vars(Bridging /\ Asking(x)) /\ WF_vars(Bridging /\ Attach(x))
         /\ WF_vars(Bridging /\ x \in closing /\ Close(x))
    /\ \A m \in Machine :
         WF_vars(Bridging /\ Notices(m)) /\ WF_vars(Bridging /\ Closing(m))
    /\ WF_vars(Bridging /\ \E pair \in Pairs : LinkUp(pair))

FairBridges == (\E p \in {"attach", "delete"} : Start(p)) /\ [][NetworkNext]_networkVars /\ BridgesFairness

\* The fairness of connections needs no such guard: where none is opened, nothing of it is enabled.
FairLinks ==
    /\ \E p \in {"mesh", "streaming"} : Start(p)
    /\ [][NetworkNext]_networkVars /\ MeshFairness /\ ChannelsFairness

\* Once machines, links and bridges are left alone, every machine is linked with
\* every other one by one link both know, and its table is what the other one
\* has attached.
Converges == <>[](part = "mesh" => Agreed)
=============================================================================
