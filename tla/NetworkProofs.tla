--------------------------- MODULE NetworkProofs ---------------------------
(***************************************************************************)
(* What holds between machines, for any number of them.                    *)
(*                                                                         *)
(* The bridges of a tunnel, for any sessions, routes and disturbances: the *)
(* variables keep their types, no two attached bridges of a machine claim  *)
(* one route, and every attached bridge is announced; and, unless records  *)
(* are dropped from memory under a silent bridge, nothing else is.         *)
(*                                                                         *)
(* That routes stay exclusive rests on the entry lock: the check an attach *)
(* makes before it asks other machines must still be true when it claims   *)
(* its routes, and it is, because nobody else attaches on a machine whose  *)
(* entry is held.                                                          *)
(*                                                                         *)
(* The mesh, for any links, lives, addresses and length of the queues: the *)
(* frames on their way over a link lead from what the reader knows to what *)
(* the writer has attached.  The invariant says so of every direction of   *)
(* every link whose writer still queues its changes there: before the      *)
(* reader registered the link, from whatever record it may begin with, and *)
(* then from the record there is.                                          *)
(***************************************************************************)
EXTENDS Bridges, Mesh, SequenceTheorems, WellFoundedInduction, TLAPS

-----------------------------------------------------------------------------
(* The bridges of a tunnel. *)

\* An attach asks exactly while it holds its machine's entry.
Locks ==
    /\ \A b \in Bridge : stage[b] = "asking" <=> holder[On[b]] = b
    /\ \A m \in Machine : holder[m] # NoBridge => On[holder[m]] = m

\* The routes of an attached bridge are claimed by no other bridge of its machine
\* that is attached, or asks.
Exclusive ==
    \A b, c \in Bridge :
        /\ b # c /\ On[b] = On[c]
        /\ stage[b] \in {"attached", "asking"} /\ stage[c] = "attached"
        => Claims[b] \intersect Claims[c] = {}

\* An attached bridge is in its machine's table.
AllAnnounced == \A b \in Bridge : stage[b] = "attached" => b \in announced[On[b]]

\* The inductive invariant.
BridgeInv == VarsOK /\ Locks /\ Exclusive /\ AllAnnounced

-----------------------------------------------------------------------------

\* Sessions that only leave the stages attached and asking, a lock that goes with
\* them and a table that keeps what stays attached disturb nothing.
LEMMA LeavingKeeps ==
    ASSUME VarsOK, Exclusive, VarsOK',
           \A b \in Bridge : stage'[b] = "attached" => stage[b] = "attached",
           \A b \in Bridge : stage'[b] = "asking" => stage[b] = "asking"
    PROVE  Exclusive'
  BY DEF VarsOK, Exclusive

\* The same when sessions, locks and table are left alone.
LEMMA Alone ==
    ASSUME BridgeInv, VarsOK', UNCHANGED <<stage, holder, announced>>
    PROVE  BridgeInv'
  BY DEF BridgeInv, Locks, Exclusive, AllAnnounced

\* It holds at the start: nothing is registered, nothing is locked.
LEMMA InitInv == Init => BridgeInv
  <1> SUFFICES ASSUME Init PROVE BridgeInv
    OBVIOUS
  <1>1. VarsOK
    BY BridgeAssumption DEF Init, VarsOK, Stages, News
  <1>2. Locks /\ Exclusive /\ AllAnnounced
    BY BridgeAssumption DEF Init, Locks, Exclusive, AllAnnounced
  <1> QED
    BY <1>1, <1>2 DEF BridgeInv

\* The actions that leave sessions, locks and table alone.
LEMMA QuietSteps ==
    ASSUME BridgeInv,
           NEW m \in Machine, NEW p \in Machine, NEW pair \in Pairs, NEW notice \in News,
           \/ FreshEnds(m) \/ BackoffEnds(m) \/ Forget(m)
           \/ Remove(m) \/ TellDeleted(m) \/ HearDeleted(m, p)
           \/ CheckDeleted(m, notice) \/ CloseDeleted(m) \/ List(m)
           \/ Follow(m, p) \/ LinkDown(pair) \/ LinkUp(pair)
    PROVE  BridgeInv'
  <1> USE DEF BridgeInv
  <1>1. CASE FreshEnds(m) \/ BackoffEnds(m)
    <2>1. VarsOK'
      BY <1>1 DEF FreshEnds, BackoffEnds, VarsOK, bridgeVars, meshVars
    <2> QED
      BY <1>1, <2>1, Alone DEF FreshEnds, BackoffEnds, bridgeVars, meshVars
  <1>2. CASE Forget(m)
    <2>1. VarsOK'
      BY <1>2 DEF Forget, Fault, VarsOK, bridgeVars, meshVars
    <2> QED
      BY <1>2, <2>1, Alone DEF Forget, bridgeVars, meshVars
  <1>3. CASE Remove(m)
    <2>1. deleted' \in BOOLEAN
      BY <1>3, Zenon DEF Remove, VarsOK
    <2>2. fresh' \in [Machine -> BOOLEAN]
      BY <1>3 DEF Remove, VarsOK
    <2>3. telling' \in [Machine -> BOOLEAN]
      BY <1>3 DEF Remove, VarsOK
    <2>4. closing' \subseteq Bridge
      BY <1>3 DEF Remove, VarsOK, Registered, Here
    <2>5. cached' \in [Machine -> {"none", "live", "deleted"}]
      BY <1>3 DEF Remove, VarsOK
    <2>6. faults' \in Nat
      <3>1. faults' = faults \/ Fault("save") \/ Fault("forget")
        BY <1>3, Zenon DEF Remove
      <3> QED
        BY <3>1 DEF Fault, VarsOK
    <2>7. VarsOK'
      BY <1>3, <2>1, <2>2, <2>3, <2>4, <2>5, <2>6 DEF Remove, VarsOK, meshVars
    <2> QED
      BY <1>3, <2>7, Alone DEF Remove, meshVars
  <1>4. CASE TellDeleted(m)
    <2>1. told' \subseteq Machine \X Machine
      <3>1. \A q \in Machine : <<m, q>> \in Machine \X Machine
        OBVIOUS
      <3>2. {<<m, q>> : q \in {r \in Machine \ {m} : {m, r} \in linked}} \subseteq Machine \X Machine
        BY <3>1, Zenon
      <3> QED
        BY <1>4, <3>2, Zenon DEF TellDeleted, VarsOK
    <2>2. telling' \in [Machine -> BOOLEAN]
      BY <1>4 DEF TellDeleted, VarsOK
    <2>3. VarsOK'
      BY <1>4, <2>1, <2>2 DEF TellDeleted, VarsOK, cacheVars, bridgeVars
    <2> QED
      BY <1>4, <2>3, Alone DEF TellDeleted, bridgeVars
  <1>5. CASE HearDeleted(m, p)
    <2>1. VarsOK'
      BY <1>5 DEF HearDeleted, Noticed, News, VarsOK, cacheVars, bridgeVars
    <2> QED
      BY <1>5, <2>1, Alone DEF HearDeleted, bridgeVars
  <1>6. CASE CheckDeleted(m, notice)
    <2>1. \E now \in SUBSET News : news' = [news EXCEPT ![m] = (@ \ {notice}) \union now]
      <3>1. {} \in SUBSET News /\ {"close"} \in SUBSET News
        BY DEF News
      <3> QED
        BY <1>6, <3>1 DEF CheckDeleted, Noticed
    <2>2. news' \in [Machine -> SUBSET News]
      BY <2>1 DEF VarsOK
    <2>3. faults' \in Nat
      <3>1. faults' = faults \/ Fault("read")
        BY <1>6, Zenon DEF CheckDeleted
      <3> QED
        BY <3>1 DEF Fault, VarsOK
    <2>4. VarsOK'
      BY <1>6, <2>2, <2>3 DEF CheckDeleted, VarsOK, cacheVars, bridgeVars, meshVars
    <2> QED
      BY <1>6, <2>4, Alone DEF CheckDeleted, bridgeVars, meshVars
  <1>7. CASE CloseDeleted(m)
    <2>1. VarsOK'
      BY <1>7 DEF CloseDeleted, Noticed, Registered, Here, News, VarsOK, meshVars
    <2> QED
      BY <1>7, <2>1, Alone DEF CloseDeleted, meshVars
  <1>8. CASE List(m)
    <2>1. VarsOK'
      BY <1>8 DEF List, Noticed, News, VarsOK, cacheVars, bridgeVars, meshVars
    <2> QED
      BY <1>8, <2>1, Alone DEF List, bridgeVars, meshVars
  <1>9. CASE Follow(m, p)
    <2>1. VarsOK'
      BY <1>9 DEF Follow, VarsOK, cacheVars, bridgeVars
    <2> QED
      BY <1>9, <2>1, Alone DEF Follow, bridgeVars
  <1>10. CASE LinkDown(pair)
    <2>1. VarsOK'
      BY <1>10 DEF LinkDown, Unlinked, Fault, VarsOK, cacheVars, bridgeVars
    <2> QED
      BY <1>10, <2>1, Alone DEF LinkDown, bridgeVars
  <1>11. CASE LinkUp(pair)
    <2>1. VarsOK'
      BY <1>11 DEF LinkUp, News, VarsOK, bridgeVars
    <2> QED
      BY <1>11, <2>1, Alone DEF LinkUp, bridgeVars
  <1> QED
    BY <1>1, <1>2, <1>3, <1>4, <1>5, <1>6, <1>7, <1>8, <1>9, <1>10, <1>11

-----------------------------------------------------------------------------
(* Sessions. *)

CacheOK ==
    /\ cached \in [Machine -> {"none", "live", "deleted"}]
    /\ fresh \in [Machine -> BOOLEAN] /\ backoff \in [Machine -> BOOLEAN]
    /\ faults \in Nat

\* However the record is read, the cache keeps its type.
LEMMA Reading ==
    ASSUME VarsOK, NEW m \in Machine, NEW view,
           LockRoutable(m, view) \/ LockForAttach(m, view)
    PROVE  CacheOK'
  <1>1. Row \in {"none", "live", "deleted"}
    BY DEF Row
  <1>2. CASE Trusts(m, view)
    BY <1>2 DEF Trusts, CacheOK, VarsOK, cacheVars
  <1>3. CASE Read(m, view)
    BY <1>1, <1>3 DEF Read, CacheOK, VarsOK
  <1>4. CASE Fault("read") /\ UNCHANGED <<cached, fresh>>
             /\ (UNCHANGED backoff \/ backoff' = [backoff EXCEPT ![m] = TRUE])
    <2>1. faults' \in Nat
      BY <1>4 DEF Fault, VarsOK
    <2>2. backoff' \in [Machine -> BOOLEAN]
      BY <1>4 DEF VarsOK
    <2> QED
      BY <1>4, <2>1, <2>2 DEF CacheOK, VarsOK
  <1> QED
    BY <1>2, <1>3, <1>4 DEF LockRoutable, LockForAttach, cacheVars

\* Retiring the stale bridges of a machine, with or without telling.
LEMMA Retiring ==
    ASSUME VarsOK, NEW m \in Machine, NEW record
    PROVE  /\ Retired(m) \in [Bridge -> Stages]
           /\ \A b \in Bridge : Retired(m)[b] \in {stage[b], "retired"}
           /\ \A b \in Bridge : Retired(m)[b] = "asking" <=> stage[b] = "asking"
           /\ \A b \in Bridge : Retired(m)[b] = "attached"
                                  => b \notin Stale(m) /\ stage[b] = "attached"
           /\ Stale(m) \subseteq Bridge
           /\ Untold(m, record) \subseteq Bridge
           /\ \A b \in Bridge : b \in announced[m] \ Stale(m) => b \in Untold(m, record)
  BY DEF VarsOK, Retired, Untold, Stale, Live, Here, Stages

\* A session registers, calls, is expelled, goes silent or closes.
LEMMA SessionSteps ==
    ASSUME BridgeInv, NEW b \in Bridge,
           Register(b) \/ Call(b) \/ Expel(b) \/ Silence(b) \/ Close(b)
    PROVE  BridgeInv'
  <1> DEFINE m == On[b]
  <1> m \in Machine
    BY BridgeAssumption
  <1> USE DEF BridgeInv
  <1>1. CASE Register(b)
    <2>1. CacheOK'
      BY <1>1, Reading DEF Register
    <2>2. stage[b] = "new" /\ \E s \in {"open", "gone"} : stage' = [stage EXCEPT ![b] = s]
      BY <1>1 DEF Register
    <2>3. VarsOK'
      BY <1>1, <2>1, <2>2 DEF Register, CacheOK, VarsOK, Stages, meshVars
    <2>4. UNCHANGED <<holder, announced>>
      BY <1>1 DEF Register, meshVars
    <2>5. Exclusive'
      BY <2>2, <2>3, LeavingKeeps DEF VarsOK
    <2>6. Locks' /\ AllAnnounced'
      BY <2>2, <2>4 DEF VarsOK, Locks, AllAnnounced
    <2> QED
      BY <2>3, <2>5, <2>6
  <1>2. CASE Call(b)
    <2>1. VarsOK'
      BY <1>2 DEF Call, VarsOK, Stages, cacheVars, meshVars
    <2>2. Exclusive'
      BY <1>2, <2>1, LeavingKeeps DEF Call, VarsOK
    <2>3. Locks' /\ AllAnnounced'
      BY <1>2 DEF Call, VarsOK, Locks, AllAnnounced, meshVars
    <2> QED
      BY <2>1, <2>2, <2>3
  <1>3. CASE Close(b)
    <2>1. VarsOK'
      BY <1>3 DEF Close, VarsOK, Stages, cacheVars
    <2>2. Exclusive'
      BY <1>3, <2>1, LeavingKeeps DEF Close, VarsOK
    <2>3. Locks'
      BY <1>3 DEF Close, VarsOK, Locks
    <2>4. AllAnnounced'
      BY <1>3 DEF Close, VarsOK, AllAnnounced
    <2> QED
      BY <2>1, <2>2, <2>3, <2>4
  <1>4. CASE Expel(b) \/ Silence(b)
    <2>1. VarsOK'
      BY <1>4 DEF Expel, Silence, Fault, VarsOK, cacheVars, meshVars
    <2> QED
      BY <1>4, <2>1, Alone DEF Expel, Silence, meshVars
  <1> QED
    BY <1>1, <1>2, <1>3, <1>4

\* The sweep retires stale bridges, and tells of those it can.
LEMMA SweepStep ==
    ASSUME BridgeInv, NEW m \in Machine, Sweep(m)
    PROVE  BridgeInv'
  <1> USE DEF BridgeInv
  <1>1. VarsOK'
    BY Retiring DEF Sweep, VarsOK, cacheVars
  <1>2. Exclusive'
    BY <1>1, Retiring, LeavingKeeps DEF Sweep
  <1>3. Locks'
    BY Retiring DEF Sweep, Locks
  <1>4. AllAnnounced'
    BY BridgeAssumption, Retiring DEF Sweep, VarsOK, AllAnnounced
  <1> QED
    BY <1>1, <1>2, <1>3, <1>4

-----------------------------------------------------------------------------
(* An attach: it takes the lock, asks, and claims its routes. *)

\* What MayAttach says, bridge by bridge.
LEMMA Admitted ==
    ASSUME VarsOK, NEW b \in Bridge, MayAttach(b),
           NEW c \in Bridge, c # b, On[c] = On[b], stage[c] = "attached", c \notin Stale(On[b])
    PROVE  Claims[b] \intersect Claims[c] = {}
  BY DEF MayAttach, Overlap, Live, Here

\* attach takes the lock only if its routes are free on its machine.
LEMMA AttachStep ==
    ASSUME BridgeInv, NEW b \in Bridge, Attach(b)
    PROVE  BridgeInv'
  <1> DEFINE m == On[b]
  <1> m \in Machine
    BY BridgeAssumption
  <1> USE DEF BridgeInv
  <1>1. stage[b] = "called" /\ holder[m] = NoBridge
    BY DEF Attach, Free
  <1>2. CacheOK'
    BY Reading DEF Attach
  <1>3. UNCHANGED <<deleted, telling, news, silent, seen, linked, told>>
    BY DEF Attach
  <1>4. CASE /\ closing' = closing \union {b}
             /\ stage' = [stage EXCEPT ![b] = "open"]
             /\ UNCHANGED <<announced, holder, asks>>
    <2>1. VarsOK'
      BY <1>2, <1>3, <1>4 DEF CacheOK, VarsOK, Stages
    <2>2. Exclusive'
      BY <1>4, <2>1, LeavingKeeps DEF VarsOK
    <2>3. Locks' /\ AllAnnounced'
      BY <1>1, <1>4 DEF VarsOK, Locks, AllAnnounced
    <2> QED
      BY <2>1, <2>2, <2>3
  <1>5. CASE /\ announced' = [announced EXCEPT ![m] = Untold(m, "live")]
             /\ stage' = [Retired(m) EXCEPT ![b] = "open"]
             /\ closing' = closing \union Stale(m) \union {b}
             /\ UNCHANGED <<holder, asks>>
    <2>1. VarsOK'
      BY <1>2, <1>3, <1>5, Retiring DEF CacheOK, VarsOK, Stages
    <2>2. Exclusive'
      BY <1>5, <2>1, Retiring, LeavingKeeps DEF VarsOK
    <2>3. Locks'
      BY <1>1, <1>5, Retiring DEF Locks
    <2>4. AllAnnounced'
      BY <1>5, Retiring, BridgeAssumption DEF VarsOK, AllAnnounced
    <2> QED
      BY <2>1, <2>2, <2>3, <2>4
  <1>6. CASE /\ announced' = [announced EXCEPT ![m] = Untold(m, "live")]
             /\ MayAttach(b)
             /\ stage' = [Retired(m) EXCEPT ![b] = "asking"]
             /\ closing' = closing \union Stale(m)
             /\ holder' = [holder EXCEPT ![m] = b]
             /\ asks' = [asks EXCEPT ![b] = {p \in Machine : Overlap(b, seen[m][p])}]
    <2>1. VarsOK'
      <3>1. stage' \in [Bridge -> Stages] /\ announced' \in [Machine -> SUBSET Bridge]
        BY <1>6, Retiring DEF VarsOK, Stages
      <3>2. asks' \in [Bridge -> SUBSET Machine]
        BY <1>6 DEF VarsOK
      <3>3. holder' \in [Machine -> Bridge \union {NoBridge}] /\ closing' \subseteq Bridge
        BY <1>6, Retiring DEF VarsOK
      <3> QED
        BY <1>2, <1>3, <3>1, <3>2, <3>3 DEF CacheOK, VarsOK
    <2>2. Exclusive'
      <3> SUFFICES ASSUME NEW c \in Bridge, NEW d \in Bridge,
                          c # d, On[c] = On[d],
                          stage'[c] \in {"attached", "asking"}, stage'[d] = "attached"
                   PROVE  Claims[c] \intersect Claims[d] = {}
        BY DEF Exclusive
      <3>1. d # b /\ stage[d] = "attached" /\ d \notin Stale(m)
        BY <1>6, Retiring DEF VarsOK
      <3>2. CASE c = b
        BY <1>6, <3>1, <3>2, Admitted
      <3>3. CASE c # b
        BY <1>6, <3>1, <3>3, Retiring DEF VarsOK, Exclusive
      <3> QED
        BY <3>2, <3>3
    <2>3. Locks'
      BY <1>1, <1>6, Retiring, BridgeAssumption DEF VarsOK, Locks
    <2>4. AllAnnounced'
      BY <1>6, Retiring, BridgeAssumption DEF VarsOK, AllAnnounced
    <2> QED
      BY <2>1, <2>2, <2>3, <2>4
  <1> QED
    BY <1>4, <1>5, <1>6 DEF Attach

\* A machine that is asked retires its stale bridges; a conflict gives the lock back.
LEMMA AskStep ==
    ASSUME BridgeInv, NEW b \in Bridge, NEW p \in Machine, Ask(b, p)
    PROVE  BridgeInv'
  <1> DEFINE m == On[b]
  <1> m \in Machine
    BY BridgeAssumption
  <1> USE DEF BridgeInv
  <1>1. /\ stage[b] = "asking" /\ holder[m] = b
        /\ announced' = [announced EXCEPT ![p] = Untold(p, cached[p])]
        /\ UNCHANGED <<deleted, cached, fresh, backoff, telling, news, silent, seen, linked, told, faults>>
    BY DEF Ask, Locks, cacheVars
  <1>2. CASE /\ stage' = [Retired(p) EXCEPT ![b] = "open"]
             /\ closing' = closing \union Stale(p) \union {b}
             /\ holder' = [holder EXCEPT ![m] = NoBridge]
             /\ asks' = [asks EXCEPT ![b] = {}]
    <2>1. VarsOK'
      BY <1>1, <1>2, Retiring DEF VarsOK, Stages
    <2>2. Exclusive'
      <3>1. \A c \in Bridge : stage'[c] = IF c = b THEN "open" ELSE Retired(p)[c]
        BY <1>2, Retiring
      <3> QED
        BY <2>1, <3>1, Retiring, LeavingKeeps
    <2>3. Locks'
      BY <1>1, <1>2, Retiring, BridgeAssumption DEF VarsOK, Locks
    <2>4. AllAnnounced'
      BY <1>1, <1>2, Retiring, BridgeAssumption DEF VarsOK, AllAnnounced
    <2> QED
      BY <2>1, <2>2, <2>3, <2>4
  <1>3. CASE /\ stage' = Retired(p)
             /\ closing' = closing \union Stale(p)
             /\ asks' = [asks EXCEPT ![b] = @ \ {p}]
             /\ UNCHANGED holder
    <2>1. VarsOK'
      BY <1>1, <1>3, Retiring DEF VarsOK
    <2>2. Exclusive'
      BY <1>3, <2>1, Retiring, LeavingKeeps
    <2>3. Locks'
      BY <1>3, Retiring DEF Locks
    <2>4. AllAnnounced'
      BY <1>1, <1>3, Retiring, BridgeAssumption DEF VarsOK, AllAnnounced
    <2> QED
      BY <2>1, <2>2, <2>3, <2>4
  <1> QED
    BY <1>2, <1>3 DEF Ask

\* A machine that cannot be asked changes no session.
LEMMA AskFailsStep ==
    ASSUME BridgeInv, NEW b \in Bridge, NEW p \in Machine, AskFails(b, p)
    PROVE  BridgeInv'
  <1>1. VarsOK'
    BY DEF AskFails, Fault, BridgeInv, VarsOK, cacheVars, meshVars
  <1> QED
    BY <1>1, Alone DEF AskFails, meshVars

\* The attach that holds the lock claims its routes and is announced.
LEMMA AttachedStep ==
    ASSUME BridgeInv, NEW b \in Bridge, Attached(b)
    PROVE  BridgeInv'
  <1> DEFINE m == On[b]
  <1> m \in Machine
    BY BridgeAssumption
  <1> USE DEF BridgeInv
  <1>1. stage[b] = "asking" /\ holder[m] = b
    BY DEF Attached, Locks
  <1>2. VarsOK'
    BY DEF Attached, VarsOK, Stages, cacheVars
  <1>3. Exclusive'
    <2> SUFFICES ASSUME NEW c \in Bridge, NEW d \in Bridge,
                        c # d, On[c] = On[d],
                        stage'[c] \in {"attached", "asking"}, stage'[d] = "attached"
                 PROVE  Claims[c] \intersect Claims[d] = {}
      BY DEF Exclusive
    <2>1. CASE c = b
      BY <1>1, <2>1 DEF Attached, VarsOK, Exclusive
    <2>2. CASE d = b
      <3>1. stage[c] = "attached"
        BY <1>1, <2>2 DEF Attached, VarsOK, Locks
      <3>2. Claims[d] \intersect Claims[c] = {}
        BY <1>1, <2>2, <3>1 DEF Exclusive
      <3> QED
        BY <3>2
    <2>3. CASE c # b /\ d # b
      BY <2>3 DEF Attached, VarsOK, Exclusive
    <2> QED
      BY <2>1, <2>2, <2>3
  <1>4. Locks'
    BY <1>1, BridgeAssumption DEF Attached, VarsOK, Locks
  <1>5. AllAnnounced'
    BY BridgeAssumption DEF Attached, VarsOK, AllAnnounced
  <1> QED
    BY <1>2, <1>3, <1>4, <1>5

-----------------------------------------------------------------------------

\* A crash ends the machine's sessions with their locks and its table.
LEMMA CrashStep ==
    ASSUME BridgeInv, NEW m \in Machine, Crash(m)
    PROVE  BridgeInv'
  <1> USE DEF BridgeInv
  <1>1. \A b \in Bridge : stage'[b] = IF b \in Registered(m) THEN "gone" ELSE stage[b]
    BY DEF Crash
  <1>2. VarsOK'
    <2>1. stage' \in [Bridge -> Stages]
      BY DEF Crash, VarsOK, Stages
    <2>2. asks' \in [Bridge -> SUBSET Machine]
      BY DEF Crash, VarsOK
    <2>3. seen' \in [Machine -> [Machine -> SUBSET Bridge]]
      BY DEF Crash, Unlinked, VarsOK
    <2>4. linked' \subseteq Pairs /\ told' \subseteq Machine \X Machine
      BY DEF Crash, Unlinked, VarsOK
    <2>5. faults' \in Nat
      BY DEF Crash, Fault, VarsOK
    <2>6. /\ cached' \in [Machine -> {"none", "live", "deleted"}]
          /\ fresh' \in [Machine -> BOOLEAN] /\ backoff' \in [Machine -> BOOLEAN]
          /\ holder' \in [Machine -> Bridge \union {NoBridge}]
          /\ telling' \in [Machine -> BOOLEAN]
          /\ announced' \in [Machine -> SUBSET Bridge]
          /\ news' \in [Machine -> SUBSET News]
      BY DEF Crash, VarsOK
    <2>7. UNCHANGED <<deleted, closing, silent>>
      BY DEF Crash
    <2> QED
      BY <2>1, <2>2, <2>3, <2>4, <2>5, <2>6, <2>7 DEF VarsOK
  <1>3. Exclusive'
    BY <1>1, <1>2, LeavingKeeps
  <1>4. \A b \in Bridge : On[b] = m => stage'[b] \in {"new", "gone"}
    BY <1>1 DEF Registered, Here
  <1>5. \A b \in Bridge : On[b] # m => stage'[b] = stage[b]
    BY <1>1 DEF Registered, Here
  <1>6. Locks'
    <2>1. holder'[m] = NoBridge /\ \A n \in Machine : n # m => holder'[n] = holder[n]
      BY DEF Crash, VarsOK
    <2>2. \A b \in Bridge : On[b] \in Machine /\ b # NoBridge
      BY BridgeAssumption
    <2>3. ASSUME NEW b \in Bridge PROVE stage'[b] = "asking" <=> holder'[On[b]] = b
      <3>1. CASE On[b] = m
        BY <1>4, <2>1, <2>2, <3>1
      <3>2. CASE On[b] # m
        BY <1>5, <2>1, <2>2, <3>2 DEF Locks
      <3> QED
        BY <3>1, <3>2
    <2>4. \A n \in Machine : holder'[n] # NoBridge => On[holder'[n]] = n
      BY <2>1 DEF Locks
    <2> QED
      BY <2>3, <2>4 DEF Locks
  <1>7. AllAnnounced'
    BY <1>4, <1>5, BridgeAssumption DEF Crash, VarsOK, AllAnnounced
  <1> QED
    BY <1>2, <1>3, <1>6, <1>7

\* Every step of Next keeps the invariant.
LEMMA NextInv == BridgeInv /\ [Next]_vars => BridgeInv'
  <1> SUFFICES ASSUME BridgeInv, [Next]_vars PROVE BridgeInv'
    OBVIOUS
  <1>1. ASSUME NEW b \in Bridge, Session(b) PROVE BridgeInv'
    BY <1>1, SessionSteps, AttachStep, AskStep, AskFailsStep, AttachedStep DEF Session
  <1>2. ASSUME NEW m \in Machine, FreshEnds(m) \/ BackoffEnds(m) \/ Forget(m)
                 \/ Remove(m) \/ TellDeleted(m) \/ CloseDeleted(m) \/ List(m)
        PROVE  BridgeInv'
    <2>1. {m, m} \in Pairs /\ "close" \in News
      BY DEF Pairs, News
    <2> QED
      BY <1>2, <2>1, QuietSteps
  <1>3. ASSUME NEW m \in Machine, Sweep(m) \/ Crash(m) PROVE BridgeInv'
    BY <1>3, SweepStep, CrashStep
  <1>4. ASSUME NEW m \in Machine, NEW p \in Machine, NEW notice \in News,
               CheckDeleted(m, notice) \/ HearDeleted(m, p) \/ Follow(m, p)
        PROVE  BridgeInv'
    <2>1. {m, p} \in Pairs
      BY DEF Pairs
    <2> QED
      BY <1>4, <2>1, QuietSteps
  <1>5. ASSUME NEW pair \in Pairs, LinkDown(pair) \/ LinkUp(pair) PROVE BridgeInv'
    <2>1. PICK m, p \in Machine : pair = {m, p}
      BY DEF Pairs
    <2>2. "close" \in News
      BY DEF News
    <2> QED
      BY <1>5, <2>1, <2>2, QuietSteps
  <1>6. CASE UNCHANGED vars
    <2>1. VarsOK'
      BY <1>6 DEF BridgeInv, VarsOK, vars, cacheVars, bridgeVars, meshVars
    <2> QED
      BY <1>6, <2>1, Alone DEF vars, bridgeVars, meshVars
  <1>7. "close" \in News
    BY DEF News
  <1> QED
    BY <1>1, <1>2, <1>3, <1>4, <1>5, <1>6, <1>7 DEF Next

\* The inductive invariant holds in every state: the entry lock is held exactly by
\* the attach that asks, and what it checked before asking stays true.
THEOREM BridgeInvariant == Spec => []BridgeInv
  BY InitInv, NextInv, PTL DEF Spec

\* Every variable keeps its type and only an attach that asks holds an entry lock
\* (no way out of attach leaves it locked).
THEOREM BridgeTypes == Spec => []TypeOK
  <1>1. BridgeInv => TypeOK
    BY DEF BridgeInv, TypeOK, VarsOK, Locks
  <1> QED
    BY <1>1, BridgeInvariant, PTL

\* No two attached bridges of one machine claim the same route, for any number of
\* machines and bridges and whatever fails, though attach waits for other machines
\* between its check and its claim.
THEOREM RoutesStayExclusive == Spec => []RoutesExclusive
  <1>1. BridgeInv => RoutesExclusive
    BY DEF BridgeInv, Exclusive, RoutesExclusive, Overlap, Live, Here
  <1> QED
    BY <1>1, BridgeInvariant, PTL

\* Every attached bridge is in the table its machine announces to the others.
THEOREM AttachedAreAnnounced == Spec => [](\A m \in Machine : Live(m) \subseteq announced[m])
  <1>1. BridgeInv => \A m \in Machine : Live(m) \subseteq announced[m]
    BY DEF BridgeInv, AllAnnounced, Live, Here
  <1> QED
    BY <1>1, BridgeInvariant, PTL

-----------------------------------------------------------------------------
(* The table says nothing else: where a write that meets another, and an import, do not happen. *)

\* While the tunnel is not deleted, a machine with a session has its record at hand: it can tell the others
\* what it retires.
AtHand == deleted \/ \A b \in Bridge : stage[b] \notin {"new", "gone"} => cached[On[b]] # "none"

\* Only a deletion the database confirmed makes a machine forget the record.
CloseIsTrue == \A m \in Machine : "close" \in news[m] => deleted

\* Nothing but attached bridges is announced.
OnlyAttached ==
    deleted \/ \A m \in Machine : \A b \in announced[m] : stage[b] = "attached" /\ On[b] = m

TruthInv == BridgeInv /\ AtHand /\ CloseIsTrue /\ OnlyAttached

\* However the record is read, it is at hand where it was, and where the answer is not an error.
LEMMA ReadingKeeps ==
    ASSUME VarsOK, NEW m \in Machine, NEW view, LockRoutable(m, view) \/ LockForAttach(m, view)
    PROVE  /\ \A p \in Machine : cached[p] # "none" => cached'[p] # "none"
           /\ view = "live" => cached'[m] # "none"
  <1>1. Row # "none"
    BY DEF Row
  <1>2. CASE Trusts(m, view)
    BY <1>2 DEF Trusts, VarsOK, cacheVars
  <1>3. CASE Read(m, view)
    BY <1>1, <1>3 DEF Read, VarsOK
  <1>4. CASE UNCHANGED cached /\ (IF cached[m] = "none" THEN view = "error" ELSE view = cached[m])
    BY <1>4 DEF VarsOK
  <1> QED
    BY <1>2, <1>3, <1>4 DEF LockRoutable, LockForAttach, cacheVars

\* Retiring with the record at hand takes what is retired off the table.
LEMMA RetiringTells ==
    ASSUME VarsOK, OnlyAttached, ~deleted, NEW m \in Machine, NEW record,
           Stale(m) = {} \/ record # "none"
    PROVE  \A b \in Untold(m, record) : b \in announced[m] /\ b \in Bridge /\ Retired(m)[b] = "attached" /\ On[b] = m
  BY DEF VarsOK, OnlyAttached, Untold, Retired, Stale, Live, Here

\* A machine that has a stale bridge has the record at hand.
LEMMA StaleIsAtHand ==
    ASSUME VarsOK, AtHand, ~deleted, NEW m \in Machine
    PROVE  Stale(m) = {} \/ cached[m] # "none"
  BY DEF VarsOK, AtHand, Stale, Live, Here

\* What leaves sessions, cache and table alone.
LEMMA AloneTrue ==
    ASSUME TruthInv, BridgeInv', UNCHANGED <<stage, announced, news>>, deleted => deleted',
           \A m \in Machine : cached[m] # "none" => cached'[m] # "none" \/ deleted'
    PROVE  TruthInv'
  <1>1. CloseIsTrue'
    BY DEF TruthInv, CloseIsTrue
  <1>2. AtHand'
    BY BridgeAssumption DEF TruthInv, AtHand
  <1>3. OnlyAttached'
    BY DEF TruthInv, OnlyAttached
  <1> QED
    BY <1>1, <1>2, <1>3 DEF TruthInv

\* Deleting, and hearing of it.
LEMMA DeletingTrue ==
    ASSUME "forget" \notin FaultKinds, TruthInv, BridgeInv', NEW m \in Machine, NEW p \in Machine, NEW notice \in News,
           \/ FreshEnds(m) \/ BackoffEnds(m) \/ Forget(m) \/ Remove(m) \/ TellDeleted(m) \/ HearDeleted(m, p)
           \/ CheckDeleted(m, notice) \/ CloseDeleted(m) \/ List(m) \/ Follow(m, p)
    PROVE  TruthInv'
  <1> USE DEF TruthInv
  <1>1. VarsOK
    BY DEF BridgeInv
  <1>2. CASE FreshEnds(m) \/ BackoffEnds(m) \/ TellDeleted(m) \/ Follow(m, p)
    BY <1>2, AloneTrue DEF FreshEnds, BackoffEnds, TellDeleted, Follow, bridgeVars, cacheVars, meshVars
  <1>3. CASE Forget(m)
    BY <1>3 DEF Forget, Fault
  <1>4. CASE Remove(m)
    <2>1. UNCHANGED <<stage, announced, news>>
      BY <1>4 DEF Remove, meshVars
    <2>2. deleted => deleted'
      BY <1>4, Zenon DEF Remove
    <2>3. \A q \in Machine : cached[q] # "none" => cached'[q] # "none" \/ deleted'
      <3>1. \/ cached' = [cached EXCEPT ![m] = "deleted"] \/ cached' = [cached EXCEPT ![m] = "live"]
            \/ deleted'
        BY <1>4 DEF Remove, Fault
      <3> QED
        BY <1>1, <3>1 DEF VarsOK
    <2> QED
      BY <2>1, <2>2, <2>3, AloneTrue
  <1>5. CASE HearDeleted(m, p) \/ List(m) \/ CheckDeleted(m, notice)
    <2>1. UNCHANGED <<stage, announced, cached, deleted>>
      BY <1>5 DEF HearDeleted, List, CheckDeleted, bridgeVars, cacheVars, meshVars
    <2>2. CloseIsTrue'
      <3>1. PICK was, now : Noticed(m, was, now) /\ ("close" \in now => deleted)
        BY <1>5 DEF HearDeleted, List, CheckDeleted
      <3>2. \A q \in Machine : "close" \in news'[q] => "close" \in news[q] \/ deleted
        BY <1>1, <3>1 DEF Noticed, VarsOK
      <3> QED
        BY <2>1, <3>2 DEF CloseIsTrue
    <2> QED
      BY <2>1, <2>2 DEF AtHand, OnlyAttached
  <1>6. CASE CloseDeleted(m)
    <2>1. deleted /\ deleted'
      BY <1>6 DEF CloseDeleted, CloseIsTrue
    <2> QED
      BY <2>1 DEF AtHand, OnlyAttached, CloseIsTrue
  <1> QED
    BY <1>2, <1>3, <1>4, <1>5, <1>6

\* A session registers, calls, is expelled, goes silent or closes.
LEMMA SessionsTrue ==
    ASSUME TruthInv, BridgeInv', NEW b \in Bridge,
           Register(b) \/ Call(b) \/ Expel(b) \/ Silence(b) \/ Close(b)
    PROVE  TruthInv'
  <1> DEFINE m == On[b]
  <1> m \in Machine
    BY BridgeAssumption
  <1> USE DEF TruthInv
  <1>1. VarsOK
    BY DEF BridgeInv
  <1>2. CASE Expel(b) \/ Silence(b)
    BY <1>2, AloneTrue DEF Expel, Silence, cacheVars, meshVars
  <1>3. CASE Register(b)
    <2>1. PICK view \in {"live", "deleted", "error"} :
            LockRoutable(m, view) /\ stage' = [stage EXCEPT ![b] = IF view = "live" THEN "open" ELSE "gone"]
      BY <1>3 DEF Register
    <2>2. stage[b] = "new" /\ UNCHANGED <<deleted, announced, news>>
      BY <1>3 DEF Register, meshVars
    <2>3. /\ \A p \in Machine : cached[p] # "none" => cached'[p] # "none"
          /\ view = "live" => cached'[m] # "none"
      BY <1>1, <2>1, ReadingKeeps
    <2>4. AtHand'
      BY <1>1, <2>1, <2>2, <2>3, BridgeAssumption DEF VarsOK, AtHand
    <2>5. OnlyAttached' /\ CloseIsTrue'
      BY <1>1, <2>1, <2>2 DEF VarsOK, OnlyAttached, CloseIsTrue
    <2> QED
      BY <2>4, <2>5
  <1>4. CASE Call(b)
    <2>1. AtHand' /\ OnlyAttached' /\ CloseIsTrue'
      BY <1>1, <1>4 DEF Call, VarsOK, AtHand, OnlyAttached, CloseIsTrue, cacheVars, meshVars
    <2> QED
      BY <2>1
  <1>5. CASE Close(b)
    <2>1. AtHand' /\ CloseIsTrue'
      BY <1>1, <1>5 DEF Close, VarsOK, AtHand, CloseIsTrue, cacheVars
    <2>2. OnlyAttached'
      BY <1>1, <1>5 DEF Close, VarsOK, OnlyAttached
    <2> QED
      BY <2>1, <2>2
  <1> QED
    BY <1>2, <1>3, <1>4, <1>5

\* Sweeping, attaching and being asked: what is retired is told.
LEMMA RetiringTrue ==
    ASSUME TruthInv, BridgeInv', NEW b \in Bridge, NEW m \in Machine,
           Sweep(m) \/ Attach(b) \/ Ask(b, m) \/ AskFails(b, m) \/ Attached(b)
    PROVE  TruthInv'
  <1> USE DEF TruthInv
  <1>1. VarsOK /\ On[b] \in Machine
    BY BridgeAssumption DEF BridgeInv
  <1>2. CASE AskFails(b, m)
    BY <1>2, AloneTrue DEF AskFails, cacheVars, meshVars
  <1>3. UNCHANGED <<deleted, news>>
    BY DEF Sweep, Attach, Ask, AskFails, Attached
  <1>4. CloseIsTrue'
    BY <1>3 DEF CloseIsTrue
  <1>5. CASE Sweep(m)
    <2>1. AtHand'
      BY <1>1, <1>5, Retiring DEF Sweep, AtHand, cacheVars, Retired, Stale, Live, Here
    <2>2. OnlyAttached'
      <3> SUFFICES ASSUME ~deleted, NEW p \in Machine, NEW c \in announced'[p]
                   PROVE  stage'[c] = "attached" /\ On[c] = p
        BY <1>3 DEF OnlyAttached
      <3>1. stage' = Retired(m) /\ announced' = [announced EXCEPT ![m] = Untold(m, cached[m])]
        BY <1>5 DEF Sweep
      <3>2. CASE p = m
        <4>1. c \in Untold(m, cached[m]) /\ (Stale(m) = {} \/ cached[m] # "none")
          BY <1>1, <3>1, <3>2, StaleIsAtHand DEF VarsOK
        <4> QED
          BY <1>1, <3>1, <3>2, <4>1, RetiringTells
      <3>3. CASE p # m
        BY <1>1, <3>1, <3>3 DEF VarsOK, OnlyAttached, Retired, Stale, Live, Here
      <3> QED
        BY <3>2, <3>3
    <2> QED
      BY <1>4, <2>1, <2>2
  <1>6. CASE Ask(b, m)
    <2>1. stage[b] = "asking" /\ cached' = cached /\ announced' = [announced EXCEPT ![m] = Untold(m, cached[m])]
      BY <1>6 DEF Ask, cacheVars
    <2>2. stage' = [Retired(m) EXCEPT ![b] = "open"] \/ stage' = Retired(m)
      BY <1>6 DEF Ask
    <2>3. \A c \in Bridge : /\ c # b => stage'[c] = Retired(m)[c]
                            /\ stage'[c] \notin {"new", "gone"} => stage[c] \notin {"new", "gone"}
      BY <1>1, <2>1, <2>2 DEF VarsOK, Retired, Stale, Live, Here
    <2>4. AtHand'
      BY <1>3, <2>1, <2>3 DEF AtHand
    <2>5. OnlyAttached'
      <3> SUFFICES ASSUME ~deleted, NEW p \in Machine, NEW c \in announced'[p]
                   PROVE  stage'[c] = "attached" /\ On[c] = p
        BY <1>3 DEF OnlyAttached
      <3>1. c \in Bridge /\ stage[c] = "attached" /\ On[c] = p /\ Retired(m)[c] = "attached"
        <4>1. CASE p = m
          <5>1. c \in Untold(m, cached[m]) /\ (Stale(m) = {} \/ cached[m] # "none")
            BY <1>1, <2>1, <4>1, StaleIsAtHand DEF VarsOK
          <5>2. c \in announced[m] /\ c \in Bridge /\ Retired(m)[c] = "attached" /\ On[c] = m
            BY <1>1, <5>1, RetiringTells
          <5> QED
            BY <4>1, <5>2 DEF OnlyAttached
        <4>2. CASE p # m
          BY <1>1, <2>1, <4>2 DEF VarsOK, OnlyAttached, Retired, Stale, Live, Here
        <4> QED
          BY <4>1, <4>2
      <3> QED
        BY <2>1, <2>3, <3>1
    <2> QED
      BY <1>4, <2>4, <2>5
  <1>7. CASE Attach(b)
    <2> DEFINE n == On[b]
    <2>1. PICK view \in {"live", "deleted", "error"} :
            /\ LockForAttach(n, view)
            /\ \/ stage' = [stage EXCEPT ![b] = "open"] /\ announced' = announced
               \/ /\ announced' = [announced EXCEPT ![n] = Untold(n, "live")]
                  /\ stage' = [Retired(n) EXCEPT ![b] = "open"] \/ stage' = [Retired(n) EXCEPT ![b] = "asking"]
      BY <1>7 DEF Attach
    <2>2. stage[b] = "called"
      BY <1>7 DEF Attach
    <2>3. \A p \in Machine : cached[p] # "none" => cached'[p] # "none"
      BY <1>1, <2>1, ReadingKeeps
    <2>4. \A c \in Bridge : stage'[c] \notin {"new", "gone"} => stage[c] \notin {"new", "gone"}
      BY <1>1, <2>1, <2>2 DEF VarsOK, Retired, Stale, Live, Here
    <2>5. AtHand'
      BY <1>3, <2>3, <2>4, BridgeAssumption DEF AtHand
    <2>6. OnlyAttached'
      <3> SUFFICES ASSUME ~deleted, NEW p \in Machine, NEW c \in announced'[p]
                   PROVE  stage'[c] = "attached" /\ On[c] = p
        BY <1>3 DEF OnlyAttached
      <3>1. CASE stage' = [stage EXCEPT ![b] = "open"] /\ announced' = announced
        BY <1>1, <2>2, <3>1 DEF VarsOK, OnlyAttached
      <3>2. CASE /\ announced' = [announced EXCEPT ![n] = Untold(n, "live")]
                 /\ stage' = [Retired(n) EXCEPT ![b] = "open"] \/ stage' = [Retired(n) EXCEPT ![b] = "asking"]
        <4>1. c \in Bridge /\ stage[c] = "attached" /\ On[c] = p /\ Retired(n)[c] = "attached"
          <5>1. CASE p = n
            BY <1>1, <3>2, <5>1, RetiringTells DEF VarsOK, OnlyAttached
          <5>2. CASE p # n
            BY <1>1, <3>2, <5>2 DEF VarsOK, OnlyAttached, Retired, Stale, Live, Here
          <5> QED
            BY <5>1, <5>2
        <4>2. DOMAIN Retired(n) = Bridge
          BY DEF Retired
        <4> QED
          BY <2>2, <3>2, <4>1, <4>2
      <3> QED
        BY <2>1, <3>1, <3>2
    <2> QED
      BY <1>4, <2>5, <2>6
  <1>8. CASE Attached(b)
    <2>1. AtHand'
      BY <1>1, <1>8 DEF Attached, VarsOK, AtHand, cacheVars
    <2>2. OnlyAttached'
      BY <1>1, <1>8 DEF Attached, VarsOK, OnlyAttached
    <2> QED
      BY <1>4, <2>1, <2>2
  <1> QED
    BY <1>2, <1>5, <1>6, <1>7, <1>8

\* Links and processes come and go.
LEMMA FaultsTrue ==
    ASSUME TruthInv, BridgeInv', NEW m \in Machine, NEW pair \in Pairs, Crash(m) \/ LinkDown(pair) \/ LinkUp(pair)
    PROVE  TruthInv'
  <1> USE DEF TruthInv
  <1>1. VarsOK
    BY DEF BridgeInv
  <1>2. CASE LinkDown(pair)
    BY <1>2, AloneTrue DEF LinkDown, bridgeVars, cacheVars
  <1>3. CASE LinkUp(pair)
    <2>1. CloseIsTrue'
      BY <1>1, <1>3 DEF LinkUp, VarsOK, CloseIsTrue
    <2>2. AtHand' /\ OnlyAttached'
      BY <1>3 DEF LinkUp, AtHand, OnlyAttached, bridgeVars
    <2> QED
      BY <2>1, <2>2
  <1>4. CASE Crash(m)
    <2>1. \A b \in Bridge : /\ On[b] = m => stage'[b] \in {"new", "gone"}
                            /\ On[b] # m => stage'[b] = stage[b]
      BY <1>4 DEF Crash, Registered, Here
    <2>2. CloseIsTrue'
      BY <1>1, <1>4 DEF Crash, VarsOK, CloseIsTrue
    <2>3. AtHand'
      BY <1>1, <1>4, <2>1, BridgeAssumption DEF Crash, VarsOK, AtHand
    <2>4. OnlyAttached'
      BY <1>1, <1>4, <2>1 DEF Crash, VarsOK, OnlyAttached
    <2> QED
      BY <2>2, <2>3, <2>4
  <1> QED
    BY <1>2, <1>3, <1>4

\* Where no import and no concurrent write makes a machine forget the record, what it announces is exactly
\* what is attached, until the tunnel is deleted (attach, bridge_closed and retire_stale of service.rs); with
\* them, a silent bridge may be retired and stay announced.
THEOREM AnnouncedIsTrue ==
    ASSUME "forget" \notin FaultKinds
    PROVE  Spec => []AnnouncesTruth
  <1>1. Init => TruthInv
    <2>1. ASSUME Init PROVE AtHand /\ CloseIsTrue /\ OnlyAttached
      BY <2>1 DEF Init, AtHand, CloseIsTrue, OnlyAttached
    <2> QED
      BY <2>1, InitInv DEF TruthInv
  <1>2. TruthInv /\ [Next]_vars => TruthInv'
    <2> SUFFICES ASSUME TruthInv, [Next]_vars PROVE TruthInv'
      OBVIOUS
    <2>1. BridgeInv'
      BY NextInv DEF TruthInv
    <2>2. ASSUME NEW m \in Machine, \/ FreshEnds(m) \/ BackoffEnds(m) \/ Forget(m) \/ Remove(m) \/ TellDeleted(m)
                                    \/ CloseDeleted(m) \/ List(m) \/ \E p \in Machine : HearDeleted(m, p) \/ Follow(m, p)
          PROVE  TruthInv'
      <3>1. "close" \in News
        BY DEF News
      <3> QED
        BY <2>1, <2>2, <3>1, DeletingTrue
    <2>3. ASSUME NEW m \in Machine, NEW notice \in News, CheckDeleted(m, notice) PROVE TruthInv'
      BY <2>1, <2>3, DeletingTrue
    <2>4. ASSUME NEW b \in Bridge, Session(b) PROVE TruthInv'
      <3>1. On[b] \in Machine
        BY BridgeAssumption
      <3> QED
        BY <2>1, <2>4, <3>1, SessionsTrue, RetiringTrue DEF Session
    <2>5. ASSUME NEW m \in Machine, Sweep(m) PROVE TruthInv'
      <3>1. CASE Bridge = {}
        BY <2>5, <3>1 DEF Sweep, Stale, Live, Here
      <3>2. CASE Bridge # {}
        BY <2>1, <2>5, <3>2, RetiringTrue
      <3> QED
        BY <3>1, <3>2
    <2>6. ASSUME NEW m \in Machine, Crash(m) PROVE TruthInv'
      <3>1. {m, m} \in Pairs
        BY DEF Pairs
      <3> QED
        BY <2>1, <2>6, <3>1, FaultsTrue
    <2>7. ASSUME NEW pair \in Pairs, LinkDown(pair) \/ LinkUp(pair) PROVE TruthInv'
      <3>1. PICK m, p \in Machine : pair = {m, p}
        BY DEF Pairs
      <3> QED
        BY <2>1, <2>7, <3>1, FaultsTrue
    <2>8. CASE UNCHANGED vars
      BY <2>1, <2>8, AloneTrue DEF vars, bridgeVars, cacheVars, meshVars
    <2> QED
      BY <2>2, <2>3, <2>4, <2>5, <2>6, <2>7, <2>8 DEF Next
  <1>3. TruthInv => AnnouncesTruth
    <2>1. ASSUME TruthInv PROVE AnnouncesTruth
      BY <2>1 DEF TruthInv, BridgeInv, VarsOK, AllAnnounced, OnlyAttached, AnnouncesTruth, Live, Here
    <2> QED
      BY <2>1
  <1> QED
    BY <1>1, <1>2, <1>3, PTL DEF Spec

-----------------------------------------------------------------------------
(* The mesh: the inductive invariant. *)

Entry == Lives \X Nat
PeerType ==
    [link : Link \union {NoLink}, life : Nat, dialer : Nat, draining : BOOLEAN, seq : Nat, entries : SUBSET Entry, open : BOOLEAN]
EndType ==
    [stage : {"none", "waiting", "opening", "greeting", "checking", "up", "closed"}, subscribed : BOOLEAN, cancelled : BOOLEAN,
     life : Nat, draining : BOOLEAN]
HelloType == [type : {"hello"}, life : Lives, draining : BOOLEAN]
SnapshotType == [type : {"snapshot"}, life : Nat, seq : Nat, entries : SUBSET Entry, more : BOOLEAN]
PartType == [type : {"part"}, entries : SUBSET Entry, more : BOOLEAN]
ChangeType == [type : {"attached", "detached"}, seq : Nat, bridge : Entry]
LeavingType == [type : {"leaving"}]
Frame == HelloType \union SnapshotType \union PartType \union ChangeType \union LeavingType

MachineTypes ==
    /\ life \in [Node -> Lives \union {0}] /\ leaving \in [Node -> {"no", "draining", "told"}]
    /\ seq \in [Node -> Nat] /\ entries \in [Node -> SUBSET Entry]
PeerTypes == peer \in [Node -> [Node -> PeerType]]
LinkTypes ==
    /\ dialed \in [Link -> (Node \X Node) \union {Unused}]
    /\ end \in [Link -> [Node -> EndType]] /\ wire \in [Link -> [Node -> Seq(Frame)]]
MeshTypeOK == MachineTypes /\ PeerTypes /\ LinkTypes

\* A link between machines m and p.
Ends(l, m, p) == dialed[l] = <<m, p>> \/ dialed[l] = <<p, m>>

\* A link has two ends, of two machines, or is not in use.
LinkOK(l) ==
    /\ dialed[l] # Unused => dialed[l][1] # dialed[l][2]
    /\ \A m \in Node : IF Joins(l, m) THEN end[l][m].stage # "none" ELSE end[l][m] = NoEnd /\ wire[l][m] = <<>>

\* A task runs in a process; it queues frames only between its link() and its end.
EndOK(l, m) ==
    /\ end[l][m].stage \notin {"none", "closed"} => life[m] # 0
    /\ end[l][m].stage = "checking" => end[l][m].life \in Lives
    /\ end[l][m].stage \in {"none", "waiting", "closed"} => ~end[l][m].subscribed

\* A machine knows a peer by a link to it on which its own task is up.
PeerOK(m, p) ==
    /\ peer[m][p].link = NoLink => peer[m][p] = NoPeer
    /\ peer[m][p].link # NoLink => Ends(peer[m][p].link, m, p) /\ end[peer[m][p].link][m].stage = "up"

\* One direction of a link: x is the reader's task and y that of the machine that writes, q are the frames on
\* their way, k is what the reader knows of the writer, and the writer is in life lf, with n changes, entries es
\* and shutdown lv.

\* The hello comes first, and the reader goes on to register only with it.
TalkOK(x, y, q, lf) ==
    /\ y.stage = "waiting" => q = <<>>
    /\ y.stage = "opening" /\ q # <<>> => Head(q).type # "hello"
    /\ y.stage \in {"waiting", "opening"} => x.stage \notin {"checking", "up"}
    /\ y.subscribed /\ y.stage # "opening" /\ x.stage \in {"waiting", "opening", "greeting"} =>
         q # <<>> /\ Head(q).type = "hello" /\ Head(q).life = lf
    /\ y.subscribed /\ x.stage = "checking" => x.life = lf

\* What is queued behind the hello.
Ahead(x, y, q) == IF x.stage \in {"checking", "up"} \/ y.stage = "opening" THEN q ELSE Tail(q)

\* What the hello says, or will say, of the writer's shutdown.
SaysDraining(x, y, q, lv) ==
    IF y.stage = "opening" THEN lv # "no" ELSE IF x.stage = "checking" THEN x.draining ELSE Head(q).draining

\* A record that is what the writer has attached now.
Right(k, lf, n, es) ==
    /\ k \in PeerType /\ k.link # NoLink /\ ~k.open /\ k.life = lf /\ k.seq = n
    /\ k.entries = IF k.draining THEN {} ELSE es

\* The frames lead there from whatever record the reader comes to begin with.
Leads(q, says, lf, n, es, lv) ==
    \A k \in PeerType : k.link # NoLink /\ k.life = lf =>
      /\ Right(Final(k, q), lf, n, es)
      /\ k.draining => Final(k, q).draining
      /\ lv = "told" => Final(k, q).draining \/ says

\* They lead there from the record there is.
Follows(k, q, lf, n, es, lv) == Right(Final(k, q), lf, n, es) /\ (lv = "told" => Final(k, q).draining)

Fresh(x) == x.stage \in {"waiting", "opening", "greeting", "checking"}

AheadOK(l, x, y, q, k, lf, n, es, lv) ==
    y.subscribed =>
      /\ Fresh(x) => Leads(Ahead(x, y, q), SaysDraining(x, y, q, lv), lf, n, es, lv)
      /\ x.stage = "up" /\ k.link = l => Follows(k, q, lf, n, es, lv)

WayOK(l, m, p) ==
    /\ TalkOK(end[l][m], end[l][p], wire[l][m], life[p])
    /\ AheadOK(l, end[l][m], end[l][p], wire[l][m], peer[m][p], life[p], seq[p], entries[p], leaving[p])

MeshInv ==
    /\ MeshTypeOK
    /\ \A l \in Link : LinkOK(l)
    /\ \A l \in Link : \A m \in Node : EndOK(l, m)
    /\ \A m \in Node : \A p \in Node : PeerOK(m, p)
    /\ \A l \in Link : \A m \in Node : \A p \in Node : Ends(l, m, p) => WayOK(l, m, p)

-----------------------------------------------------------------------------
(* What a queue of frames comes to. *)

\* A set of numbers that is not empty has a least one: induction, about sets.
LEMMA LeastIs ==
    ASSUME NEW T, T \subseteq Nat, T # {}
    PROVE  \E n \in T : \A m \in T : n <= m
  <1> DEFINE R == {ss \in Nat \X Nat : ss[1] < ss[2]}
  <1>1. IsWellFoundedOn(R, Nat)
    BY NatLessThanWellFounded DEF OpToRel
  <1> HIDE DEF R
  <1>2. PICK n \in T : \A m \in T : ~(<<m, n>> \in R)
    BY <1>1, WFMin
  <1>3. ASSUME NEW m \in T PROVE n <= m
    <2>1. m \in Nat /\ n \in Nat
      OBVIOUS
    <2>2. <<m, n>> \in Nat \X Nat /\ <<m, n>>[1] = m /\ <<m, n>>[2] = n
      BY <2>1
    <2>3. m < n => <<m, n>> \in R
      BY <2>2 DEF R
    <2> QED
      BY <1>2, <2>1, <2>3
  <1> QED
    BY <1>2, <1>3

\* The first n frames of q, applied to k one after the other.
IsRun(r, k, q, n) == r[0] = k /\ \A i \in 1 .. n : r[i] = Applied(r[i - 1], q[i])

LEMMA RunExists ==
    ASSUME NEW k, NEW q, NEW n \in Nat
    PROVE  \E r : IsRun(r, k, q, n)
  <1> DEFINE T == {i \in Nat : ~\E r : IsRun(r, k, q, i)}
  <1>1. SUFFICES ASSUME T # {} PROVE FALSE
    OBVIOUS
  <1>2. PICK i \in T : \A j \in T : i <= j
    BY <1>1, LeastIs
  <1>3. i # 0
    <2>1. [j \in {0} |-> k][0] = k
      OBVIOUS
    <2>2. IsRun([j \in {0} |-> k], k, q, 0)
      BY <2>1 DEF IsRun
    <2> QED
      BY <2>2
  <1>4. i - 1 \in Nat /\ i - 1 \notin T
    BY <1>2, <1>3
  <1>5. PICK r : IsRun(r, k, q, i - 1)
    BY <1>4
  <1>6. PICK s : s = [j \in 0 .. i |-> IF j = i THEN Applied(r[i - 1], q[i]) ELSE r[j]]
    OBVIOUS
  <1>7. IsRun(s, k, q, i)
    <2>1. s[0] = k
      BY <1>3, <1>5, <1>6 DEF IsRun
    <2>2. ASSUME NEW j \in 1 .. i PROVE s[j] = Applied(s[j - 1], q[j])
      <3>1. j - 1 \in 0 .. i /\ j - 1 # i /\ s[j - 1] = r[j - 1]
        BY <1>4, <1>6
      <3>2. CASE j = i
        BY <1>6, <3>1, <3>2
      <3>3. CASE j # i
        <4>1. j \in 1 .. i - 1 /\ s[j] = r[j]
          BY <1>4, <1>6, <3>3
        <4> QED
          BY <1>5, <3>1, <4>1 DEF IsRun
      <3> QED
        BY <3>2, <3>3
    <2> QED
      BY <2>1, <2>2 DEF IsRun
  <1> QED
    BY <1>2, <1>7

LEMMA RunUnique ==
    ASSUME NEW k, NEW q, NEW n \in Nat, NEW r, NEW s, IsRun(r, k, q, n), IsRun(s, k, q, n), NEW i \in 0 .. n
    PROVE  r[i] = s[i]
  <1> DEFINE T == {j \in 0 .. n : r[j] # s[j]}
  <1>1. SUFFICES ASSUME T # {} PROVE FALSE
    OBVIOUS
  <1>0. T \subseteq Nat
    OBVIOUS
  <1>2. PICK j \in T : \A x \in T : j <= x
    BY <1>0, <1>1, LeastIs
  <1>3. j \in 0 .. n /\ j # 0
    BY DEF IsRun
  <1>4. j \in 1 .. n /\ j - 1 \in 0 .. n /\ j - 1 \notin T
    BY <1>2, <1>3
  <1> QED
    BY <1>4 DEF IsRun

LEMMA FinalIs ==
    ASSUME NEW k, NEW q, Len(q) \in Nat, NEW r, IsRun(r, k, q, Len(q))
    PROVE  Final(k, q) = r[Len(q)]
  <1> DEFINE run[i \in 0 .. Len(q)] == IF i = 0 THEN k ELSE Applied(run[i - 1], q[i])
  <1>1. Final(k, q) = run[Len(q)]
    BY DEF Final
  <1>2. PICK s : s = [i \in 0 .. Len(q) |-> r[i]]
    OBVIOUS
  <1>3. s = [i \in 0 .. Len(q) |-> IF i = 0 THEN k ELSE Applied(s[i - 1], q[i])]
    <2>1. ASSUME NEW i \in 0 .. Len(q) PROVE s[i] = IF i = 0 THEN k ELSE Applied(s[i - 1], q[i])
      <3>1. CASE i = 0
        BY <1>2, <3>1 DEF IsRun
      <3>2. CASE i # 0
        <4>1. i \in 1 .. Len(q) /\ i - 1 \in 0 .. Len(q)
          BY <3>2
        <4> QED
          BY <1>2, <3>2, <4>1 DEF IsRun
      <3> QED
        BY <3>1, <3>2
    <2> QED
      BY <1>2, <2>1
  <1>4. run = [i \in 0 .. Len(q) |-> IF i = 0 THEN k ELSE Applied(run[i - 1], q[i])]
    BY <1>3, Zenon
  <1> HIDE DEF run
  <1>5. PICK t : t = run /\ t = [i \in 0 .. Len(q) |-> IF i = 0 THEN k ELSE Applied(t[i - 1], q[i])]
    BY <1>4
  <1>6. IsRun(t, k, q, Len(q))
    BY <1>5 DEF IsRun
  <1>7. t[Len(q)] = r[Len(q)]
    BY <1>6, RunUnique
  <1> QED
    BY <1>1, <1>5, <1>7

LEMMA FinalNone == \A k : Final(k, <<>>) = k
  <1> TAKE k
  <1>1. PICK r : r = [i \in {0} |-> k]
    OBVIOUS
  <1>2. PICK q : q = <<>>
    OBVIOUS
  <1>3. Len(q) = 0
    BY <1>2
  <1>4. IsRun(r, k, q, Len(q))
    BY <1>1, <1>3 DEF IsRun
  <1> QED
    BY <1>1, <1>2, <1>3, <1>4, FinalIs

LEMMA FinalAppend ==
    ASSUME NEW S, NEW q \in Seq(S), NEW f \in S, NEW k
    PROVE  Final(k, Append(q, f)) = Applied(Final(k, q), f)
  <1>0. Append(q, f) \in Seq(S)
    OBVIOUS
  <1>1. PICK p \in Seq(S) : p = Append(q, f)
    BY <1>0
  <1>2. Len(p) = Len(q) + 1 /\ Len(q) \in Nat /\ p[Len(q) + 1] = f /\ \A i \in 1 .. Len(q) : p[i] = q[i]
    BY <1>1
  <1>3. PICK n \in Nat : n = Len(q) /\ Len(p) = n + 1
    BY <1>2
  <1>8. n + 1 \in Nat
    OBVIOUS
  <1>4. PICK r : IsRun(r, k, p, n + 1)
    BY <1>8, RunExists
  <1>5. IsRun(r, k, q, n)
    BY <1>2, <1>3, <1>4 DEF IsRun
  <1>6. r[n + 1] = Applied(r[n], f)
    <2>1. n + 1 \in 1 .. n + 1 /\ (n + 1) - 1 = n
      OBVIOUS
    <2> QED
      BY <1>2, <1>3, <1>4, <2>1 DEF IsRun
  <1>7. Final(k, q) = r[n] /\ Final(k, p) = r[n + 1]
    BY <1>3, <1>4, <1>5, FinalIs
  <1> QED
    BY <1>1, <1>6, <1>7

LEMMA FinalTail ==
    ASSUME NEW S, NEW q \in Seq(S), q # <<>>, NEW k
    PROVE  Final(k, q) = Final(Applied(k, Head(q)), Tail(q))
  <1>0. Tail(q) \in Seq(S)
    OBVIOUS
  <1>1. PICK p \in Seq(S) : p = Tail(q)
    BY <1>0
  <1>2. Len(p) = Len(q) - 1 /\ Len(q) \in Nat \ {0} /\ Head(q) = q[1] /\ \A i \in 1 .. Len(p) : p[i] = q[i + 1]
    BY <1>1
  <1>3. PICK n \in Nat : n = Len(p) /\ Len(q) = n + 1
    BY <1>2
  <1>10. n + 1 \in Nat
    OBVIOUS
  <1>4. PICK r : IsRun(r, k, q, n + 1)
    BY <1>10, RunExists
  <1>5. PICK s : s = [i \in 0 .. n |-> r[i + 1]]
    OBVIOUS
  <1>6. r[1] = Applied(k, Head(q))
    <2>1. 1 \in 1 .. n + 1 /\ 1 - 1 = 0
      OBVIOUS
    <2> QED
      BY <1>2, <1>4, <2>1 DEF IsRun
  <1>7. IsRun(s, Applied(k, Head(q)), p, n)
    <2>1. s[0] = Applied(k, Head(q))
      BY <1>5, <1>6
    <2>2. ASSUME NEW i \in 1 .. n PROVE s[i] = Applied(s[i - 1], p[i])
      <3>1. i \in 0 .. n /\ i - 1 \in 0 .. n /\ (i - 1) + 1 = i /\ i + 1 \in 1 .. n + 1 /\ (i + 1) - 1 = i
        OBVIOUS
      <3>2. r[i + 1] = Applied(r[i], q[i + 1])
        BY <1>4, <3>1 DEF IsRun
      <3> QED
        BY <1>2, <1>3, <1>5, <3>1, <3>2
    <2> QED
      BY <2>1, <2>2 DEF IsRun
  <1>8. Final(k, q) = r[n + 1]
    BY <1>3, <1>4, FinalIs
  <1>9. Final(Applied(k, Head(q)), p) = s[n]
    BY <1>3, <1>7, FinalIs
  <1> QED
    BY <1>1, <1>5, <1>8, <1>9

-----------------------------------------------------------------------------
(* Frames. *)

LEMMA PeerHas ==
    ASSUME NEW k \in PeerType
    PROVE  /\ k.link \in Link \union {NoLink} /\ k.life \in Nat /\ k.dialer \in Nat /\ k.draining \in BOOLEAN /\ k.seq \in Nat
           /\ k.entries \subseteq Entry /\ k.open \in BOOLEAN
           /\ k.link # NoLink => k # NoPeer
  BY DEF PeerType, NoPeer

LEMMA AppliedSnapshot ==
    ASSUME NEW k \in PeerType, k.link # NoLink, NEW f \in SnapshotType, f.life = k.life
    PROVE  Applied(k, f) = [k EXCEPT !.seq = f.seq, !.open = f.more, !.entries = IF k.draining THEN {} ELSE f.entries]
  <1>1. k # Bailed
    BY PeerHas DEF Bailed
  <1>2. f.type = "snapshot"
    BY DEF SnapshotType
  <1> QED
    BY <1>1, <1>2 DEF Applied

LEMMA AppliedPart ==
    ASSUME NEW k \in PeerType, k.link # NoLink, NEW f \in PartType, k.open
    PROVE  Applied(k, f) = [k EXCEPT !.open = f.more, !.entries = @ \union (IF k.draining THEN {} ELSE f.entries)]
  <1>1. k # Bailed
    BY PeerHas DEF Bailed
  <1>2. f.type = "part"
    BY DEF PartType
  <1> QED
    BY <1>1, <1>2 DEF Applied

LEMMA AppliedAttached ==
    ASSUME NEW k \in PeerType, k.link # NoLink, NEW f \in ChangeType, f.type = "attached", ~k.open, f.seq = k.seq + 1
    PROVE  Applied(k, f) = [k EXCEPT !.seq = f.seq, !.entries = @ \union (IF k.draining THEN {} ELSE {f.bridge})]
  <1>1. k # Bailed
    BY PeerHas DEF Bailed
  <1> QED
    BY <1>1 DEF Applied

LEMMA AppliedDetached ==
    ASSUME NEW k \in PeerType, k.link # NoLink, NEW f \in ChangeType, f.type = "detached", f.seq = k.seq + 1
    PROVE  Applied(k, f) = [k EXCEPT !.seq = f.seq, !.entries = @ \ {f.bridge}]
  <1>1. k # Bailed
    BY PeerHas DEF Bailed
  <1> QED
    BY <1>1 DEF Applied

LEMMA AppliedLeaving ==
    ASSUME NEW k \in PeerType, k.link # NoLink
    PROVE  Applied(k, Leaving) = [k EXCEPT !.draining = TRUE, !.entries = {}]
  <1>1. k # Bailed
    BY PeerHas DEF Bailed
  <1> QED
    BY <1>1 DEF Applied, Leaving

LEMMA PeerOf ==
    ASSUME NEW k, k \in PeerType
    PROVE  k = [link |-> k.link, life |-> k.life, dialer |-> k.dialer, draining |-> k.draining, seq |-> k.seq, entries |-> k.entries,
                open |-> k.open]
  BY DEF PeerType

LEMMA FrameParts ==
    ASSUME NEW f \in Frame
    PROVE  /\ f.type = "hello" => f \in HelloType
           /\ f.type = "snapshot" => f \in SnapshotType
           /\ f.type = "part" => f \in PartType
           /\ f.type \in {"attached", "detached"} => f \in ChangeType
  BY DEF Frame, HelloType, SnapshotType, PartType, ChangeType, LeavingType

LEMMA AppliedType ==
    ASSUME NEW k \in PeerType, NEW f \in Frame, Applied(k, f) # Bailed
    PROVE  Applied(k, f) \in PeerType /\ Applied(k, f).link = k.link /\ k # NoPeer
  <1>0. k # Bailed /\ k # NoPeer
    <2>1. ASSUME k = Bailed PROVE FALSE
      BY <2>1 DEF Applied
    <2> QED
      BY <2>1 DEF Bailed
  <1>1. CASE f.type = "snapshot"
    <2>1. f.seq \in Nat /\ f.entries \in SUBSET Entry /\ f.more \in BOOLEAN
      BY <1>1, FrameParts DEF SnapshotType
    <2>2. PICK es \in SUBSET Entry : es = IF k.draining THEN {} ELSE f.entries
      BY <2>1
    <2>3. Applied(k, f) = [k EXCEPT !.seq = f.seq, !.open = f.more, !.entries = es]
      BY <1>0, <1>1, <2>2 DEF Applied
    <2> QED
      BY <1>0, <2>1, <2>3 DEF PeerType
  <1>2. CASE f.type = "part"
    <2>1. f.entries \in SUBSET Entry /\ f.more \in BOOLEAN
      BY <1>2, FrameParts DEF PartType
    <2>2. PICK es \in SUBSET Entry : es = k.entries \union (IF k.draining THEN {} ELSE f.entries)
      BY <2>1, PeerHas
    <2>3. Applied(k, f) = [k EXCEPT !.open = f.more, !.entries = es]
      BY <1>0, <1>2, <2>2 DEF Applied
    <2> QED
      BY <1>0, <2>1, <2>3 DEF PeerType
  <1>3. CASE f.type = "attached"
    <2>1. f.seq \in Nat /\ f.bridge \in Entry
      BY <1>3, FrameParts DEF ChangeType
    <2>2. PICK es \in SUBSET Entry : es = k.entries \union (IF k.draining THEN {} ELSE {f.bridge})
      BY <2>1, PeerHas
    <2>3. Applied(k, f) = [k EXCEPT !.seq = f.seq, !.entries = es]
      BY <1>0, <1>3, <2>2 DEF Applied
    <2> QED
      BY <1>0, <2>1, <2>3 DEF PeerType
  <1>4. CASE f.type = "detached"
    <2>1. f.seq \in Nat /\ f.bridge \in Entry
      BY <1>4, FrameParts DEF ChangeType
    <2>2. PICK es \in SUBSET Entry : es = k.entries \ {f.bridge}
      BY <2>1, PeerHas
    <2>3. Applied(k, f) = [k EXCEPT !.seq = f.seq, !.entries = es]
      BY <1>0, <1>4, <2>2 DEF Applied
    <2> QED
      BY <1>0, <2>1, <2>3 DEF PeerType
  <1>5. CASE f.type = "leaving"
    <2>1. Applied(k, f) = [k EXCEPT !.draining = TRUE, !.entries = {}]
      BY <1>0, <1>5 DEF Applied
    <2>2. {} \in SUBSET Entry
      OBVIOUS
    <2> QED
      BY <1>0, <2>1, <2>2 DEF PeerType
  <1>6. CASE f.type \notin {"snapshot", "part", "attached", "detached", "leaving"}
    <2>1. Applied(k, f) = Bailed
      BY <1>6 DEF Applied
    <2> QED
      BY <2>1
  <1> QED
    BY <1>1, <1>2, <1>3, <1>4, <1>5, <1>6

-----------------------------------------------------------------------------
(* What a frame adds to a queue that leads to what there is. *)

LEMMA RightAttached ==
    ASSUME NEW k, NEW lf, NEW n \in Nat, NEW es, NEW b \in Entry, NEW f \in ChangeType, f.type = "attached", f.seq = n + 1, f.bridge = b,
           Right(k, lf, n, es), es \subseteq Entry
    PROVE  Right(Applied(k, f), lf, n + 1, es \union {b}) /\ Applied(k, f).draining = k.draining
  <1>1. k \in PeerType /\ k.link # NoLink /\ ~k.open /\ k.seq = n
    BY DEF Right
  <1>2. PICK e \in SUBSET Entry : e = k.entries \union (IF k.draining THEN {} ELSE {b})
    BY <1>1, PeerHas
  <1>7. PICK c \in Nat : c = n + 1
    OBVIOUS
  <1>3. Applied(k, f) = [k EXCEPT !.seq = c, !.entries = e]
    <2>1. k.draining => Applied(k, f) = [k EXCEPT !.seq = c, !.entries = e]
      BY <1>1, <1>2, <1>7, AppliedAttached
    <2>2. ~k.draining => Applied(k, f) = [k EXCEPT !.seq = c, !.entries = e]
      BY <1>1, <1>2, <1>7, AppliedAttached
    <2> QED
      BY <2>1, <2>2
  <1>4. PICK j : j = [k EXCEPT !.seq = c, !.entries = e]
    OBVIOUS
  <1>5. j \in PeerType /\ j.link = k.link /\ j.open = k.open /\ j.life = k.life /\ j.seq = c /\ j.draining = k.draining /\ j.entries = e
    BY <1>1, <1>2, <1>4 DEF PeerType
  <1>6. e = IF k.draining THEN {} ELSE es \union {b}
    BY <1>2 DEF Right
  <1> QED
    BY <1>3, <1>4, <1>5, <1>6, <1>7 DEF Right

LEMMA RightDetached ==
    ASSUME NEW k, NEW lf, NEW n \in Nat, NEW es, NEW b \in Entry, NEW f \in ChangeType, f.type = "detached", f.seq = n + 1, f.bridge = b,
           Right(k, lf, n, es), es \subseteq Entry
    PROVE  Right(Applied(k, f), lf, n + 1, es \ {b}) /\ Applied(k, f).draining = k.draining
  <1>1. k \in PeerType /\ k.link # NoLink /\ ~k.open /\ k.seq = n
    BY DEF Right
  <1>2. PICK e \in SUBSET Entry : e = k.entries \ {b}
    BY <1>1, PeerHas
  <1>7. PICK c \in Nat : c = n + 1
    OBVIOUS
  <1>3. Applied(k, f) = [k EXCEPT !.seq = c, !.entries = e]
    BY <1>1, <1>2, <1>7, AppliedDetached
  <1>4. PICK j : j = [k EXCEPT !.seq = c, !.entries = e]
    OBVIOUS
  <1>5. j \in PeerType /\ j.link = k.link /\ j.open = k.open /\ j.life = k.life /\ j.seq = c /\ j.draining = k.draining /\ j.entries = e
    BY <1>1, <1>2, <1>4 DEF PeerType
  <1>6. e = IF k.draining THEN {} ELSE es \ {b}
    BY <1>2 DEF Right
  <1> QED
    BY <1>3, <1>4, <1>5, <1>6, <1>7 DEF Right

LEMMA RightLeaving ==
    ASSUME NEW k, NEW lf, NEW n, NEW es, Right(k, lf, n, es)
    PROVE  Right(Applied(k, Leaving), lf, n, es) /\ Applied(k, Leaving).draining
  <1>1. k \in PeerType /\ k.link # NoLink
    BY DEF Right
  <1>2. Applied(k, Leaving) = [k EXCEPT !.draining = TRUE, !.entries = {}]
    BY <1>1, AppliedLeaving
  <1>3. PICK j : j = Applied(k, Leaving)
    OBVIOUS
  <1>4. j \in PeerType
    BY <1>1, <1>2, <1>3 DEF PeerType
  <1>5. j.link = k.link /\ j.open = k.open /\ j.life = k.life /\ j.seq = k.seq /\ j.draining = TRUE /\ j.entries = {}
    BY <1>1, <1>2, <1>3 DEF PeerType
  <1> QED
    BY <1>3, <1>4, <1>5 DEF Right

\* A frame that keeps a record right, and takes its draining flag along.
Keeps(f, lf, n, es, n2, es2) ==
    \A k : Right(k, lf, n, es) => Right(Applied(k, f), lf, n2, es2) /\ (k.draining => Applied(k, f).draining)

LEMMA LeadsOn ==
    ASSUME NEW q \in Seq(Frame), NEW f \in Frame, NEW says, NEW lf, NEW n, NEW es, NEW n2, NEW es2, NEW lv,
           Leads(q, says, lf, n, es, lv), Keeps(f, lf, n, es, n2, es2)
    PROVE  Leads(Append(q, f), says, lf, n2, es2, lv)
  <1> SUFFICES ASSUME NEW k \in PeerType, k.link # NoLink, k.life = lf
               PROVE  /\ Right(Final(k, Append(q, f)), lf, n2, es2)
                      /\ k.draining => Final(k, Append(q, f)).draining
                      /\ lv = "told" => Final(k, Append(q, f)).draining \/ says
    BY DEF Leads
  <1>1. Final(k, Append(q, f)) = Applied(Final(k, q), f)
    BY FinalAppend
  <1>2. Right(Final(k, q), lf, n, es) /\ (k.draining => Final(k, q).draining) /\ (lv = "told" => Final(k, q).draining \/ says)
    BY DEF Leads
  <1>3. PICK j : j = Final(k, q)
    OBVIOUS
  <1>4. Right(Applied(j, f), lf, n2, es2) /\ (j.draining => Applied(j, f).draining)
    BY <1>2, <1>3 DEF Keeps
  <1> QED
    BY <1>1, <1>2, <1>3, <1>4

LEMMA FollowsOn ==
    ASSUME NEW q \in Seq(Frame), NEW f \in Frame, NEW k, NEW lf, NEW n, NEW es, NEW n2, NEW es2, NEW lv,
           Follows(k, q, lf, n, es, lv), Keeps(f, lf, n, es, n2, es2)
    PROVE  Follows(k, Append(q, f), lf, n2, es2, lv)
  <1>1. Final(k, Append(q, f)) = Applied(Final(k, q), f)
    BY FinalAppend
  <1>3. PICK j : j = Final(k, q)
    OBVIOUS
  <1>4. Right(Applied(j, f), lf, n2, es2) /\ (j.draining => Applied(j, f).draining)
    BY <1>3 DEF Keeps, Follows
  <1> QED
    BY <1>1, <1>3, <1>4 DEF Follows

LEMMA LeavingFrame == Leaving \in Frame /\ Leaving.type = "leaving"
  BY DEF Leaving, Frame, LeavingType

LEMMA LeadsAway ==
    ASSUME NEW q \in Seq(Frame), NEW says, NEW lf, NEW n, NEW es, NEW lv, NEW lv2, NEW says2, Leads(q, says, lf, n, es, lv)
    PROVE  Leads(Append(q, Leaving), says2, lf, n, es, lv2)
  <1> SUFFICES ASSUME NEW k \in PeerType, k.link # NoLink, k.life = lf
               PROVE  /\ Right(Final(k, Append(q, Leaving)), lf, n, es)
                      /\ Final(k, Append(q, Leaving)).draining
    BY DEF Leads
  <1>1. Final(k, Append(q, Leaving)) = Applied(Final(k, q), Leaving)
    BY FinalAppend, LeavingFrame
  <1>2. Right(Final(k, q), lf, n, es)
    BY DEF Leads
  <1> QED
    BY <1>1, <1>2, RightLeaving

LEMMA FollowsAway ==
    ASSUME NEW q \in Seq(Frame), NEW k, NEW lf, NEW n, NEW es, NEW lv, NEW lv2, Follows(k, q, lf, n, es, lv)
    PROVE  Follows(k, Append(q, Leaving), lf, n, es, lv2)
  <1>1. Final(k, Append(q, Leaving)) = Applied(Final(k, q), Leaving)
    BY FinalAppend, LeavingFrame
  <1> QED
    BY <1>1, RightLeaving DEF Follows

-----------------------------------------------------------------------------
(* A snapshot. *)

LEMMA FinalOne ==
    ASSUME NEW f \in Frame, NEW k
    PROVE  Final(k, <<f>>) = Applied(k, f)
  <1>1. <<>> \in Seq(Frame) /\ Append(<<>>, f) = <<f>>
    OBVIOUS
  <1>2. Final(k, Append(<<>>, f)) = Applied(Final(k, <<>>), f)
    BY <1>1, FinalAppend
  <1> QED
    BY <1>1, <1>2, FinalNone

LEMMA FinalTwo ==
    ASSUME NEW f \in Frame, NEW g \in Frame, NEW k
    PROVE  Final(k, <<f, g>>) = Applied(Applied(k, f), g)
  <1>1. <<f, g>> \in Seq(Frame)
    OBVIOUS
  <1>2. PICK q \in Seq(Frame) : q = <<f, g>>
    BY <1>1
  <1>3. q # <<>> /\ Head(q) = f /\ Tail(q) = <<g>>
    BY <1>2
  <1>4. Final(k, q) = Final(Applied(k, Head(q)), Tail(q))
    BY <1>3, FinalTail
  <1> QED
    BY <1>2, <1>3, <1>4, FinalOne

\* What one frame that is a snapshot makes of a record.
LEMMA TakesSnapshot ==
    ASSUME NEW k \in PeerType, k.link # NoLink, NEW f \in SnapshotType, f.life = k.life
    PROVE  /\ Applied(k, f) \in PeerType /\ Applied(k, f).link = k.link /\ Applied(k, f).life = k.life
           /\ Applied(k, f).seq = f.seq /\ Applied(k, f).open = f.more /\ Applied(k, f).draining = k.draining
           /\ Applied(k, f).entries = IF k.draining THEN {} ELSE f.entries
  <1>1. f.seq \in Nat /\ f.more \in BOOLEAN /\ f.entries \in SUBSET Entry
    BY DEF SnapshotType
  <1>2. PICK e \in SUBSET Entry : e = IF k.draining THEN {} ELSE f.entries
    BY <1>1
  <1>3. Applied(k, f) = [k EXCEPT !.seq = f.seq, !.open = f.more, !.entries = e]
    BY <1>2, AppliedSnapshot
  <1>4. PICK j : j = [k EXCEPT !.seq = f.seq, !.open = f.more, !.entries = e]
    OBVIOUS
  <1>5. j \in PeerType /\ j.link = k.link /\ j.open = f.more /\ j.life = k.life /\ j.seq = f.seq /\ j.draining = k.draining /\ j.entries = e
    BY <1>1, <1>2, <1>4 DEF PeerType
  <1> QED
    BY <1>2, <1>3, <1>4, <1>5

LEMMA TakesPart ==
    ASSUME NEW k \in PeerType, k.link # NoLink, k.open, NEW f \in PartType
    PROVE  /\ Applied(k, f) \in PeerType /\ Applied(k, f).link = k.link /\ Applied(k, f).life = k.life
           /\ Applied(k, f).seq = k.seq /\ Applied(k, f).open = f.more /\ Applied(k, f).draining = k.draining
           /\ Applied(k, f).entries = k.entries \union (IF k.draining THEN {} ELSE f.entries)
  <1>1. f.more \in BOOLEAN /\ f.entries \in SUBSET Entry
    BY DEF PartType
  <1>2. PICK e \in SUBSET Entry : e = k.entries \union (IF k.draining THEN {} ELSE f.entries)
    BY <1>1, PeerHas
  <1>3. Applied(k, f) = [k EXCEPT !.open = f.more, !.entries = e]
    <2>1. k.draining => Applied(k, f) = [k EXCEPT !.open = f.more, !.entries = e]
      BY <1>2, AppliedPart
    <2>2. ~k.draining => Applied(k, f) = [k EXCEPT !.open = f.more, !.entries = e]
      BY <1>2, AppliedPart
    <2> QED
      BY <2>1, <2>2
  <1>4. PICK j : j = [k EXCEPT !.open = f.more, !.entries = e]
    OBVIOUS
  <1>5. j \in PeerType /\ j.link = k.link /\ j.open = f.more /\ j.life = k.life /\ j.seq = k.seq /\ j.draining = k.draining /\ j.entries = e
    BY <1>1, <1>2, <1>4 DEF PeerType
  <1> QED
    BY <1>2, <1>3, <1>4, <1>5

LEMMA LeadsSnapshot ==
    ASSUME NEW f \in SnapshotType, ~f.more, NEW says, NEW lv, lv = "told" => says
    PROVE  Leads(<<f>>, says, f.life, f.seq, f.entries, lv)
  <1> SUFFICES ASSUME NEW k \in PeerType, k.link # NoLink, k.life = f.life
               PROVE  Right(Final(k, <<f>>), f.life, f.seq, f.entries) /\ (k.draining => Final(k, <<f>>).draining)
    BY DEF Leads
  <1>1. Final(k, <<f>>) = Applied(k, f)
    BY FinalOne DEF Frame
  <1> QED
    BY <1>1, TakesSnapshot DEF Right

LEMMA LeadsSnapshots ==
    ASSUME NEW f \in SnapshotType, f.more, NEW g \in PartType, ~g.more, NEW says, NEW lv, lv = "told" => says
    PROVE  Leads(<<f, g>>, says, f.life, f.seq, f.entries \union g.entries, lv)
  <1> SUFFICES ASSUME NEW k \in PeerType, k.link # NoLink, k.life = f.life
               PROVE  /\ Right(Final(k, <<f, g>>), f.life, f.seq, f.entries \union g.entries)
                      /\ k.draining => Final(k, <<f, g>>).draining
    BY DEF Leads
  <1>1. Final(k, <<f, g>>) = Applied(Applied(k, f), g)
    BY FinalTwo DEF Frame
  <1>2. PICK j : j = Applied(k, f)
    OBVIOUS
  <1>3. j \in PeerType /\ j.link # NoLink /\ j.open /\ j.life = k.life /\ j.seq = f.seq /\ j.draining = k.draining
        /\ j.entries = IF k.draining THEN {} ELSE f.entries
    BY <1>2, TakesSnapshot
  <1>4. PICK i : i = Applied(j, g)
    OBVIOUS
  <1>5. i \in PeerType /\ i.link = j.link /\ ~i.open /\ i.life = j.life /\ i.seq = j.seq /\ i.draining = j.draining
        /\ i.entries = j.entries \union (IF j.draining THEN {} ELSE g.entries)
    BY <1>3, <1>4, TakesPart
  <1>6. i.entries = IF i.draining THEN {} ELSE f.entries \union g.entries
    BY <1>3, <1>5
  <1> QED
    BY <1>1, <1>2, <1>3, <1>4, <1>5, <1>6 DEF Right

LEMMA SnapshotsLead ==
    ASSUME MachineTypes, NEW m \in Node, NEW frames \in Snapshots(m), NEW says, leaving[m] = "told" => says
    PROVE  /\ frames \in Seq(Frame) /\ frames # <<>> /\ Head(frames).type # "hello"
           /\ Leads(frames, says, life[m], seq[m], entries[m], leaving[m])
  <1>0. life[m] \in Nat /\ seq[m] \in Nat /\ entries[m] \in SUBSET Entry
    <2>1. life[m] \in Lives \union {0} /\ seq[m] \in Nat /\ entries[m] \in SUBSET Entry
      BY DEF MachineTypes
    <2>2. \A x \in Lives : x \in Nat
      BY MeshAssumption
    <2>3. life[m] \in Lives \/ life[m] = 0
      BY <2>1
    <2>4. life[m] \in Nat
      BY <2>2, <2>3
    <2> QED
      BY <2>1, <2>4
  <1>1. CASE frames = <<Snapshot(m, seq[m], entries[m], FALSE)>>
    <2>1. PICK f : f = Snapshot(m, seq[m], entries[m], FALSE)
      OBVIOUS
    <2>2. f \in SnapshotType /\ ~f.more /\ f.life = life[m] /\ f.seq = seq[m] /\ f.entries = entries[m] /\ f.type = "snapshot"
      BY <1>0, <2>1 DEF Snapshot, SnapshotType
    <2>3. Leads(<<f>>, says, f.life, f.seq, f.entries, leaving[m])
      BY <2>2, LeadsSnapshot
    <2>4. f \in Frame
      BY <2>2 DEF Frame
    <2>5. <<f>> \in Seq(Frame) /\ <<f>> # <<>> /\ Head(<<f>>) = f
      BY <2>4
    <2> QED
      BY <1>1, <2>1, <2>2, <2>3, <2>5
  <1>2. CASE frames # <<Snapshot(m, seq[m], entries[m], FALSE)>>
    <2>0. PICK part \in SUBSET entries[m] : frames = <<Snapshot(m, seq[m], part, TRUE), SnapshotPart(entries[m] \ part)>>
      BY <1>2 DEF Snapshots
    <2>1. PICK f : f = Snapshot(m, seq[m], part, TRUE)
      OBVIOUS
    <2>2. PICK g : g = SnapshotPart(entries[m] \ part)
      OBVIOUS
    <2>3. f \in SnapshotType /\ f.more /\ f.life = life[m] /\ f.seq = seq[m] /\ f.entries = part /\ f.type = "snapshot"
      BY <1>0, <2>1 DEF Snapshot, SnapshotType
    <2>4. g \in PartType /\ ~g.more /\ g.entries = entries[m] \ part
      BY <1>0, <2>2 DEF SnapshotPart, PartType
    <2>5. Leads(<<f, g>>, says, f.life, f.seq, f.entries \union g.entries, leaving[m])
      BY <2>3, <2>4, LeadsSnapshots
    <2>6. f.entries \union g.entries = entries[m]
      BY <2>3, <2>4
    <2>7. f \in Frame /\ g \in Frame
      BY <2>3, <2>4 DEF Frame
    <2>8. <<f, g>> \in Seq(Frame) /\ <<f, g>> # <<>> /\ Head(<<f, g>>) = f
      BY <2>7
    <2> QED
      BY <2>0, <2>1, <2>2, <2>3, <2>5, <2>6, <2>8
  <1> QED
    BY <1>1, <1>2

-----------------------------------------------------------------------------
(* The two ends of a link. *)

LEMMA EndsJoin ==
    ASSUME NEW l \in Link, LinkOK(l), NEW m \in Node, NEW p \in Node, Ends(l, m, p)
    PROVE  /\ m # p /\ dialed[l] # Unused /\ Joins(l, m) /\ Joins(l, p) /\ Other(l, m) = p /\ Other(l, p) = m
           /\ \A a \in Node : Joins(l, a) => a \in {m, p}
  <1>1. CASE dialed[l] = <<m, p>>
    BY <1>1 DEF LinkOK, Joins, Other, Unused
  <1>2. CASE dialed[l] = <<p, m>>
    BY <1>2 DEF LinkOK, Joins, Other, Unused
  <1> QED
    BY <1>1, <1>2 DEF Ends

LEMMA JoinsEnds ==
    ASSUME LinkTypes, NEW l \in Link, NEW m \in Node, Joins(l, m)
    PROVE  Other(l, m) \in Node /\ Ends(l, m, Other(l, m))
  <1>1. PICK x \in Node, y \in Node : dialed[l] = <<x, y>>
    BY DEF LinkTypes, Joins
  <1>2. m \in {x, y}
    BY <1>1 DEF Joins
  <1> QED
    BY <1>1, <1>2 DEF Other, Ends

-----------------------------------------------------------------------------
(* One direction of a link, whatever the step. *)

LEMMA WayHas ==
    ASSUME MeshInv, NEW l \in Link, NEW m \in Node, NEW p \in Node, Ends(l, m, p)
    PROVE  /\ LinkOK(l) /\ EndOK(l, m) /\ EndOK(l, p) /\ m # p /\ Joins(l, m) /\ Joins(l, p) /\ Other(l, m) = p /\ Other(l, p) = m
           /\ end[l][m] \in EndType /\ end[l][p] \in EndType /\ wire[l][m] \in Seq(Frame) /\ wire[l][p] \in Seq(Frame)
           /\ end[l][m].stage # "none" /\ end[l][p].stage # "none"
           /\ TalkOK(end[l][m], end[l][p], wire[l][m], life[p])
           /\ AheadOK(l, end[l][m], end[l][p], wire[l][m], peer[m][p], life[p], seq[p], entries[p], leaving[p])
  <1>1. LinkOK(l) /\ EndOK(l, m) /\ EndOK(l, p) /\ WayOK(l, m, p)
    BY DEF MeshInv
  <1>2. m # p /\ Joins(l, m) /\ Joins(l, p) /\ Other(l, m) = p /\ Other(l, p) = m
    BY <1>1, EndsJoin
  <1>3. end[l][m] \in EndType /\ end[l][p] \in EndType /\ wire[l][m] \in Seq(Frame) /\ wire[l][p] \in Seq(Frame)
    BY DEF MeshInv, MeshTypeOK, LinkTypes
  <1>4. end[l][m].stage # "none" /\ end[l][p].stage # "none"
    BY <1>1, <1>2 DEF LinkOK
  <1> QED
    BY <1>1, <1>2, <1>3, <1>4 DEF WayOK

LEMMA WayNext ==
    ASSUME NEW l \in Link, NEW m \in Node, NEW p \in Node,
           TalkOK(end'[l][m], end'[l][p], wire'[l][m], life'[p]),
           AheadOK(l, end'[l][m], end'[l][p], wire'[l][m], peer'[m][p], life'[p], seq'[p], entries'[p], leaving'[p])
    PROVE  WayOK(l, m, p)'
  BY DEF WayOK

\* Alike: what of a task the other side can tell.
LEMMA TalkSame ==
    ASSUME NEW x, NEW y, NEW q, NEW lf, NEW x2, NEW y2, TalkOK(x, y, q, lf),
           x2.stage = x.stage, x2.life = x.life, y2.stage = y.stage, y2.subscribed => y.subscribed
    PROVE  TalkOK(x2, y2, q, lf)
  BY DEF TalkOK

LEMMA AheadSame ==
    ASSUME NEW l, NEW x, NEW y, NEW q, NEW k, NEW lf, NEW n, NEW es, NEW lv, NEW x2, NEW y2, NEW k2,
           AheadOK(l, x, y, q, k, lf, n, es, lv),
           x2.stage = x.stage, x2.draining = x.draining, y2.stage = y.stage, y2.subscribed => y.subscribed,
           k2.link = l => k2 = k
    PROVE  AheadOK(l, x2, y2, q, k2, lf, n, es, lv)
  <1> SUFFICES ASSUME y2.subscribed
               PROVE  /\ Fresh(x2) => Leads(Ahead(x2, y2, q), SaysDraining(x2, y2, q, lv), lf, n, es, lv)
                      /\ x2.stage = "up" /\ k2.link = l => Follows(k2, q, lf, n, es, lv)
    BY DEF AheadOK
  <1>1. Ahead(x2, y2, q) = Ahead(x, y, q) /\ SaysDraining(x2, y2, q, lv) = SaysDraining(x, y, q, lv) /\ (Fresh(x2) => Fresh(x))
    BY DEF Ahead, SaysDraining, Fresh
  <1> QED
    BY <1>1 DEF AheadOK

LEMMA TalkSilent ==
    ASSUME NEW x, NEW y, NEW q, NEW lf, NEW lf2, TalkOK(x, y, q, lf), ~y.subscribed
    PROVE  TalkOK(x, y, q, lf2)
  BY DEF TalkOK

LEMMA AheadSilent ==
    ASSUME NEW l, NEW x, NEW y, NEW q, NEW k, NEW lf, NEW n, NEW es, NEW lv, ~y.subscribed
    PROVE  AheadOK(l, x, y, q, k, lf, n, es, lv)
  BY DEF AheadOK

\* Nothing happened that this direction of the link could tell.
LEMMA WaySteady ==
    ASSUME MeshInv, NEW l \in Link, NEW m \in Node, NEW p \in Node, Ends(l, m, p),
           end'[l][m].stage = end[l][m].stage, end'[l][m].life = end[l][m].life, end'[l][m].draining = end[l][m].draining,
           end'[l][p].stage = end[l][p].stage, end'[l][p].subscribed => end[l][p].subscribed,
           wire'[l][m] = wire[l][m], peer'[m][p].link = l => peer'[m][p] = peer[m][p],
           end'[l][p].subscribed => life'[p] = life[p] /\ seq'[p] = seq[p] /\ entries'[p] = entries[p] /\ leaving'[p] = leaving[p]
    PROVE  WayOK(l, m, p)'
  <1>0. TalkOK(end[l][m], end[l][p], wire[l][m], life[p])
        /\ AheadOK(l, end[l][m], end[l][p], wire[l][m], peer[m][p], life[p], seq[p], entries[p], leaving[p])
    BY WayHas
  <1>1. TalkOK(end'[l][m], end'[l][p], wire[l][m], life[p])
    BY <1>0, TalkSame
  <1>2. AheadOK(l, end'[l][m], end'[l][p], wire[l][m], peer'[m][p], life[p], seq[p], entries[p], leaving[p])
    <2>1. PICK x : x = end[l][m]
      OBVIOUS
    <2>2. PICK y : y = end[l][p]
      OBVIOUS
    <2>3. PICK x2 : x2 = end'[l][m]
      OBVIOUS
    <2>4. PICK y2 : y2 = end'[l][p]
      OBVIOUS
    <2>5. PICK k : k = peer[m][p]
      OBVIOUS
    <2>6. PICK k2 : k2 = peer'[m][p]
      OBVIOUS
    <2>7. AheadOK(l, x, y, wire[l][m], k, life[p], seq[p], entries[p], leaving[p])
          /\ x2.stage = x.stage /\ x2.draining = x.draining /\ y2.stage = y.stage /\ (y2.subscribed => y.subscribed) /\ (k2.link = l => k2 = k)
      BY <1>0, <2>1, <2>2, <2>3, <2>4, <2>5, <2>6
    <2>8. AheadOK(l, x2, y2, wire[l][m], k2, life[p], seq[p], entries[p], leaving[p])
      BY <2>7, AheadSame
    <2> QED
      BY <2>3, <2>4, <2>6, <2>8
  <1>3. CASE end'[l][p].subscribed
    BY <1>1, <1>2, <1>3, WayNext
  <1>4. CASE ~end'[l][p].subscribed
    <2>1. TalkOK(end'[l][m], end'[l][p], wire[l][m], life'[p])
      BY <1>1, <1>4, TalkSilent
    <2>2. AheadOK(l, end'[l][m], end'[l][p], wire'[l][m], peer'[m][p], life'[p], seq'[p], entries'[p], leaving'[p])
      BY <1>4, AheadSilent
    <2> QED
      BY <2>1, <2>2, WayNext
  <1> QED
    BY <1>3, <1>4

\* The writer is gone.
LEMMA WayLeft ==
    ASSUME NEW l \in Link, NEW m \in Node, NEW p \in Node, end'[l][p].stage = "closed", ~end'[l][p].subscribed
    PROVE  WayOK(l, m, p)'
  <1>1. TalkOK(end'[l][m], end'[l][p], wire'[l][m], life'[p])
    BY DEF TalkOK
  <1>2. AheadOK(l, end'[l][m], end'[l][p], wire'[l][m], peer'[m][p], life'[p], seq'[p], entries'[p], leaving'[p])
    BY AheadSilent
  <1> QED
    BY <1>1, <1>2, WayNext

\* The reader is gone.
LEMMA WayUnread ==
    ASSUME NEW l \in Link, NEW m \in Node, NEW p \in Node, end'[l][m].stage = "closed", wire'[l][m] = <<>>
    PROVE  WayOK(l, m, p)'
  <1>1. TalkOK(end'[l][m], end'[l][p], wire'[l][m], life'[p])
    BY DEF TalkOK
  <1>2. AheadOK(l, end'[l][m], end'[l][p], wire'[l][m], peer'[m][p], life'[p], seq'[p], entries'[p], leaving'[p])
    BY DEF AheadOK, Fresh
  <1> QED
    BY <1>1, <1>2, WayNext

-----------------------------------------------------------------------------
(* A frame queued. *)

LEMMA AppendHas ==
    ASSUME NEW q \in Seq(Frame), NEW f \in Frame
    PROVE  /\ Append(q, f) \in Seq(Frame) /\ Append(q, f) # <<>>
           /\ q # <<>> => Head(Append(q, f)) = Head(q) /\ Tail(Append(q, f)) = Append(Tail(q), f) /\ Tail(q) \in Seq(Frame)
           /\ q = <<>> => Head(Append(q, f)) = f
  <1>1. Append(q, f) \in Seq(Frame) /\ Append(q, f) # <<>> /\ (q = <<>> => Head(Append(q, f)) = f)
    OBVIOUS
  <1>2. q # <<>> => Tail(q) \in Seq(Frame)
    OBVIOUS
  <1>3. q # <<>> => Head(Append(q, f)) = Head(q) /\ Tail(Append(q, f)) = Append(Tail(q), f)
    BY HeadTailAppend
  <1> QED
    BY <1>1, <1>2, <1>3

LEMMA TalkAppend ==
    ASSUME NEW x, NEW y, NEW q \in Seq(Frame), NEW lf, NEW f \in Frame, f.type # "hello", y.stage # "waiting", TalkOK(x, y, q, lf)
    PROVE  TalkOK(x, y, Append(q, f), lf)
  <1>1. PICK r : r = Append(q, f)
    OBVIOUS
  <1>2. r # <<>> /\ (q # <<>> => Head(r) = Head(q)) /\ (q = <<>> => Head(r) = f)
    BY <1>1, AppendHas
  <1>3. TalkOK(x, y, r, lf)
    BY <1>2 DEF TalkOK
  <1> QED
    BY <1>1, <1>3

LEMMA AheadAppend ==
    ASSUME NEW x, NEW y, NEW q \in Seq(Frame), NEW lf, NEW f \in Frame, y.subscribed, Fresh(x), TalkOK(x, y, q, lf)
    PROVE  /\ Ahead(x, y, Append(q, f)) = Append(Ahead(x, y, q), f) /\ Ahead(x, y, q) \in Seq(Frame)
           /\ x.stage = "checking" \/ y.stage = "opening" \/ Head(Append(q, f)) = Head(q)
  <1>1. PICK r : r = Append(q, f)
    OBVIOUS
  <1>2. q # <<>> => Head(r) = Head(q) /\ Tail(r) = Append(Tail(q), f) /\ Tail(q) \in Seq(Frame)
    BY <1>1, AppendHas
  <1>3. x.stage = "checking" \/ y.stage = "opening" \/ q # <<>>
    BY DEF TalkOK, Fresh
  <1>4. Ahead(x, y, r) = Append(Ahead(x, y, q), f) /\ Ahead(x, y, q) \in Seq(Frame)
    BY <1>1, <1>2, <1>3 DEF Ahead
  <1> QED
    BY <1>1, <1>2, <1>3, <1>4

\* A frame that goes with a change of its writer: what was queued before and this frame lead to what there is then.
Carried(f, lf, n, es, lv, n2, es2, lv2) ==
    \A l, x, y, k : \A q \in Seq(Frame) :
      y.subscribed /\ TalkOK(x, y, q, lf) /\ AheadOK(l, x, y, q, k, lf, n, es, lv)
        => AheadOK(l, x, y, Append(q, f), k, lf, n2, es2, lv2)

LEMMA ChangeCarried ==
    ASSUME NEW f \in Frame, NEW lf, NEW n, NEW es, NEW lv, NEW n2, NEW es2, Keeps(f, lf, n, es, n2, es2)
    PROVE  Carried(f, lf, n, es, lv, n2, es2, lv)
  <1> SUFFICES ASSUME NEW l, NEW x, NEW y, NEW k, NEW q \in Seq(Frame), y.subscribed, TalkOK(x, y, q, lf),
                      AheadOK(l, x, y, q, k, lf, n, es, lv)
               PROVE  AheadOK(l, x, y, Append(q, f), k, lf, n2, es2, lv)
    BY DEF Carried
  <1>1. ASSUME Fresh(x)
        PROVE  Leads(Ahead(x, y, Append(q, f)), SaysDraining(x, y, Append(q, f), lv), lf, n2, es2, lv)
    <2>1. Leads(Ahead(x, y, q), SaysDraining(x, y, q, lv), lf, n, es, lv)
      BY <1>1 DEF AheadOK
    <2>2. /\ Ahead(x, y, Append(q, f)) = Append(Ahead(x, y, q), f) /\ Ahead(x, y, q) \in Seq(Frame)
          /\ x.stage = "checking" \/ y.stage = "opening" \/ Head(Append(q, f)) = Head(q)
      BY <1>1, AheadAppend
    <2>6. SaysDraining(x, y, Append(q, f), lv) = SaysDraining(x, y, q, lv)
      BY <2>2 DEF SaysDraining
    <2>3. PICK r \in Seq(Frame) : r = Ahead(x, y, q)
      BY <2>2
    <2>4. PICK s : s = SaysDraining(x, y, q, lv)
      OBVIOUS
    <2>5. Leads(Append(r, f), s, lf, n2, es2, lv)
      BY <2>1, <2>3, <2>4, LeadsOn
    <2> QED
      BY <2>2, <2>3, <2>4, <2>5, <2>6
  <1>2. ASSUME x.stage = "up", k.link = l
        PROVE  Follows(k, Append(q, f), lf, n2, es2, lv)
    <2>1. Follows(k, q, lf, n, es, lv)
      BY <1>2 DEF AheadOK
    <2> QED
      BY <2>1, FollowsOn
  <1> QED
    BY <1>1, <1>2 DEF AheadOK

LEMMA LeavingCarried ==
    ASSUME NEW lf, NEW n, NEW es, NEW lv, NEW lv2
    PROVE  Carried(Leaving, lf, n, es, lv, n, es, lv2)
  <1> SUFFICES ASSUME NEW l, NEW x, NEW y, NEW k, NEW q \in Seq(Frame), y.subscribed, TalkOK(x, y, q, lf),
                      AheadOK(l, x, y, q, k, lf, n, es, lv)
               PROVE  AheadOK(l, x, y, Append(q, Leaving), k, lf, n, es, lv2)
    BY DEF Carried
  <1>1. ASSUME Fresh(x)
        PROVE  Leads(Ahead(x, y, Append(q, Leaving)), SaysDraining(x, y, Append(q, Leaving), lv2), lf, n, es, lv2)
    <2>1. Leads(Ahead(x, y, q), SaysDraining(x, y, q, lv), lf, n, es, lv)
      BY <1>1 DEF AheadOK
    <2>2. Ahead(x, y, Append(q, Leaving)) = Append(Ahead(x, y, q), Leaving) /\ Ahead(x, y, q) \in Seq(Frame)
      BY <1>1, AheadAppend, LeavingFrame
    <2>3. PICK r \in Seq(Frame) : r = Ahead(x, y, q)
      BY <2>2
    <2>4. PICK s : s = SaysDraining(x, y, q, lv)
      OBVIOUS
    <2>5. PICK s2 : s2 = SaysDraining(x, y, Append(q, Leaving), lv2)
      OBVIOUS
    <2>6. Leads(Append(r, Leaving), s2, lf, n, es, lv2)
      BY <2>1, <2>3, <2>4, LeadsAway
    <2> QED
      BY <2>2, <2>3, <2>5, <2>6
  <1>2. ASSUME x.stage = "up", k.link = l
        PROVE  Follows(k, Append(q, Leaving), lf, n, es, lv2)
    <2>1. Follows(k, q, lf, n, es, lv)
      BY <1>2 DEF AheadOK
    <2> QED
      BY <2>1, FollowsAway
  <1> QED
    BY <1>1, <1>2 DEF AheadOK

\* The frame of a writer that is subscribed.
LEMMA WayTold ==
    ASSUME MeshInv, NEW l \in Link, NEW m \in Node, NEW p \in Node, Ends(l, m, p), NEW f \in Frame, f.type # "hello",
           end[l][p].subscribed, end'[l][m] = end[l][m], end'[l][p] = end[l][p], wire'[l][m] = Append(wire[l][m], f),
           peer'[m][p] = peer[m][p], life'[p] = life[p],
           Carried(f, life[p], seq[p], entries[p], leaving[p], seq'[p], entries'[p], leaving'[p])
    PROVE  WayOK(l, m, p)'
  <1>0. /\ TalkOK(end[l][m], end[l][p], wire[l][m], life[p])
        /\ AheadOK(l, end[l][m], end[l][p], wire[l][m], peer[m][p], life[p], seq[p], entries[p], leaving[p])
        /\ wire[l][m] \in Seq(Frame) /\ end[l][p].stage # "waiting"
    <2>1. EndOK(l, p)
      BY WayHas
    <2>2. end[l][p].stage # "waiting"
      BY <2>1 DEF EndOK
    <2> QED
      BY <2>2, WayHas
  <1>1. TalkOK(end[l][m], end[l][p], Append(wire[l][m], f), life[p])
    BY <1>0, TalkAppend
  <1>2. AheadOK(l, end[l][m], end[l][p], Append(wire[l][m], f), peer[m][p], life[p], seq'[p], entries'[p], leaving'[p])
    BY <1>0 DEF Carried
  <1> QED
    BY <1>1, <1>2, WayNext

\* What a broadcast does to a link of its machine and to the others.
LEMMA BroadcastDoes ==
    ASSUME LinkTypes, NEW a \in Node, NEW f \in Frame, Broadcast(a, f), NEW l \in Link
    PROVE  /\ dialed' = dialed
           /\ ~Joins(l, a) \/ ~end[l][a].subscribed => end'[l] = end[l] /\ wire'[l] = wire[l]
           /\ Joins(l, a) /\ end[l][a].subscribed =>
                \/ end'[l] = end[l] /\ wire'[l] = [wire[l] EXCEPT ![Other(l, a)] = Append(@, f)]
                \/ wire'[l] = wire[l] /\ end'[l] = [end[l] EXCEPT ![a].subscribed = FALSE, ![a].cancelled = TRUE]
  BY DEF Broadcast

LEMMA BroadcastWays ==
    ASSUME MeshInv, NEW a \in Node, NEW f \in Frame, f.type # "hello", Broadcast(a, f), peer' = peer, life' = life,
           \A m \in Node \ {a} : seq'[m] = seq[m] /\ entries'[m] = entries[m] /\ leaving'[m] = leaving[m],
           Carried(f, life[a], seq[a], entries[a], leaving[a], seq'[a], entries'[a], leaving'[a]),
           NEW l \in Link, NEW m \in Node, NEW p \in Node, Ends(l, m, p)'
    PROVE  WayOK(l, m, p)'
  <1>0. LinkTypes /\ Ends(l, m, p)
    BY DEF MeshInv, MeshTypeOK, Broadcast, Ends
  <1>1. /\ m # p /\ Joins(l, p) /\ Other(l, m) = p /\ Other(l, p) = m /\ \A c \in Node : Joins(l, c) => c \in {m, p}
        /\ end[l][m] \in EndType /\ end[l][p] \in EndType /\ Joins(l, m)
    <2>1. LinkOK(l)
      BY DEF MeshInv
    <2> QED
      BY <1>0, <2>1, EndsJoin, WayHas
  <1>2. end[l] \in [Node -> EndType] /\ wire[l] \in [Node -> Seq(Frame)]
    BY <1>0 DEF LinkTypes
  <1>6. Joins(l, a) /\ end[l][a].subscribed =>
          \/ end'[l] = end[l] /\ wire'[l] = [wire[l] EXCEPT ![Other(l, a)] = Append(@, f)]
          \/ wire'[l] = wire[l] /\ end'[l] = [end[l] EXCEPT ![a].subscribed = FALSE, ![a].cancelled = TRUE]
    BY DEF Broadcast
  <1>3. CASE ~Joins(l, a) \/ ~end[l][a].subscribed
    <2>1. end'[l] = end[l] /\ wire'[l] = wire[l]
      BY <1>0, <1>3, BroadcastDoes
    <2>2. end[l][p].subscribed => p # a
      BY <1>1, <1>3
    <2> QED
      BY <1>0, <2>1, <2>2, WaySteady
  <1>4. CASE Joins(l, a) /\ end[l][a].subscribed /\ p = a
    <2>1. CASE end'[l] = end[l] /\ wire'[l] = [wire[l] EXCEPT ![m] = Append(@, f)]
      <3>1. wire'[l][m] = Append(wire[l][m], f) /\ end'[l][m] = end[l][m] /\ end'[l][p] = end[l][p] /\ end[l][p].subscribed
        BY <1>2, <1>4, <2>1
      <3> QED
        BY <1>0, <1>4, <3>1, WayTold
    <2>2. CASE wire'[l] = wire[l] /\ end'[l] = [end[l] EXCEPT ![p].subscribed = FALSE, ![p].cancelled = TRUE]
      <3>1. end'[l][m] = end[l][m] /\ end'[l][p].stage = end[l][p].stage /\ ~end'[l][p].subscribed
        BY <1>1, <1>2, <2>2 DEF EndType
      <3> QED
        BY <1>0, <2>2, <3>1, WaySteady
    <2>3. \/ end'[l] = end[l] /\ wire'[l] = [wire[l] EXCEPT ![Other(l, a)] = Append(@, f)]
          \/ wire'[l] = wire[l] /\ end'[l] = [end[l] EXCEPT ![a].subscribed = FALSE, ![a].cancelled = TRUE]
      BY <1>4, <1>6
    <2>4. Other(l, a) = m
      BY <1>1, <1>4
    <2> QED
      BY <1>4, <2>1, <2>2, <2>3, <2>4
  <1>5. CASE Joins(l, a) /\ end[l][a].subscribed /\ m = a
    <2>1. CASE end'[l] = end[l] /\ wire'[l] = [wire[l] EXCEPT ![p] = Append(@, f)]
      <3>1. wire'[l][m] = wire[l][m] /\ end'[l][m] = end[l][m] /\ end'[l][p] = end[l][p] /\ p # a
        BY <1>1, <1>2, <1>5, <2>1
      <3> QED
        BY <1>0, <3>1, WaySteady
    <2>2. CASE wire'[l] = wire[l] /\ end'[l] = [end[l] EXCEPT ![m].subscribed = FALSE, ![m].cancelled = TRUE]
      <3>1. end'[l][p] = end[l][p] /\ end'[l][m].stage = end[l][m].stage /\ end'[l][m].life = end[l][m].life
            /\ end'[l][m].draining = end[l][m].draining /\ p # a
        BY <1>1, <1>2, <1>5, <2>2 DEF EndType
      <3> QED
        BY <1>0, <2>2, <3>1, WaySteady
    <2>3. \/ end'[l] = end[l] /\ wire'[l] = [wire[l] EXCEPT ![Other(l, a)] = Append(@, f)]
          \/ wire'[l] = wire[l] /\ end'[l] = [end[l] EXCEPT ![a].subscribed = FALSE, ![a].cancelled = TRUE]
      BY <1>5, <1>6
    <2>4. Other(l, a) = p
      BY <1>1, <1>5
    <2> QED
      BY <1>5, <2>1, <2>2, <2>3, <2>4
  <1> QED
    BY <1>1, <1>3, <1>4, <1>5

-----------------------------------------------------------------------------
(* Steps that leave every task where it is. *)

Still ==
    /\ dialed' = dialed /\ peer' = peer /\ life' = life
    /\ \A l \in Link : \A m \in Node :
         /\ end'[l][m].stage = end[l][m].stage /\ end'[l][m].life = end[l][m].life
         /\ end'[l][m].subscribed => end[l][m].subscribed
         /\ ~Joins(l, m) => end'[l][m] = end[l][m] /\ wire'[l][m] = wire[l][m]

LEMMA StillKeeps ==
    ASSUME MeshInv, Still
    PROVE  /\ \A l \in Link : LinkOK(l)'
           /\ \A l \in Link : \A m \in Node : EndOK(l, m)'
           /\ \A m \in Node : \A p \in Node : PeerOK(m, p)'
  <1>1. ASSUME NEW l \in Link PROVE LinkOK(l)'
    <2>1. LinkOK(l)
      BY DEF MeshInv
    <2>2. dialed'[l] = dialed[l] /\ \A m \in Node : Joins(l, m)' <=> Joins(l, m)
      BY DEF Still, Joins
    <2>3. ASSUME NEW m \in Node
          PROVE  IF Joins(l, m)' THEN end'[l][m].stage # "none" ELSE end'[l][m] = NoEnd /\ wire'[l][m] = <<>>
      BY <2>1, <2>2 DEF LinkOK, Still
    <2> QED
      BY <2>1, <2>2, <2>3 DEF LinkOK
  <1>2. ASSUME NEW l \in Link, NEW m \in Node PROVE EndOK(l, m)'
    <2>1. EndOK(l, m)
      BY DEF MeshInv
    <2>2. end'[l][m].stage = end[l][m].stage /\ end'[l][m].life = end[l][m].life /\ (end'[l][m].subscribed => end[l][m].subscribed) /\ life' = life
      BY DEF Still
    <2> QED
      BY <2>1, <2>2 DEF EndOK
  <1>3. ASSUME NEW m \in Node, NEW p \in Node PROVE PeerOK(m, p)'
    <2>1. PeerOK(m, p) /\ peer[m][p].link \in Link \union {NoLink}
      BY DEF MeshInv, MeshTypeOK, PeerTypes, PeerType
    <2>2. peer' = peer /\ dialed' = dialed /\ (peer[m][p].link \in Link => end'[peer[m][p].link][m].stage = end[peer[m][p].link][m].stage)
      BY DEF Still
    <2> QED
      BY <2>1, <2>2 DEF PeerOK, Ends
  <1> QED
    BY <1>1, <1>2, <1>3

LEMMA BroadcastStill ==
    ASSUME MeshInv, NEW a \in Node, NEW f \in Frame, Broadcast(a, f), peer' = peer, life' = life
    PROVE  Still /\ LinkTypes'
  <1>0. LinkTypes /\ \A l \in Link : LinkOK(l)
    BY DEF MeshInv, MeshTypeOK
  <1>1. ASSUME NEW l \in Link
        PROVE  /\ end'[l] \in [Node -> EndType] /\ wire'[l] \in [Node -> Seq(Frame)]
               /\ \A m \in Node : /\ end'[l][m].stage = end[l][m].stage /\ end'[l][m].life = end[l][m].life
                                  /\ end'[l][m].subscribed => end[l][m].subscribed
                                  /\ ~Joins(l, m) => end'[l][m] = end[l][m] /\ wire'[l][m] = wire[l][m]
    <2>1. end[l] \in [Node -> EndType] /\ wire[l] \in [Node -> Seq(Frame)]
      BY <1>0 DEF LinkTypes
    <2>2. CASE end'[l] = end[l] /\ wire'[l] = wire[l]
      BY <2>1, <2>2
    <2>3. CASE Joins(l, a) /\ end'[l] = end[l] /\ wire'[l] = [wire[l] EXCEPT ![Other(l, a)] = Append(@, f)]
      <3>1. PICK p \in Node : p = Other(l, a) /\ Ends(l, a, p)
        BY <1>0, <2>3, JoinsEnds
      <3>2. Joins(l, p)
        BY <1>0, <3>1, EndsJoin
      <3>3. Append(wire[l][p], f) \in Seq(Frame)
        BY <2>1, AppendHas
      <3>4. wire'[l] = [wire[l] EXCEPT ![p] = Append(wire[l][p], f)]
        BY <2>3, <3>1
      <3>5. wire'[l] \in [Node -> Seq(Frame)] /\ \A m \in Node : m # p => wire'[l][m] = wire[l][m]
        BY <2>1, <3>3, <3>4
      <3> QED
        BY <2>1, <2>3, <3>2, <3>5
    <2>4. CASE Joins(l, a) /\ wire'[l] = wire[l] /\ end'[l] = [end[l] EXCEPT ![a].subscribed = FALSE, ![a].cancelled = TRUE]
      <3>0. end[l][a] \in EndType
        BY <2>1
      <3>3. PICK e : e = [end[l][a] EXCEPT !.subscribed = FALSE, !.cancelled = TRUE]
        OBVIOUS
      <3>4. e \in EndType /\ e.stage = end[l][a].stage /\ e.life = end[l][a].life /\ ~e.subscribed
        BY <3>0, <3>3 DEF EndType
      <3>5. end'[l] = [end[l] EXCEPT ![a] = e]
        BY <2>1, <2>4, <3>3
      <3>1. end'[l] \in [Node -> EndType] /\ \A m \in Node : m # a => end'[l][m] = end[l][m]
        BY <2>1, <3>4, <3>5
      <3>2. end'[l][a].stage = end[l][a].stage /\ end'[l][a].life = end[l][a].life /\ ~end'[l][a].subscribed
        BY <2>1, <3>4, <3>5
      <3> QED
        BY <2>1, <2>4, <3>1, <3>2
    <2>5. \/ end'[l] = end[l] /\ wire'[l] = wire[l]
          \/ Joins(l, a) /\ end'[l] = end[l] /\ wire'[l] = [wire[l] EXCEPT ![Other(l, a)] = Append(@, f)]
          \/ Joins(l, a) /\ wire'[l] = wire[l] /\ end'[l] = [end[l] EXCEPT ![a].subscribed = FALSE, ![a].cancelled = TRUE]
      BY DEF Broadcast
    <2> QED
      BY <2>2, <2>3, <2>4, <2>5
  <1>2. dialed' = dialed
    BY DEF Broadcast
  <1>3. DOMAIN end' = Link /\ DOMAIN wire' = Link /\ end' = [l \in Link |-> end'[l]] /\ wire' = [l \in Link |-> wire'[l]]
    BY DEF Broadcast
  <1>4. LinkTypes'
    BY <1>0, <1>1, <1>2, <1>3 DEF LinkTypes
  <1> QED
    BY <1>1, <1>2, <1>4 DEF Still

LEMMA TellAttachedStep ==
    ASSUME MeshInv, NEW a \in Node, TellAttached(a)
    PROVE  MeshInv'
  <1> DEFINE b == <<life[a], seq[a] + 1>>
             f == Announced("attached", a, b)
  <1>0. MachineTypes /\ life[a] \in Lives /\ seq[a] \in Nat /\ entries[a] \in SUBSET Entry
    BY DEF MeshInv, MeshTypeOK, MachineTypes, TellAttached
  <1>1. b \in Entry /\ seq[a] + 1 \in Nat
    BY <1>0 DEF Entry
  <1>2. f \in ChangeType /\ f.type = "attached" /\ f.seq = seq[a] + 1 /\ f.bridge = b
    BY <1>1 DEF Announced, ChangeType
  <1>3. f \in Frame /\ f.type # "hello"
    BY <1>2 DEF Frame
  <1>4. /\ seq' = [seq EXCEPT ![a] = seq[a] + 1] /\ entries' = [entries EXCEPT ![a] = entries[a] \union {b}]
        /\ Broadcast(a, f) /\ life' = life /\ leaving' = leaving /\ peer' = peer
    BY DEF TellAttached, processVars, remoteVars
  <1> HIDE DEF b, f
  <1>5. Still /\ LinkTypes'
    BY <1>3, <1>4, BroadcastStill
  <1>6. MeshTypeOK'
    <2>1. MachineTypes'
      BY <1>0, <1>1, <1>4 DEF MachineTypes
    <2>2. PeerTypes'
      BY <1>4 DEF MeshInv, MeshTypeOK, PeerTypes
    <2> QED
      BY <1>5, <2>1, <2>2 DEF MeshTypeOK
  <1>7. seq'[a] = seq[a] + 1 /\ entries'[a] = entries[a] \union {b} /\ leaving'[a] = leaving[a]
        /\ \A m \in Node \ {a} : seq'[m] = seq[m] /\ entries'[m] = entries[m] /\ leaving'[m] = leaving[m]
    BY <1>0, <1>4 DEF MachineTypes
  <1>8. Carried(f, life[a], seq[a], entries[a], leaving[a], seq'[a], entries'[a], leaving'[a])
    <2>1. Keeps(f, life[a], seq[a], entries[a], seq[a] + 1, entries[a] \union {b})
      BY <1>0, <1>1, <1>2, RightAttached DEF Keeps
    <2>2. Keeps(f, life[a], seq[a], entries[a], seq'[a], entries'[a])
      BY <1>7, <2>1
    <2>3. Carried(f, life[a], seq[a], entries[a], leaving[a], seq'[a], entries'[a], leaving[a])
      BY <1>3, <2>2, ChangeCarried
    <2> QED
      BY <1>7, <2>3
  <1>9. ASSUME NEW l \in Link, NEW m \in Node, NEW p \in Node, Ends(l, m, p)' PROVE WayOK(l, m, p)'
    BY <1>3, <1>4, <1>7, <1>8, <1>9, BroadcastWays
  <1> QED
    BY <1>5, <1>6, <1>9, StillKeeps DEF MeshInv

LEMMA TellDetachedStep ==
    ASSUME MeshInv, NEW a \in Node, NEW b \in entries[a], TellDetached(a, b)
    PROVE  MeshInv'
  <1> DEFINE f == Announced("detached", a, b)
  <1>0. MachineTypes /\ seq[a] \in Nat /\ entries[a] \in SUBSET Entry
    BY DEF MeshInv, MeshTypeOK, MachineTypes
  <1>1. b \in Entry /\ seq[a] + 1 \in Nat
    BY <1>0
  <1>2. f \in ChangeType /\ f.type = "detached" /\ f.seq = seq[a] + 1 /\ f.bridge = b
    BY <1>1 DEF Announced, ChangeType
  <1>3. f \in Frame /\ f.type # "hello"
    BY <1>2 DEF Frame
  <1>4. /\ seq' = [seq EXCEPT ![a] = seq[a] + 1] /\ entries' = [entries EXCEPT ![a] = entries[a] \ {b}]
        /\ Broadcast(a, f) /\ life' = life /\ leaving' = leaving /\ peer' = peer
    BY DEF TellDetached, processVars, remoteVars
  <1> HIDE DEF f
  <1>5. Still /\ LinkTypes'
    BY <1>3, <1>4, BroadcastStill
  <1>6. MeshTypeOK'
    <2>1. MachineTypes'
      BY <1>0, <1>1, <1>4 DEF MachineTypes
    <2>2. PeerTypes'
      BY <1>4 DEF MeshInv, MeshTypeOK, PeerTypes
    <2> QED
      BY <1>5, <2>1, <2>2 DEF MeshTypeOK
  <1>7. seq'[a] = seq[a] + 1 /\ entries'[a] = entries[a] \ {b} /\ leaving'[a] = leaving[a]
        /\ \A m \in Node \ {a} : seq'[m] = seq[m] /\ entries'[m] = entries[m] /\ leaving'[m] = leaving[m]
    BY <1>0, <1>4 DEF MachineTypes
  <1>8. Carried(f, life[a], seq[a], entries[a], leaving[a], seq'[a], entries'[a], leaving'[a])
    <2>1. Keeps(f, life[a], seq[a], entries[a], seq[a] + 1, entries[a] \ {b})
      BY <1>0, <1>1, <1>2, RightDetached DEF Keeps
    <2>2. Keeps(f, life[a], seq[a], entries[a], seq'[a], entries'[a])
      BY <1>7, <2>1
    <2>3. Carried(f, life[a], seq[a], entries[a], leaving[a], seq'[a], entries'[a], leaving[a])
      BY <1>3, <2>2, ChangeCarried
    <2> QED
      BY <1>7, <2>3
  <1>9. ASSUME NEW l \in Link, NEW m \in Node, NEW p \in Node, Ends(l, m, p)' PROVE WayOK(l, m, p)'
    BY <1>3, <1>4, <1>7, <1>8, <1>9, BroadcastWays
  <1> QED
    BY <1>5, <1>6, <1>9, StillKeeps DEF MeshInv

LEMMA TellLeavingStep ==
    ASSUME MeshInv, NEW a \in Node, TellLeaving(a)
    PROVE  MeshInv'
  <1>0. MachineTypes
    BY DEF MeshInv, MeshTypeOK
  <1>4. /\ leaving' = [leaving EXCEPT ![a] = "told"] /\ Broadcast(a, Leaving) /\ life' = life /\ seq' = seq /\ entries' = entries /\ peer' = peer
    BY DEF TellLeaving, localVars, remoteVars
  <1>5. Still /\ LinkTypes'
    BY <1>4, LeavingFrame, BroadcastStill
  <1>6. MeshTypeOK'
    <2>1. MachineTypes'
      BY <1>0, <1>4 DEF MachineTypes
    <2>2. PeerTypes'
      BY <1>4 DEF MeshInv, MeshTypeOK, PeerTypes
    <2> QED
      BY <1>5, <2>1, <2>2 DEF MeshTypeOK
  <1>7. \A m \in Node \ {a} : seq'[m] = seq[m] /\ entries'[m] = entries[m] /\ leaving'[m] = leaving[m]
    BY <1>0, <1>4 DEF MachineTypes
  <1>8. Carried(Leaving, life[a], seq[a], entries[a], leaving[a], seq'[a], entries'[a], leaving'[a])
    BY <1>4, LeavingCarried
  <1>9. ASSUME NEW l \in Link, NEW m \in Node, NEW p \in Node, Ends(l, m, p)' PROVE WayOK(l, m, p)'
    BY <1>4, <1>7, <1>8, <1>9, LeavingFrame, BroadcastWays
  <1> QED
    BY <1>5, <1>6, <1>9, StillKeeps DEF MeshInv

LEMMA AheadDrains ==
    ASSUME NEW l, NEW x, NEW y, NEW q, NEW k, NEW lf, NEW n, NEW es, NEW lv, NEW lv2, lv2 # "told",
           AheadOK(l, x, y, q, k, lf, n, es, lv)
    PROVE  AheadOK(l, x, y, q, k, lf, n, es, lv2)
  BY DEF AheadOK, Leads, Follows

LEMMA SetDrainingStep ==
    ASSUME MeshInv, NEW a \in Node, SetDraining(a)
    PROVE  MeshInv'
  <1>0. MachineTypes
    BY DEF MeshInv, MeshTypeOK
  <1>4. /\ leaving' = [leaving EXCEPT ![a] = "draining"] /\ life' = life /\ seq' = seq /\ entries' = entries /\ peer' = peer
        /\ dialed' = dialed /\ end' = end /\ wire' = wire
    BY DEF SetDraining, localVars, remoteVars, linkVars
  <1>5. Still
    BY <1>4 DEF Still
  <1>6. MeshTypeOK'
    <2>1. MachineTypes'
      BY <1>0, <1>4 DEF MachineTypes
    <2>2. PeerTypes' /\ LinkTypes'
      BY <1>4 DEF MeshInv, MeshTypeOK, PeerTypes, LinkTypes
    <2> QED
      BY <2>1, <2>2 DEF MeshTypeOK
  <1>7. leaving'[a] = "draining" /\ \A m \in Node \ {a} : leaving'[m] = leaving[m]
    BY <1>0, <1>4 DEF MachineTypes
  <1>9. ASSUME NEW l \in Link, NEW m \in Node, NEW p \in Node, Ends(l, m, p)' PROVE WayOK(l, m, p)'
    <2>0. Ends(l, m, p)
      BY <1>4, <1>9 DEF Ends
    <2>1. CASE p # a
      BY <1>4, <1>7, <2>0, <2>1, WaySteady
    <2>2. CASE p = a
      <3>1. /\ TalkOK(end[l][m], end[l][p], wire[l][m], life[p])
            /\ AheadOK(l, end[l][m], end[l][p], wire[l][m], peer[m][p], life[p], seq[p], entries[p], leaving[p])
        BY <2>0, WayHas
      <3>2. AheadOK(l, end[l][m], end[l][p], wire[l][m], peer[m][p], life[p], seq[p], entries[p], leaving'[p])
        BY <1>7, <2>2, <3>1, AheadDrains
      <3> QED
        BY <1>4, <3>1, <3>2, WayNext
    <2> QED
      BY <2>1, <2>2
  <1> QED
    BY <1>5, <1>6, <1>9, StillKeeps DEF MeshInv

LEMMA RestartStep ==
    ASSUME MeshInv, NEW a \in Node, NEW new \in Lives, Restart(a, new)
    PROVE  MeshInv'
  <1>0. MachineTypes
    BY DEF MeshInv, MeshTypeOK
  <1>4. /\ life' = [life EXCEPT ![a] = new] /\ life[a] = 0 /\ leaving' = leaving /\ seq' = seq /\ entries' = entries /\ peer' = peer
        /\ dialed' = dialed /\ end' = end /\ wire' = wire
    BY DEF Restart, localVars, remoteVars, linkVars
  <1>6. MeshTypeOK'
    <2>1. MachineTypes'
      BY <1>0, <1>4 DEF MachineTypes
    <2>2. PeerTypes' /\ LinkTypes'
      BY <1>4 DEF MeshInv, MeshTypeOK, PeerTypes, LinkTypes
    <2> QED
      BY <2>1, <2>2 DEF MeshTypeOK
  <1>7. \A m \in Node \ {a} : life'[m] = life[m]
    BY <1>0, <1>4 DEF MachineTypes
  <1>1. ASSUME NEW l \in Link PROVE LinkOK(l)'
    <2>1. LinkOK(l)
      BY DEF MeshInv
    <2> QED
      BY <1>4, <2>1 DEF LinkOK, Joins
  <1>2. ASSUME NEW l \in Link PROVE end[l][a].stage \in {"none", "closed"} /\ ~end[l][a].subscribed
    <2>1. EndOK(l, a)
      BY DEF MeshInv
    <2> QED
      BY <1>4, <2>1 DEF EndOK
  <1>3. ASSUME NEW l \in Link, NEW m \in Node PROVE EndOK(l, m)'
    <2>1. EndOK(l, m)
      BY DEF MeshInv
    <2> QED
      BY <1>2, <1>4, <1>7, <2>1 DEF EndOK
  <1>8. ASSUME NEW m \in Node, NEW p \in Node PROVE PeerOK(m, p)'
    <2>1. PeerOK(m, p)
      BY DEF MeshInv
    <2> QED
      BY <1>4, <2>1 DEF PeerOK, Ends
  <1>9. ASSUME NEW l \in Link, NEW m \in Node, NEW p \in Node, Ends(l, m, p)' PROVE WayOK(l, m, p)'
    <2>0. Ends(l, m, p)
      BY <1>4, <1>9 DEF Ends
    <2>1. end[l][p].subscribed => p # a
      BY <1>2
    <2> QED
      BY <1>4, <1>7, <2>0, <2>1, WaySteady
  <1> QED
    BY <1>1, <1>3, <1>6, <1>8, <1>9 DEF MeshInv

-----------------------------------------------------------------------------
(* Tasks that end. *)

Calm(l) == dialed'[l] = dialed[l] /\ end'[l] = end[l] /\ wire'[l] = wire[l]

Closed == [NoEnd EXCEPT !.stage = "closed"]

\* The task of machine a ends; the link is free when the other one had ended.
Shut(l, a) ==
    \/ /\ dialed'[l] = Unused /\ end'[l] = [q \in Node |-> NoEnd] /\ wire'[l] = [q \in Node |-> <<>>]
       /\ end[l][Other(l, a)].stage = "closed"
    \/ /\ dialed'[l] = dialed[l] /\ end'[l] = [end[l] EXCEPT ![a] = Closed]
       /\ wire'[l] = [wire[l] EXCEPT ![a] = <<>>, ![Other(l, a)] = Flushed(l, a, Other(l, a))]

\* Every step that ends tasks of a.
Shutting(a) ==
    /\ dialed' = [l \in Link |-> dialed'[l]] /\ end' = [l \in Link |-> end'[l]] /\ wire' = [l \in Link |-> wire'[l]]
    /\ \A l \in Link : Calm(l) \/ (Joins(l, a) /\ Shut(l, a))
    /\ \A m \in Node \ {a} : life'[m] = life[m] /\ seq'[m] = seq[m] /\ entries'[m] = entries[m] /\ leaving'[m] = leaving[m]
    /\ \/ life'[a] = life[a] /\ seq'[a] = seq[a] /\ entries'[a] = entries[a] /\ leaving'[a] = leaving[a]
       \/ \A l \in Link : Joins(l, a) => Shut(l, a)
    /\ \A m \in Node : \A p \in Node : peer'[m][p] = peer[m][p] \/ (m = a /\ peer'[m][p] = NoPeer)
    /\ \A p \in Node : peer'[a][p].link \in Link => Calm(peer'[a][p].link)

LEMMA NoEndHas ==
    /\ NoEnd \in EndType /\ NoEnd.stage = "none" /\ ~NoEnd.subscribed
    /\ Closed \in EndType /\ Closed.stage = "closed" /\ ~Closed.subscribed
  BY DEF NoEnd, Closed, EndType

LEMMA FlushedType ==
    ASSUME LinkTypes, NEW l \in Link, NEW a \in Node, NEW p \in Node
    PROVE  Flushed(l, a, p) \in Seq(Frame)
  <1>1. wire[l][p] \in Seq(Frame)
    BY DEF LinkTypes
  <1>2. wire[l][p] # <<>> => Head(wire[l][p]) \in Frame
    BY <1>1
  <1> QED
    BY <1>1, <1>2 DEF Flushed

LEMMA ShutDoes ==
    ASSUME MeshInv, NEW l \in Link, NEW a \in Node, Joins(l, a), Shut(l, a)
    PROVE  /\ dialed'[l] \in (Node \X Node) \union {Unused} /\ end'[l] \in [Node -> EndType] /\ wire'[l] \in [Node -> Seq(Frame)]
           /\ LinkOK(l)'
           /\ end'[l][a].stage \in {"none", "closed"} /\ ~end'[l][a].subscribed
           /\ \A m \in Node \ {a} : \/ end'[l][m] = end[l][m] /\ dialed'[l] = dialed[l]
                                    \/ end'[l][m] = NoEnd /\ end[l][m].stage \in {"none", "closed"}
           /\ \A m \in Node : \A p \in Node : Ends(l, m, p)' =>
                \/ end'[l][m].stage = "closed" /\ wire'[l][m] = <<>>
                \/ end'[l][p].stage = "closed" /\ ~end'[l][p].subscribed
  <1>0. LinkTypes /\ LinkOK(l)
    BY DEF MeshInv, MeshTypeOK
  <1>1. PICK p \in Node : p = Other(l, a) /\ Ends(l, a, p)
    BY <1>0, JoinsEnds
  <1>2. a # p /\ Joins(l, p) /\ \A c \in Node : Joins(l, c) => c \in {a, p}
    BY <1>0, <1>1, EndsJoin
  <1>3. end[l] \in [Node -> EndType] /\ wire[l] \in [Node -> Seq(Frame)] /\ dialed[l] \in (Node \X Node) \union {Unused}
    BY <1>0 DEF LinkTypes
  <1>4. CASE /\ dialed'[l] = Unused /\ end'[l] = [q \in Node |-> NoEnd] /\ wire'[l] = [q \in Node |-> <<>>]
             /\ end[l][p].stage = "closed"
    <2>1. end'[l] \in [Node -> EndType] /\ \A m \in Node : end'[l][m] = NoEnd
      BY <1>4, NoEndHas
    <2>2. wire'[l] \in [Node -> Seq(Frame)] /\ \A m \in Node : wire'[l][m] = <<>>
      BY <1>4
    <2>3. \A m \in Node : ~Joins(l, m)'
      BY <1>4 DEF Joins
    <2>4. LinkOK(l)'
      BY <1>4, <2>1, <2>2, <2>3 DEF LinkOK
    <2>5. \A m \in Node \ {a} : end[l][m].stage \in {"none", "closed"}
      BY <1>0, <1>2, <1>4, NoEndHas DEF LinkOK
    <2>6. \A m \in Node : \A c \in Node : ~Ends(l, m, c)'
      BY <1>4 DEF Ends, Unused
    <2> QED
      BY <1>4, <2>1, <2>2, <2>4, <2>5, <2>6, NoEndHas
  <1>5. CASE /\ dialed'[l] = dialed[l] /\ end'[l] = [end[l] EXCEPT ![a] = Closed]
             /\ wire'[l] = [wire[l] EXCEPT ![a] = <<>>, ![p] = Flushed(l, a, p)]
    <2>1. end'[l] \in [Node -> EndType] /\ end'[l][a] = Closed /\ \A m \in Node \ {a} : end'[l][m] = end[l][m]
      BY <1>3, <1>5, NoEndHas
    <2>2. Flushed(l, a, p) \in Seq(Frame)
      BY <1>0, FlushedType
    <2>3. PICK fl \in Seq(Frame) : fl = Flushed(l, a, p)
      BY <2>2
    <2>4. wire'[l] \in [Node -> Seq(Frame)] /\ wire'[l][a] = <<>> /\ \A m \in Node \ {a, p} : wire'[l][m] = wire[l][m]
      <3>0. <<>> \in Seq(Frame)
        OBVIOUS
      <3>1. PICK none \in Seq(Frame) : none = <<>>
        BY <3>0
      <3>2. wire'[l] = [[wire[l] EXCEPT ![a] = none] EXCEPT ![p] = fl]
        BY <1>5, <2>3, <3>1
      <3>3. wire'[l] \in [Node -> Seq(Frame)]
        BY <1>3, <3>2
      <3>4. wire'[l][a] = none /\ \A m \in Node \ {a, p} : wire'[l][m] = wire[l][m]
        BY <1>2, <1>3, <3>2
      <3> QED
        BY <3>1, <3>3, <3>4
    <2>5. \A m \in Node : Joins(l, m)' <=> Joins(l, m)
      BY <1>5 DEF Joins
    <2>6. ASSUME NEW m \in Node
          PROVE  IF Joins(l, m)' THEN end'[l][m].stage # "none" ELSE end'[l][m] = NoEnd /\ wire'[l][m] = <<>>
      BY <1>0, <1>2, <2>1, <2>4, <2>5, NoEndHas DEF LinkOK
    <2>7. LinkOK(l)'
      BY <1>0, <1>5, <2>6 DEF LinkOK
    <2>8. ASSUME NEW m \in Node, NEW c \in Node, Ends(l, m, c)' PROVE m = a \/ c = a
      <3>1. Ends(l, m, c)
        BY <1>5, <2>8 DEF Ends
      <3> QED
        BY <1>0, <3>1, EndsJoin
    <2> QED
      BY <1>3, <1>5, <2>1, <2>4, <2>7, <2>8, NoEndHas
  <1> QED
    BY <1>1, <1>4, <1>5 DEF Shut

LEMMA ShuttingKeeps ==
    ASSUME MeshInv, NEW a \in Node, Shutting(a), MachineTypes', PeerTypes'
    PROVE  MeshInv'
  <1>1. ASSUME NEW l \in Link
        PROVE  dialed'[l] \in (Node \X Node) \union {Unused} /\ end'[l] \in [Node -> EndType] /\ wire'[l] \in [Node -> Seq(Frame)] /\ LinkOK(l)'
    <2>1. CASE Calm(l)
      <3>1. LinkTypes /\ LinkOK(l)
        BY DEF MeshInv, MeshTypeOK
      <3> QED
        BY <2>1, <3>1 DEF Calm, LinkTypes, LinkOK, Joins
    <2>2. CASE Joins(l, a) /\ Shut(l, a)
      BY <2>2, ShutDoes
    <2> QED
      BY <2>1, <2>2 DEF Shutting
  <1>2. LinkTypes'
    BY <1>1 DEF LinkTypes, Shutting
  <1>3. ASSUME NEW l \in Link, NEW m \in Node PROVE EndOK(l, m)'
    <2>0. EndOK(l, m) /\ LinkOK(l)
      BY DEF MeshInv
    <2>1. CASE Calm(l) /\ life'[m] = life[m]
      BY <2>0, <2>1 DEF EndOK, Calm
    <2>2. CASE Joins(l, a) /\ Shut(l, a) /\ m = a
      <3>1. end'[l][a].stage \in {"none", "closed"} /\ ~end'[l][a].subscribed
        BY <2>2, ShutDoes
      <3> QED
        BY <2>2, <3>1 DEF EndOK
    <2>3. CASE Joins(l, a) /\ Shut(l, a) /\ m # a
      <3>1. end'[l][m] = end[l][m] \/ end'[l][m] = NoEnd
        BY <2>3, ShutDoes
      <3>2. life'[m] = life[m]
        BY <2>3 DEF Shutting
      <3> QED
        BY <2>0, <3>1, <3>2, NoEndHas DEF EndOK
    <2>4. CASE ~Joins(l, a) /\ Calm(l) /\ m = a
      <3>1. end'[l][m] = NoEnd
        BY <2>0, <2>4 DEF LinkOK, Calm
      <3> QED
        BY <3>1, NoEndHas DEF EndOK
    <2> QED
      BY <2>1, <2>2, <2>3, <2>4 DEF Shutting
  <1>4. ASSUME NEW m \in Node, NEW p \in Node PROVE PeerOK(m, p)'
    <2>0. PeerOK(m, p) /\ peer[m][p].link \in Link \union {NoLink}
      BY DEF MeshInv, MeshTypeOK, PeerTypes, PeerType
    <2>1. CASE peer'[m][p] = NoPeer
      <3>1. NoPeer.link = NoLink
        BY DEF NoPeer
      <3> QED
        BY <2>1, <3>1 DEF PeerOK
    <2>2. CASE peer'[m][p] = peer[m][p] /\ peer[m][p].link = NoLink
      BY <2>0, <2>2 DEF PeerOK
    <2>3. CASE peer'[m][p] = peer[m][p] /\ peer[m][p].link # NoLink
      <3>1. PICK l \in Link : l = peer[m][p].link
        BY <2>0, <2>3
      <3>2. Ends(l, m, p) /\ end[l][m].stage = "up"
        BY <2>0, <2>3, <3>1 DEF PeerOK
      <3>3. dialed'[l] = dialed[l] /\ end'[l][m] = end[l][m]
        <4>1. CASE Calm(l)
          BY <4>1 DEF Calm
        <4>2. CASE ~Calm(l)
          <5>1. m # a
            BY <2>3, <3>1, <4>2 DEF Shutting
          <5>2. Joins(l, a) /\ Shut(l, a)
            BY <4>2 DEF Shutting
          <5>3. (end'[l][m] = end[l][m] /\ dialed'[l] = dialed[l]) \/ end[l][m].stage \in {"none", "closed"}
            BY <5>1, <5>2, ShutDoes
          <5> QED
            BY <3>2, <5>3
        <4> QED
          BY <4>1, <4>2
      <3> QED
        BY <2>3, <3>1, <3>2, <3>3 DEF PeerOK, Ends
    <2> QED
      BY <2>1, <2>2, <2>3 DEF Shutting
  <1>5. ASSUME NEW l \in Link, NEW m \in Node, NEW p \in Node, Ends(l, m, p)' PROVE WayOK(l, m, p)'
    <2>1. CASE Calm(l) /\ (p = a => ~Shut(l, a))
      <3>0. Ends(l, m, p)
        BY <1>5, <2>1 DEF Calm, Ends
      <3>1. Joins(l, p)
        BY <3>0, WayHas
      <3>2. life'[p] = life[p] /\ seq'[p] = seq[p] /\ entries'[p] = entries[p] /\ leaving'[p] = leaving[p]
        BY <2>1, <3>1 DEF Shutting
      <3>3. peer'[m][p].link = l => peer'[m][p] = peer[m][p]
        <4>1. NoPeer.link = NoLink /\ NoLink \notin Link
          BY MeshAssumption DEF NoPeer
        <4> QED
          BY <4>1 DEF Shutting
      <3> QED
        BY <2>1, <3>0, <3>2, <3>3, WaySteady DEF Calm
    <2>2. CASE Joins(l, a) /\ Shut(l, a)
      <3>1. \/ end'[l][m].stage = "closed" /\ wire'[l][m] = <<>>
            \/ end'[l][p].stage = "closed" /\ ~end'[l][p].subscribed
        BY <1>5, <2>2, ShutDoes
      <3> QED
        BY <3>1, WayLeft, WayUnread
    <2>3. CASE Calm(l) /\ p = a /\ Shut(l, a)
      <3>0. Ends(l, m, p)
        BY <1>5, <2>3 DEF Calm, Ends
      <3>1. Joins(l, p)
        BY <3>0, WayHas
      <3> QED
        BY <2>2, <2>3, <3>1
    <2> QED
      BY <2>1, <2>2, <2>3 DEF Shutting
  <1> QED
    BY <1>1, <1>2, <1>3, <1>4, <1>5 DEF MeshInv, MeshTypeOK

LEMMA NoPeerHas == NoPeer \in PeerType /\ NoPeer.link = NoLink /\ NoLink \notin Link
  <1>1. NoPeer.link = NoLink /\ NoLink \notin Link
    BY MeshAssumption DEF NoPeer
  <1>2. {} \in SUBSET Entry
    OBVIOUS
  <1>3. NoPeer \in PeerType
    BY <1>2 DEF NoPeer, PeerType
  <1> QED
    BY <1>1, <1>3

LEMMA EndHereStep ==
    ASSUME MeshInv, NEW l \in Link, NEW a \in Node, Joins(l, a), EndHere(l, a)
    PROVE  MeshInv'
  <1>0. LinkTypes /\ PeerTypes /\ MachineTypes /\ LinkOK(l)
    BY DEF MeshInv, MeshTypeOK
  <1>1. PICK p \in Node : p = Other(l, a) /\ Ends(l, a, p)
    BY <1>0, JoinsEnds
  <1>2. life' = life /\ leaving' = leaving /\ seq' = seq /\ entries' = entries
    BY DEF EndHere, localVars
  <1>3. IF peer[a][p].link = l THEN peer' = [peer EXCEPT ![a][p] = NoPeer] ELSE peer' = peer
    BY <1>1 DEF EndHere, LinkLost, remoteVars
  <1>4. PeerTypes' /\ \A m \in Node : \A c \in Node : IF m = a /\ c = p /\ peer[a][p].link = l THEN peer'[m][c] = NoPeer ELSE peer'[m][c] = peer[m][c]
    <2>1. peer \in [Node -> [Node -> PeerType]]
      BY <1>0 DEF PeerTypes
    <2>2. CASE peer[a][p].link = l
      <3>1. peer' = [peer EXCEPT ![a][p] = NoPeer]
        BY <1>3, <2>2
      <3>2. peer' \in [Node -> [Node -> PeerType]]
        BY <2>1, <3>1, NoPeerHas
      <3>3. \A m \in Node : \A c \in Node : peer'[m][c] = IF m = a /\ c = p THEN NoPeer ELSE peer[m][c]
        BY <2>1, <3>1
      <3> QED
        BY <2>2, <3>2, <3>3 DEF PeerTypes
    <2>3. CASE peer[a][p].link # l
      BY <1>3, <2>1, <2>3 DEF PeerTypes
    <2> QED
      BY <2>2, <2>3
  <1>5. MachineTypes'
    BY <1>0, <1>2 DEF MachineTypes
  <1>6. /\ dialed' = [k \in Link |-> dialed'[k]] /\ end' = [k \in Link |-> end'[k]] /\ wire' = [k \in Link |-> wire'[k]]
        /\ Shut(l, a) /\ \A k \in Link \ {l} : Calm(k)
    <2>1. dialed \in [Link -> (Node \X Node) \union {Unused}] /\ end \in [Link -> [Node -> EndType]] /\ wire \in [Link -> [Node -> Seq(Frame)]]
      BY <1>0 DEF LinkTypes
    <2>2. CASE end[l][p].stage = "closed"
      <3>1. /\ dialed' = [dialed EXCEPT ![l] = Unused] /\ end' = [end EXCEPT ![l] = [q \in Node |-> NoEnd]]
            /\ wire' = [wire EXCEPT ![l] = [q \in Node |-> <<>>]]
        BY <1>1, <2>2 DEF EndHere, CloseLink
      <3>2. Shut(l, a)
        BY <1>1, <2>1, <2>2, <3>1 DEF Shut
      <3>3. \A k \in Link \ {l} : Calm(k)
        BY <2>1, <3>1 DEF Calm
      <3>4. dialed' = [k \in Link |-> dialed'[k]] /\ end' = [k \in Link |-> end'[k]] /\ wire' = [k \in Link |-> wire'[k]]
        BY <2>1, <3>1
      <3> QED
        BY <3>2, <3>3, <3>4
    <2>3. CASE end[l][p].stage # "closed"
      <3>1. /\ dialed' = dialed /\ end' = [end EXCEPT ![l][a] = Closed]
            /\ wire' = [wire EXCEPT ![l] = [wire[l] EXCEPT ![a] = <<>>, ![p] = Flushed(l, a, p)]]
        BY <1>1, <2>3 DEF EndHere, CloseLink, Closed
      <3>2. Shut(l, a)
        BY <1>1, <2>1, <2>3, <3>1 DEF Shut
      <3>3. \A k \in Link \ {l} : Calm(k)
        BY <2>1, <3>1 DEF Calm
      <3>4. dialed' = [k \in Link |-> dialed'[k]] /\ end' = [k \in Link |-> end'[k]] /\ wire' = [k \in Link |-> wire'[k]]
        BY <2>1, <3>1
      <3> QED
        BY <3>2, <3>3, <3>4
    <2> QED
      BY <2>2, <2>3
  <1>7. ASSUME NEW c \in Node, peer'[a][c].link \in Link PROVE Calm(peer'[a][c].link)
    <2>1. peer'[a][c] = peer[a][c] /\ peer[a][c].link \in Link
      BY <1>4, <1>7, NoPeerHas
    <2>2. CASE peer[a][c].link = l
      <3>1. PeerOK(a, c)
        BY DEF MeshInv
      <3>2. Ends(l, a, c)
        BY <2>2, <3>1, NoPeerHas DEF PeerOK
      <3>3. c = p
        BY <1>0, <1>1, <3>2, EndsJoin
      <3> QED
        BY <1>4, <1>7, <2>2, <3>3, NoPeerHas
    <2> QED
      BY <1>6, <2>1, <2>2
  <1>8. Shutting(a)
    BY <1>2, <1>4, <1>6, <1>7 DEF Shutting
  <1> QED
    BY <1>4, <1>5, <1>8, ShuttingKeeps

LEMMA DieStep ==
    ASSUME MeshInv, NEW a \in Node, Die(a)
    PROVE  MeshInv'
  <1>0. LinkTypes /\ PeerTypes /\ MachineTypes
    BY DEF MeshInv, MeshTypeOK
  <1>1. /\ life' = [life EXCEPT ![a] = 0] /\ leaving' = [leaving EXCEPT ![a] = "no"] /\ seq' = [seq EXCEPT ![a] = 0]
        /\ entries' = [entries EXCEPT ![a] = {}] /\ peer' = [peer EXCEPT ![a] = [p \in Node |-> NoPeer]]
    BY DEF Die
  <1>2. MachineTypes'
    <2>1. {} \in SUBSET Entry
      OBVIOUS
    <2> QED
      BY <1>0, <1>1, <2>1 DEF MachineTypes
  <1>3. \A m \in Node \ {a} : life'[m] = life[m] /\ seq'[m] = seq[m] /\ entries'[m] = entries[m] /\ leaving'[m] = leaving[m]
    BY <1>0, <1>1 DEF MachineTypes
  <1>4. PeerTypes' /\ \A m \in Node : \A p \in Node : peer'[m][p] = IF m = a THEN NoPeer ELSE peer[m][p]
    <2>1. peer \in [Node -> [Node -> PeerType]]
      BY <1>0 DEF PeerTypes
    <2>2. [p \in Node |-> NoPeer] \in [Node -> PeerType]
      BY NoPeerHas
    <2>3. peer' \in [Node -> [Node -> PeerType]]
      BY <1>1, <2>1, <2>2
    <2> QED
      BY <1>1, <2>1, <2>3 DEF PeerTypes
  <1>5. dialed' = [k \in Link |-> dialed'[k]] /\ end' = [k \in Link |-> end'[k]] /\ wire' = [k \in Link |-> wire'[k]]
    BY DEF Die
  <1>6. ASSUME NEW l \in Link PROVE IF Joins(l, a) THEN Shut(l, a) ELSE Calm(l)
    <2>1. CASE ~Joins(l, a)
      BY <2>1 DEF Die, Calm
    <2>2. CASE Joins(l, a) /\ end[l][Other(l, a)].stage = "closed"
      BY <2>2 DEF Die, Shut
    <2>3. CASE Joins(l, a) /\ end[l][Other(l, a)].stage # "closed"
      BY <2>3 DEF Die, Shut, Closed
    <2> QED
      BY <2>1, <2>2, <2>3
  <1>7. Shutting(a)
    <2>1. \A p \in Node : peer'[a][p].link \notin Link
      BY <1>4, NoPeerHas
    <2> QED
      BY <1>3, <1>4, <1>5, <1>6, <2>1 DEF Shutting
  <1> QED
    BY <1>2, <1>4, <1>7, ShuttingKeeps

-----------------------------------------------------------------------------
(* A link comes up. *)

\* Only the two tasks of one link, and what is on its way over it, change.
OnLink(l) ==
    /\ life' = life /\ leaving' = leaving /\ seq' = seq /\ entries' = entries
    /\ dialed' = [dialed EXCEPT ![l] = dialed'[l]] /\ end' = [end EXCEPT ![l] = end'[l]] /\ wire' = [wire EXCEPT ![l] = wire'[l]]

LEMMA OnLinkKeeps ==
    ASSUME MeshInv, NEW l \in Link, OnLink(l), peer' = peer,
           dialed'[l] \in (Node \X Node) \union {Unused}, end'[l] \in [Node -> EndType], wire'[l] \in [Node -> Seq(Frame)],
           LinkOK(l)', \A m \in Node : EndOK(l, m)',
           \A m \in Node : \A p \in Node : Ends(l, m, p)' => WayOK(l, m, p)',
           \A m \in Node : end[l][m].stage = "up" => end'[l][m].stage = "up" /\ dialed'[l] = dialed[l]
    PROVE  MeshInv'
  <1>0. LinkTypes /\ PeerTypes /\ MachineTypes
    BY DEF MeshInv, MeshTypeOK
  <1>1. \A k \in Link \ {l} : Calm(k)
    BY <1>0 DEF OnLink, LinkTypes, Calm
  <1>2. MeshTypeOK'
    <2>1. LinkTypes'
      BY <1>0 DEF OnLink, LinkTypes
    <2>2. MachineTypes' /\ PeerTypes'
      BY <1>0 DEF OnLink, MachineTypes, PeerTypes
    <2> QED
      BY <2>1, <2>2 DEF MeshTypeOK
  <1>3. ASSUME NEW k \in Link PROVE LinkOK(k)'
    <2>1. LinkOK(k)
      BY DEF MeshInv
    <2>2. CASE k # l
      BY <1>1, <2>1, <2>2 DEF Calm, LinkOK, Joins
    <2> QED
      BY <2>2
  <1>4. ASSUME NEW k \in Link, NEW m \in Node PROVE EndOK(k, m)'
    <2>1. EndOK(k, m)
      BY DEF MeshInv
    <2>2. CASE k # l
      BY <1>1, <2>1, <2>2 DEF Calm, EndOK, OnLink
    <2> QED
      BY <2>2
  <1>5. ASSUME NEW m \in Node, NEW p \in Node PROVE PeerOK(m, p)'
    <2>1. PeerOK(m, p) /\ peer[m][p].link \in Link \union {NoLink}
      BY DEF MeshInv, MeshTypeOK, PeerTypes, PeerType
    <2>2. CASE peer[m][p].link = NoLink
      BY <2>1, <2>2 DEF PeerOK
    <2>3. CASE peer[m][p].link # NoLink
      <3>1. PICK k \in Link : k = peer[m][p].link
        BY <2>1, <2>3
      <3>2. Ends(k, m, p) /\ end[k][m].stage = "up"
        BY <2>1, <2>3, <3>1 DEF PeerOK
      <3>3. end'[k][m].stage = "up" /\ dialed'[k] = dialed[k]
        BY <1>1, <3>2 DEF Calm
      <3> QED
        BY <2>3, <3>1, <3>2, <3>3 DEF PeerOK, Ends
    <2> QED
      BY <2>2, <2>3
  <1>6. ASSUME NEW k \in Link, NEW m \in Node, NEW p \in Node, Ends(k, m, p)' PROVE WayOK(k, m, p)'
    <2>1. CASE k # l
      <3>1. Calm(k)
        BY <1>1, <2>1
      <3>2. Ends(k, m, p)
        BY <1>6, <3>1 DEF Calm, Ends
      <3> QED
        BY <3>1, <3>2, WaySteady DEF Calm, OnLink
    <2> QED
      BY <1>6, <2>1
  <1> QED
    BY <1>2, <1>3, <1>4, <1>5, <1>6 DEF MeshInv

LEMMA LeadsFresh ==
    ASSUME NEW l, NEW x, NEW y, NEW q, NEW k, NEW lf, NEW n, NEW es, NEW lv,
           y.stage = "opening", x.stage # "up", Leads(q, lv # "no", lf, n, es, lv)
    PROVE  AheadOK(l, x, y, q, k, lf, n, es, lv)
  <1>1. Ahead(x, y, q) = q
    BY DEF Ahead
  <1>2. SaysDraining(x, y, q, lv) = (lv # "no")
    BY DEF SaysDraining
  <1> QED
    BY <1>1, <1>2 DEF AheadOK

LEMMA DialStep ==
    ASSUME MeshInv, NEW l \in Link, NEW a \in Node, NEW b \in Node, Dial(l, a, b)
    PROVE  MeshInv'
  <1>0. LinkTypes /\ PeerTypes /\ MachineTypes /\ LinkOK(l)
    BY DEF MeshInv, MeshTypeOK
  <1>1. life[a] # 0 /\ life[b] # 0 /\ a # b /\ dialed[l] = Unused
    BY DEF Dial
  <1>2. \A m \in Node : ~Joins(l, m) /\ end[l][m] = NoEnd /\ wire[l][m] = <<>>
    BY <1>0, <1>1 DEF LinkOK, Joins
  <1>3. PICK frames \in Snapshots(a) : wire' = [wire EXCEPT ![l][b] = wire[l][b] \o frames]
    BY DEF Dial, Subscribe
  <1>4. /\ frames \in Seq(Frame) /\ frames # <<>> /\ Head(frames).type # "hello"
        /\ Leads(frames, leaving[a] # "no", life[a], seq[a], entries[a], leaving[a])
    <2>1. PICK says \in BOOLEAN : says = (leaving[a] # "no")
      OBVIOUS
    <2>2. leaving[a] = "told" => says
      BY <2>1
    <2> QED
      BY <1>0, <2>1, <2>2, SnapshotsLead
  <1>5. /\ life' = life /\ leaving' = leaving /\ seq' = seq /\ entries' = entries /\ peer' = peer
        /\ dialed' = [dialed EXCEPT ![l] = <<a, b>>] /\ end' = [end EXCEPT ![l] = Connected(a, b)]
    BY DEF Dial, processVars, localVars, remoteVars
  <1>6. dialed \in [Link -> (Node \X Node) \union {Unused}] /\ end \in [Link -> [Node -> EndType]] /\ wire \in [Link -> [Node -> Seq(Frame)]]
    BY <1>0 DEF LinkTypes
  <1>7. <<>> \o frames = frames
    BY <1>4
  <1>8. wire'[l] = [wire[l] EXCEPT ![b] = frames]
    BY <1>2, <1>3, <1>6, <1>7
  <1>9. wire'[l][b] = frames /\ wire'[l] \in [Node -> Seq(Frame)] /\ \A m \in Node \ {b} : wire'[l][m] = <<>>
    BY <1>2, <1>4, <1>6, <1>8
  <1>10. dialed'[l] = <<a, b>> /\ end'[l] = Connected(a, b)
    BY <1>5, <1>6
  <1>11. OnLink(l)
    <2>1. wire' = [wire EXCEPT ![l] = wire'[l]]
      BY <1>3, <1>6
    <2>2. dialed' = [dialed EXCEPT ![l] = dialed'[l]] /\ end' = [end EXCEPT ![l] = end'[l]]
      BY <1>5, <1>10
    <2> QED
      BY <1>5, <2>1, <2>2 DEF OnLink
  <1>12. PICK x \in EndType : x = [NoEnd EXCEPT !.stage = "opening", !.subscribed = TRUE] /\ x.stage = "opening" /\ x.subscribed
    <2>1. PICK x : x = [NoEnd EXCEPT !.stage = "opening", !.subscribed = TRUE]
      OBVIOUS
    <2>2. x \in EndType /\ x.stage = "opening" /\ x.subscribed
      BY <2>1 DEF NoEnd, EndType
    <2> QED
      BY <2>1, <2>2
  <1>13. PICK y \in EndType : y = [NoEnd EXCEPT !.stage = "waiting"] /\ y.stage = "waiting" /\ ~y.subscribed
    <2>1. PICK y : y = [NoEnd EXCEPT !.stage = "waiting"]
      OBVIOUS
    <2>2. y \in EndType /\ y.stage = "waiting" /\ ~y.subscribed
      BY <2>1 DEF NoEnd, EndType
    <2> QED
      BY <2>1, <2>2
  <1>14. end'[l] = [q \in Node |-> CASE q = a -> x [] q = b -> y [] OTHER -> NoEnd]
    BY <1>10, <1>12, <1>13 DEF Connected
  <1>15. end'[l][a] = x /\ end'[l][b] = y /\ \A m \in Node \ {a, b} : end'[l][m] = NoEnd
    BY <1>1, <1>14
  <1>16. end'[l] \in [Node -> EndType]
    <2>1. ASSUME NEW q \in Node PROVE end'[l][q] \in EndType
      BY <1>15, NoEndHas
    <2>2. end'[l] = [q \in Node |-> end'[l][q]]
      BY <1>14
    <2> QED
      BY <2>1, <2>2
  <1>17. LinkOK(l)'
    <2>1. \A m \in Node : Joins(l, m)' <=> m \in {a, b}
      BY <1>10 DEF Joins, Unused
    <2>2. dialed'[l][1] # dialed'[l][2]
      BY <1>1, <1>10
    <2>3. ASSUME NEW m \in Node
          PROVE  IF Joins(l, m)' THEN end'[l][m].stage # "none" ELSE end'[l][m] = NoEnd /\ wire'[l][m] = <<>>
      BY <1>9, <1>12, <1>13, <1>15, <2>1
    <2> QED
      BY <2>2, <2>3 DEF LinkOK
  <1>18. ASSUME NEW m \in Node PROVE EndOK(l, m)'
    BY <1>1, <1>5, <1>12, <1>13, <1>15, NoEndHas DEF EndOK
  <1>19. ASSUME NEW m \in Node, NEW p \in Node, Ends(l, m, p)' PROVE WayOK(l, m, p)'
    <2>1. m \in {a, b} /\ p \in {a, b} /\ m # p
      BY <1>1, <1>10, <1>19 DEF Ends
    <2>2. CASE m = b /\ p = a
      <3>1. TalkOK(y, x, frames, life[a])
        BY <1>4, <1>12, <1>13 DEF TalkOK
      <3>2. AheadOK(l, y, x, frames, peer'[b][a], life[a], seq[a], entries[a], leaving[a])
        BY <1>4, <1>12, <1>13, LeadsFresh
      <3> QED
        BY <1>5, <1>9, <1>15, <2>2, <3>1, <3>2, WayNext
    <2>3. CASE m = a /\ p = b
      <3>1. TalkOK(x, y, <<>>, life[b])
        BY <1>12, <1>13 DEF TalkOK
      <3>2. AheadOK(l, x, y, <<>>, peer'[a][b], life[b], seq[b], entries[b], leaving[b])
        BY <1>13, AheadSilent
      <3> QED
        BY <1>1, <1>5, <1>9, <1>15, <2>3, <3>1, <3>2, WayNext
    <2> QED
      BY <2>1, <2>2, <2>3
  <1>20. \A m \in Node : end[l][m].stage # "up"
    BY <1>2, NoEndHas
  <1>21. dialed'[l] \in (Node \X Node) \union {Unused}
    BY <1>10
  <1> QED
    BY <1>5, <1>9, <1>11, <1>16, <1>17, <1>18, <1>19, <1>20, <1>21, OnLinkKeeps

\* One task goes on to e, with the frames w on their way to c.
Moves(l, a, p, e, c, w) ==
    /\ Ends(l, a, p) /\ end[l][a].stage # "up"
    /\ e \in EndType /\ e.stage # "none" /\ w \in Seq(Frame) /\ c \in {a, p}
    /\ life' = life /\ leaving' = leaving /\ seq' = seq /\ entries' = entries /\ peer' = peer /\ dialed' = dialed
    /\ end' = [end EXCEPT ![l][a] = e] /\ wire' = [wire EXCEPT ![l][c] = w]

LEMMA MovesDoes ==
    ASSUME MeshInv, NEW l \in Link, NEW a \in Node, NEW p \in Node, NEW e, NEW c, NEW w, Moves(l, a, p, e, c, w)
    PROVE  /\ a # p
           /\ end'[l] \in [Node -> EndType] /\ end'[l][a] = e /\ \A m \in Node \ {a} : end'[l][m] = end[l][m]
           /\ wire'[l] \in [Node -> Seq(Frame)] /\ wire'[l][c] = w /\ \A m \in Node \ {c} : wire'[l][m] = wire[l][m]
           /\ end'[l][p] = end[l][p] /\ (c = p => wire'[l][a] = wire[l][a]) /\ (c = a => wire'[l][p] = wire[l][p])
           /\ OnLink(l)
  <1>1. end \in [Link -> [Node -> EndType]] /\ wire \in [Link -> [Node -> Seq(Frame)]] /\ dialed \in [Link -> (Node \X Node) \union {Unused}]
    BY DEF MeshInv, MeshTypeOK, LinkTypes
  <1>2. a # p /\ c \in Node
    BY WayHas DEF Moves
  <1>3. /\ e \in EndType /\ w \in Seq(Frame) /\ end' = [end EXCEPT ![l][a] = e] /\ wire' = [wire EXCEPT ![l][c] = w] /\ dialed' = dialed
        /\ life' = life /\ leaving' = leaving /\ seq' = seq /\ entries' = entries
    BY DEF Moves
  <1>4. end'[l] \in [Node -> EndType] /\ end'[l][a] = e /\ \A m \in Node \ {a} : end'[l][m] = end[l][m]
    BY <1>1, <1>3
  <1>5. wire'[l] \in [Node -> Seq(Frame)] /\ wire'[l][c] = w /\ \A m \in Node \ {c} : wire'[l][m] = wire[l][m]
    BY <1>1, <1>2, <1>3
  <1>6. OnLink(l)
    BY <1>1, <1>3 DEF OnLink
  <1> QED
    BY <1>2, <1>4, <1>5, <1>6

LEMMA MovesKeeps ==
    ASSUME MeshInv, NEW l \in Link, NEW a \in Node, NEW p \in Node, NEW e, NEW c, NEW w, Moves(l, a, p, e, c, w),
           e.stage # "closed", life[a] # 0, e.stage = "checking" => e.life \in Lives, e.stage = "waiting" => ~e.subscribed,
           WayOK(l, a, p)', WayOK(l, p, a)'
    PROVE  MeshInv'
  <1>0. LinkOK(l) /\ Ends(l, a, p) /\ Joins(l, a) /\ Joins(l, p) /\ \A m \in Node : Joins(l, m) => m \in {a, p}
    <2>1. LinkOK(l) /\ Ends(l, a, p)
      BY DEF MeshInv, Moves
    <2> QED
      BY <2>1, EndsJoin
  <1>1. /\ end'[l] \in [Node -> EndType] /\ end'[l][a] = e /\ \A m \in Node \ {a} : end'[l][m] = end[l][m]
        /\ wire'[l] \in [Node -> Seq(Frame)] /\ \A m \in Node \ {a, p} : wire'[l][m] = wire[l][m]
        /\ OnLink(l)
    <2>1. c \in {a, p}
      BY DEF Moves
    <2> QED
      BY <2>1, MovesDoes
  <1>2. dialed' = dialed /\ peer' = peer /\ life' = life /\ e.stage # "none" /\ end[l][a].stage # "up"
    BY DEF Moves
  <1>3. LinkOK(l)'
    <2>1. \A m \in Node : Joins(l, m)' <=> Joins(l, m)
      BY <1>2 DEF Joins
    <2>2. ASSUME NEW m \in Node
          PROVE  IF Joins(l, m)' THEN end'[l][m].stage # "none" ELSE end'[l][m] = NoEnd /\ wire'[l][m] = <<>>
      BY <1>0, <1>1, <1>2, <2>1 DEF LinkOK
    <2> QED
      BY <1>0, <1>2, <2>2 DEF LinkOK
  <1>4. ASSUME NEW m \in Node PROVE EndOK(l, m)'
    <2>1. EndOK(l, m)
      BY DEF MeshInv
    <2>2. CASE m = a
      BY <1>1, <1>2, <2>2 DEF EndOK
    <2>3. CASE m # a
      BY <1>1, <1>2, <2>1, <2>3 DEF EndOK
    <2> QED
      BY <2>2, <2>3
  <1>5. ASSUME NEW m \in Node, NEW q \in Node, Ends(l, m, q)' PROVE WayOK(l, m, q)'
    <2>0. Ends(l, m, q)
      BY <1>2, <1>5 DEF Ends
    <2>1. m # q /\ Joins(l, m) /\ Joins(l, q)
      BY <1>0, <2>0, EndsJoin
    <2>2. m \in {a, p} /\ q \in {a, p} /\ m # q
      BY <1>0, <2>1
    <2> QED
      BY <2>2
  <1>6. ASSUME NEW m \in Node, end[l][m].stage = "up" PROVE end'[l][m].stage = "up" /\ dialed'[l] = dialed[l]
    BY <1>1, <1>2, <1>6
  <1>7. dialed'[l] \in (Node \X Node) \union {Unused}
    BY <1>2 DEF MeshInv, MeshTypeOK, LinkTypes
  <1> QED
    BY <1>1, <1>2, <1>3, <1>4, <1>5, <1>6, <1>7, OnLinkKeeps

LEMMA AcceptStep ==
    ASSUME MeshInv, NEW l \in Link, NEW a \in Node, Accept(l, a)
    PROVE  MeshInv'
  <1>0. LinkTypes /\ MachineTypes /\ LinkOK(l) /\ EndOK(l, a) /\ end[l][a].stage = "waiting" /\ end[l][a] \in EndType
    BY DEF MeshInv, MeshTypeOK, LinkTypes, Accept
  <1>1. Joins(l, a)
    BY <1>0, NoEndHas DEF LinkOK
  <1>2. PICK p \in Node : p = Other(l, a) /\ Ends(l, a, p)
    BY <1>0, <1>1, JoinsEnds
  <1>3. Ends(l, p, a)
    BY <1>2 DEF Ends
  <1>4. wire[l][p] = <<>> /\ end[l][p].stage \notin {"checking", "up"}
    <2>1. TalkOK(end[l][p], end[l][a], wire[l][p], life[a])
      BY <1>3, WayHas
    <2> QED
      BY <1>0, <2>1 DEF TalkOK
  <1>5. PICK frames \in Snapshots(a) : wire' = [wire EXCEPT ![l][p] = wire[l][p] \o frames]
    BY <1>2 DEF Accept, Subscribe
  <1>6. /\ frames \in Seq(Frame) /\ frames # <<>> /\ Head(frames).type # "hello"
        /\ Leads(frames, leaving[a] # "no", life[a], seq[a], entries[a], leaving[a])
    <2>1. PICK says \in BOOLEAN : says = (leaving[a] # "no")
      OBVIOUS
    <2>2. leaving[a] = "told" => says
      BY <2>1
    <2> QED
      BY <1>0, <2>1, <2>2, SnapshotsLead
  <1>7. wire[l][p] \o frames = frames
    BY <1>4, <1>6
  <1>8. PICK e : e = [end[l][a] EXCEPT !.stage = "opening", !.subscribed = TRUE]
    OBVIOUS
  <1>9. e \in EndType /\ e.stage = "opening" /\ e.subscribed
    BY <1>0, <1>8 DEF EndType
  <1>10. Moves(l, a, p, e, p, frames)
    <2>1. end' = [end EXCEPT ![l][a] = e]
      BY <1>0, <1>8 DEF Accept, LinkTypes
    <2>2. wire' = [wire EXCEPT ![l][p] = frames]
      BY <1>5, <1>7
    <2>3. life' = life /\ leaving' = leaving /\ seq' = seq /\ entries' = entries /\ peer' = peer /\ dialed' = dialed
      BY DEF Accept, processVars, localVars, remoteVars
    <2> QED
      BY <1>0, <1>2, <1>6, <1>9, <2>1, <2>2, <2>3 DEF Moves
  <1>11. a # p /\ end'[l][a] = e /\ end'[l][p] = end[l][p] /\ wire'[l][p] = frames /\ wire'[l][a] = wire[l][a] /\ peer' = peer
         /\ life' = life /\ leaving' = leaving /\ seq' = seq /\ entries' = entries
    <2>1. a # p /\ end'[l][a] = e /\ end'[l][p] = end[l][p] /\ wire'[l][p] = frames /\ wire'[l][a] = wire[l][a]
      BY <1>10, MovesDoes
    <2>2. peer' = peer /\ life' = life /\ leaving' = leaving /\ seq' = seq /\ entries' = entries
      BY <1>10 DEF Moves
    <2> QED
      BY <2>1, <2>2
  <1>12. WayOK(l, p, a)'
    <2>1. TalkOK(end[l][p], e, frames, life[a])
      BY <1>4, <1>6, <1>9 DEF TalkOK
    <2>2. AheadOK(l, end[l][p], e, frames, peer[p][a], life[a], seq[a], entries[a], leaving[a])
      BY <1>4, <1>6, <1>9, LeadsFresh
    <2> QED
      BY <1>11, <2>1, <2>2, WayNext
  <1>13. WayOK(l, a, p)'
    <2>0. /\ TalkOK(end[l][a], end[l][p], wire[l][a], life[p])
          /\ AheadOK(l, end[l][a], end[l][p], wire[l][a], peer[a][p], life[p], seq[p], entries[p], leaving[p])
      BY <1>2, WayHas
    <2>1. TalkOK(e, end[l][p], wire[l][a], life[p])
      BY <1>0, <1>9, <2>0 DEF TalkOK
    <2>2. AheadOK(l, e, end[l][p], wire[l][a], peer[a][p], life[p], seq[p], entries[p], leaving[p])
      <3>1. Ahead(e, end[l][p], wire[l][a]) = Ahead(end[l][a], end[l][p], wire[l][a]) /\ Fresh(end[l][a]) /\ e.stage # "up"
        BY <1>0, <1>9 DEF Ahead, Fresh
      <3>2. SaysDraining(e, end[l][p], wire[l][a], leaving[p]) = SaysDraining(end[l][a], end[l][p], wire[l][a], leaving[p])
        BY <1>0, <1>9 DEF SaysDraining
      <3> QED
        BY <2>0, <3>1, <3>2 DEF AheadOK
    <2> QED
      BY <1>11, <2>1, <2>2, WayNext
  <1>14. life[a] # 0
    BY <1>0 DEF EndOK
  <1> QED
    BY <1>9, <1>10, <1>12, <1>13, <1>14, MovesKeeps

LEMMA HelloFrame ==
    ASSUME MachineTypes, NEW a \in Node, life[a] # 0
    PROVE  Hello(a) \in Frame /\ Hello(a).type = "hello" /\ Hello(a).life = life[a] /\ Hello(a).draining = (leaving[a] # "no")
  <1>1. life[a] \in Lives
    BY DEF MachineTypes
  <1>2. Hello(a) \in HelloType
    BY <1>1 DEF Hello, HelloType
  <1>3. Hello(a).type = "hello" /\ Hello(a).life = life[a] /\ Hello(a).draining = (leaving[a] # "no")
    BY DEF Hello
  <1> QED
    BY <1>2, <1>3 DEF Frame

LEMMA FirstOf ==
    ASSUME NEW f \in Frame, NEW q \in Seq(Frame)
    PROVE  <<f>> \o q \in Seq(Frame) /\ <<f>> \o q # <<>> /\ Head(<<f>> \o q) = f /\ Tail(<<f>> \o q) = q
  <1>1. <<f>> \o q \in Seq(Frame)
    OBVIOUS
  <1>2. PICK r \in Seq(Frame) : r = <<f>> \o q
    BY <1>1
  <1>3. Len(r) = Len(q) + 1 /\ r[1] = f /\ Len(q) \in Nat /\ \A i \in 1 .. Len(q) : r[i + 1] = q[i]
    BY <1>2
  <1>4. r # <<>> /\ Head(r) = f
    BY <1>3
  <1>8. Tail(r) \in Seq(Frame)
    BY <1>4
  <1>5. PICK t \in Seq(Frame) : t = Tail(r)
    BY <1>8
  <1>6. Len(t) = Len(q) /\ \A i \in 1 .. Len(q) : t[i] = q[i]
    BY <1>3, <1>4, <1>5
  <1>7. t = q
    BY <1>6, SeqEqual
  <1> QED
    BY <1>2, <1>4, <1>5, <1>7

LEMMA SayHelloStep ==
    ASSUME MeshInv, NEW l \in Link, NEW a \in Node, SayHello(l, a)
    PROVE  MeshInv'
  <1>0. LinkTypes /\ MachineTypes /\ LinkOK(l) /\ EndOK(l, a) /\ end[l][a].stage = "opening" /\ end[l][a] \in EndType
    BY DEF MeshInv, MeshTypeOK, LinkTypes, SayHello
  <1>1. Joins(l, a)
    BY <1>0, NoEndHas DEF LinkOK
  <1>2. PICK p \in Node : p = Other(l, a) /\ Ends(l, a, p)
    BY <1>0, <1>1, JoinsEnds
  <1>3. Ends(l, p, a)
    BY <1>2 DEF Ends
  <1>4. /\ TalkOK(end[l][p], end[l][a], wire[l][p], life[a])
        /\ AheadOK(l, end[l][p], end[l][a], wire[l][p], peer[p][a], life[a], seq[a], entries[a], leaving[a])
        /\ wire[l][p] \in Seq(Frame)
    BY <1>3, WayHas
  <1>5. life[a] # 0
    BY <1>0 DEF EndOK
  <1>6. PICK h \in Frame : h = Hello(a) /\ h.type = "hello" /\ h.life = life[a] /\ h.draining = (leaving[a] # "no")
    BY <1>0, <1>5, HelloFrame
  <1>7. <<h>> \o wire[l][p] \in Seq(Frame) /\ <<h>> \o wire[l][p] # <<>> /\ Head(<<h>> \o wire[l][p]) = h /\ Tail(<<h>> \o wire[l][p]) = wire[l][p]
    BY <1>4, FirstOf
  <1>8. PICK w \in Seq(Frame) : w = <<h>> \o wire[l][p] /\ w # <<>> /\ Head(w) = h /\ Tail(w) = wire[l][p]
    BY <1>7
  <1>9. PICK e : e = [end[l][a] EXCEPT !.stage = "greeting"]
    OBVIOUS
  <1>10. e \in EndType /\ e.stage = "greeting" /\ e.subscribed = end[l][a].subscribed
    BY <1>0, <1>9 DEF EndType
  <1>11. Moves(l, a, p, e, p, w)
    <2>1. end' = [end EXCEPT ![l][a] = e]
      BY <1>0, <1>9 DEF SayHello, LinkTypes
    <2>2. wire' = [wire EXCEPT ![l][p] = w]
      BY <1>2, <1>6, <1>8 DEF SayHello
    <2>3. life' = life /\ leaving' = leaving /\ seq' = seq /\ entries' = entries /\ peer' = peer /\ dialed' = dialed
      BY DEF SayHello, processVars, localVars, remoteVars
    <2> QED
      BY <1>0, <1>2, <1>8, <1>10, <2>1, <2>2, <2>3 DEF Moves
  <1>12. a # p /\ end'[l][a] = e /\ end'[l][p] = end[l][p] /\ wire'[l][p] = w /\ wire'[l][a] = wire[l][a] /\ peer' = peer
         /\ life' = life /\ leaving' = leaving /\ seq' = seq /\ entries' = entries
    <2>1. a # p /\ end'[l][a] = e /\ end'[l][p] = end[l][p] /\ wire'[l][p] = w /\ wire'[l][a] = wire[l][a]
      BY <1>11, MovesDoes
    <2>2. peer' = peer /\ life' = life /\ leaving' = leaving /\ seq' = seq /\ entries' = entries
      BY <1>11 DEF Moves
    <2> QED
      BY <2>1, <2>2
  <1>13. WayOK(l, p, a)'
    <2>0. end[l][p].stage \notin {"checking", "up"}
      BY <1>0, <1>4 DEF TalkOK
    <2>1. TalkOK(end[l][p], e, w, life[a])
      BY <1>6, <1>8, <1>10, <2>0 DEF TalkOK
    <2>2. AheadOK(l, end[l][p], e, w, peer[p][a], life[a], seq[a], entries[a], leaving[a])
      <3>1. Ahead(end[l][p], e, w) = Ahead(end[l][p], end[l][a], wire[l][p])
        BY <1>0, <1>8, <1>10, <2>0 DEF Ahead
      <3>2. SaysDraining(end[l][p], e, w, leaving[a]) = SaysDraining(end[l][p], end[l][a], wire[l][p], leaving[a])
        BY <1>0, <1>6, <1>8, <1>10, <2>0 DEF SaysDraining
      <3> QED
        BY <1>4, <1>10, <2>0, <3>1, <3>2 DEF AheadOK
    <2> QED
      BY <1>12, <2>1, <2>2, WayNext
  <1>14. WayOK(l, a, p)'
    <2>0. /\ TalkOK(end[l][a], end[l][p], wire[l][a], life[p])
          /\ AheadOK(l, end[l][a], end[l][p], wire[l][a], peer[a][p], life[p], seq[p], entries[p], leaving[p])
      BY <1>2, WayHas
    <2>1. TalkOK(e, end[l][p], wire[l][a], life[p])
      BY <1>0, <1>10, <2>0 DEF TalkOK
    <2>2. AheadOK(l, e, end[l][p], wire[l][a], peer[a][p], life[p], seq[p], entries[p], leaving[p])
      <3>1. Ahead(e, end[l][p], wire[l][a]) = Ahead(end[l][a], end[l][p], wire[l][a]) /\ Fresh(end[l][a]) /\ e.stage # "up"
        BY <1>0, <1>10 DEF Ahead, Fresh
      <3>2. SaysDraining(e, end[l][p], wire[l][a], leaving[p]) = SaysDraining(end[l][a], end[l][p], wire[l][a], leaving[p])
        BY <1>0, <1>10 DEF SaysDraining
      <3> QED
        BY <2>0, <3>1, <3>2 DEF AheadOK
    <2> QED
      BY <1>12, <2>1, <2>2, WayNext
  <1> QED
    BY <1>5, <1>10, <1>11, <1>13, <1>14, MovesKeeps

LEMMA ReadHelloStep ==
    ASSUME MeshInv, NEW l \in Link, NEW a \in Node, ReadHello(l, a)
    PROVE  MeshInv'
  <1>0. LinkTypes /\ MachineTypes /\ LinkOK(l) /\ EndOK(l, a) /\ end[l][a].stage = "greeting" /\ end[l][a] \in EndType
    BY DEF MeshInv, MeshTypeOK, LinkTypes, ReadHello
  <1>1. Joins(l, a)
    BY <1>0, NoEndHas DEF LinkOK
  <1>2. PICK p \in Node : p = Other(l, a) /\ Ends(l, a, p)
    BY <1>0, <1>1, JoinsEnds
  <1>3. Ends(l, p, a)
    BY <1>2 DEF Ends
  <1>4. /\ TalkOK(end[l][a], end[l][p], wire[l][a], life[p])
        /\ AheadOK(l, end[l][a], end[l][p], wire[l][a], peer[a][p], life[p], seq[p], entries[p], leaving[p])
        /\ wire[l][a] \in Seq(Frame)
    BY <1>2, WayHas
  <1>5. life[a] # 0
    BY <1>0 DEF EndOK
  <1>6. wire[l][a] # <<>> /\ Head(wire[l][a]).type = "hello"
    BY DEF ReadHello
  <1>7. PICK h \in Frame : h = Head(wire[l][a]) /\ h.type = "hello"
    BY <1>4, <1>6
  <1>8. h.life \in Lives /\ h.draining \in BOOLEAN
    BY <1>7, FrameParts DEF HelloType
  <1>16. Tail(wire[l][a]) \in Seq(Frame)
    BY <1>4, <1>6
  <1>9. PICK w \in Seq(Frame) : w = Tail(wire[l][a])
    BY <1>16
  <1>10. PICK e : e = [end[l][a] EXCEPT !.stage = "checking", !.life = h.life, !.draining = h.draining]
    OBVIOUS
  <1>11. e \in EndType /\ e.stage = "checking" /\ e.life = h.life /\ e.draining = h.draining /\ e.subscribed = end[l][a].subscribed
    <2>1. h.life \in Nat
      BY <1>8, MeshAssumption
    <2> QED
      BY <1>0, <1>8, <1>10, <2>1 DEF EndType
  <1>12. Moves(l, a, p, e, a, w)
    <2>1. end' = [end EXCEPT ![l][a] = e]
      BY <1>0, <1>7, <1>10 DEF ReadHello, LinkTypes
    <2>2. wire' = [wire EXCEPT ![l][a] = w]
      BY <1>9 DEF ReadHello
    <2>3. life' = life /\ leaving' = leaving /\ seq' = seq /\ entries' = entries /\ peer' = peer /\ dialed' = dialed
      BY DEF ReadHello, processVars, localVars, remoteVars
    <2> QED
      BY <1>0, <1>2, <1>9, <1>11, <2>1, <2>2, <2>3 DEF Moves
  <1>13. a # p /\ end'[l][a] = e /\ end'[l][p] = end[l][p] /\ wire'[l][a] = w /\ wire'[l][p] = wire[l][p] /\ peer' = peer
         /\ life' = life /\ leaving' = leaving /\ seq' = seq /\ entries' = entries
    <2>1. a # p /\ end'[l][a] = e /\ end'[l][p] = end[l][p] /\ wire'[l][a] = w /\ wire'[l][p] = wire[l][p]
      BY <1>12, MovesDoes
    <2>2. peer' = peer /\ life' = life /\ leaving' = leaving /\ seq' = seq /\ entries' = entries
      BY <1>12 DEF Moves
    <2> QED
      BY <2>1, <2>2
  <1>14. WayOK(l, a, p)'
    <2>0. end[l][p].stage \notin {"waiting", "opening"}
      BY <1>4, <1>6 DEF TalkOK
    <2>1. TalkOK(e, end[l][p], w, life[p])
      BY <1>0, <1>4, <1>7, <1>11, <2>0 DEF TalkOK
    <2>2. AheadOK(l, e, end[l][p], w, peer[a][p], life[p], seq[p], entries[p], leaving[p])
      <3>1. Ahead(e, end[l][p], w) = Ahead(end[l][a], end[l][p], wire[l][a]) /\ Fresh(end[l][a]) /\ e.stage # "up"
        BY <1>0, <1>9, <1>11, <2>0 DEF Ahead, Fresh
      <3>2. SaysDraining(e, end[l][p], w, leaving[p]) = SaysDraining(end[l][a], end[l][p], wire[l][a], leaving[p])
        BY <1>0, <1>7, <1>11, <2>0 DEF SaysDraining
      <3> QED
        BY <1>4, <3>1, <3>2 DEF AheadOK
    <2> QED
      BY <1>13, <2>1, <2>2, WayNext
  <1>15. WayOK(l, p, a)'
    <2>0. /\ TalkOK(end[l][p], end[l][a], wire[l][p], life[a])
          /\ AheadOK(l, end[l][p], end[l][a], wire[l][p], peer[p][a], life[a], seq[a], entries[a], leaving[a])
      BY <1>3, WayHas
    <2>1. TalkOK(end[l][p], e, wire[l][p], life[a])
      BY <1>0, <1>11, <2>0 DEF TalkOK
    <2>2. AheadOK(l, end[l][p], e, wire[l][p], peer[p][a], life[a], seq[a], entries[a], leaving[a])
      <3>1. Ahead(end[l][p], e, wire[l][p]) = Ahead(end[l][p], end[l][a], wire[l][p])
        BY <1>0, <1>11 DEF Ahead
      <3>2. SaysDraining(end[l][p], e, wire[l][p], leaving[a]) = SaysDraining(end[l][p], end[l][a], wire[l][p], leaving[a])
        BY <1>0, <1>11 DEF SaysDraining
      <3> QED
        BY <1>11, <2>0, <3>1, <3>2 DEF AheadOK
    <2> QED
      BY <1>13, <2>1, <2>2, WayNext
  <1> QED
    BY <1>5, <1>8, <1>11, <1>12, <1>14, <1>15, MovesKeeps

\* What RegisterLink makes of the tasks: its own is up, and one on another link may be cancelled.
LEMMA RegisterDoes ==
    ASSUME MeshInv, NEW l \in Link, NEW a \in Node, RegisterLink(l, a)
    PROVE  /\ \A k \in Link : end'[k] \in [Node -> EndType]
           /\ \A m \in Node : m # a => end'[l][m] = end[l][m]
           /\ end'[l][a].stage = "up" /\ end'[l][a].subscribed = end[l][a].subscribed
           /\ \A k \in Link \ {l} : \A m \in Node :
                /\ end'[k][m].stage = end[k][m].stage /\ end'[k][m].life = end[k][m].life /\ end'[k][m].draining = end[k][m].draining
                /\ end'[k][m].subscribed = end[k][m].subscribed
           /\ \A k \in Link \ {l} : \A m \in Node : ~Joins(k, m) => end'[k][m] = end[k][m]
           /\ end' = [k \in Link |-> end'[k]]
  <1>0. LinkTypes /\ LinkOK(l) /\ end[l][a].stage = "checking" /\ PeerTypes
    BY DEF MeshInv, MeshTypeOK, RegisterLink
  <1>1. Joins(l, a)
    BY <1>0, NoEndHas DEF LinkOK
  <1>2. PICK p \in Node : p = Other(l, a) /\ Ends(l, a, p)
    BY <1>0, <1>1, JoinsEnds
  <1>3. PICK known \in PeerType : known = peer[a][p]
    BY <1>0 DEF PeerTypes
  <1>4. known.link # l /\ (known.link \in Link => Joins(known.link, a))
    <2>1. PeerOK(a, p)
      BY DEF MeshInv
    <2>2. known.link # l
      BY <1>0, <1>3, <2>1, NoPeerHas DEF PeerOK
    <2>3. ASSUME known.link \in Link PROVE Joins(known.link, a)
      <3>1. Ends(known.link, a, p)
        BY <1>3, <2>1, <2>3, NoPeerHas DEF PeerOK
      <3> QED
        BY <2>3, <3>1, WayHas
    <2> QED
      BY <2>2, <2>3
  <1>5. end' = [k \in Link |-> CASE k = l -> [end[l] EXCEPT ![a].stage = "up"]
                                 [] k = known.link -> [end[k] EXCEPT ![a].cancelled = TRUE]
                                 [] OTHER -> end[k]]
    BY <1>2, <1>3 DEF RegisterLink
  <1>6. \A k \in Link : end[k] \in [Node -> EndType]
    BY <1>0 DEF LinkTypes
  <1>7. end'[l] = [end[l] EXCEPT ![a].stage = "up"]
    BY <1>4, <1>5
  <1>8. end'[l] \in [Node -> EndType] /\ (\A m \in Node : m # a => end'[l][m] = end[l][m])
        /\ end'[l][a].stage = "up" /\ end'[l][a].subscribed = end[l][a].subscribed
    <2>1. PICK e : e = [end[l][a] EXCEPT !.stage = "up"]
      OBVIOUS
    <2>2. e \in EndType /\ e.stage = "up" /\ e.subscribed = end[l][a].subscribed
      BY <1>6, <2>1 DEF EndType
    <2>3. end'[l] = [end[l] EXCEPT ![a] = e]
      BY <1>6, <1>7, <2>1
    <2> QED
      BY <1>6, <2>2, <2>3
  <1>9. ASSUME NEW k \in Link, k # l
        PROVE  /\ end'[k] \in [Node -> EndType]
               /\ \A m \in Node : /\ end'[k][m].stage = end[k][m].stage /\ end'[k][m].life = end[k][m].life
                                  /\ end'[k][m].draining = end[k][m].draining /\ end'[k][m].subscribed = end[k][m].subscribed
                                  /\ ~Joins(k, m) => end'[k][m] = end[k][m]
    <2>1. CASE k # known.link
      BY <1>5, <1>6, <1>9, <2>1
    <2>2. CASE k = known.link
      <3>1. PICK e : e = [end[k][a] EXCEPT !.cancelled = TRUE]
        OBVIOUS
      <3>2. e \in EndType /\ e.stage = end[k][a].stage /\ e.life = end[k][a].life /\ e.draining = end[k][a].draining
            /\ e.subscribed = end[k][a].subscribed
        <4>1. PICK x \in EndType : x = end[k][a]
          BY <1>6
        <4>2. e = [x EXCEPT !.cancelled = TRUE]
          BY <3>1, <4>1
        <4>3. e \in EndType /\ e.stage = x.stage /\ e.life = x.life /\ e.draining = x.draining /\ e.subscribed = x.subscribed
          BY <4>2 DEF EndType
        <4> QED
          BY <4>1, <4>3
      <3>3. end'[k] = [end[k] EXCEPT ![a].cancelled = TRUE]
        BY <1>5, <1>9, <2>2
      <3>4. end'[k] = [end[k] EXCEPT ![a] = e]
        BY <1>6, <3>1, <3>3
      <3>5. end'[k] \in [Node -> EndType] /\ end'[k][a] = e /\ \A m \in Node : m # a => end'[k][m] = end[k][m]
        BY <1>6, <3>2, <3>4
      <3>6. Joins(k, a)
        BY <1>4, <2>2
      <3> QED
        BY <3>2, <3>5, <3>6
    <2> QED
      BY <2>1, <2>2
  <1>10. end' = [k \in Link |-> end'[k]]
    BY <1>5
  <1> QED
    BY <1>8, <1>9, <1>10

LEMMA RegisterLinkStep ==
    ASSUME MeshInv, NEW l \in Link, NEW a \in Node, RegisterLink(l, a)
    PROVE  MeshInv'
  <1>0. /\ LinkTypes /\ MachineTypes /\ PeerTypes /\ LinkOK(l) /\ EndOK(l, a) /\ end[l][a].stage = "checking" /\ end[l][a] \in EndType
        /\ life' = life /\ leaving' = leaving /\ seq' = seq /\ entries' = entries /\ dialed' = dialed /\ wire' = wire
    BY DEF MeshInv, MeshTypeOK, LinkTypes, RegisterLink, processVars, localVars
  <1>1. Joins(l, a)
    BY <1>0, NoEndHas DEF LinkOK
  <1>2. PICK p \in Node : p = Other(l, a) /\ Ends(l, a, p)
    BY <1>0, <1>1, JoinsEnds
  <1>3. Ends(l, p, a) /\ a # p
    <2>1. Ends(l, p, a)
      BY <1>2 DEF Ends
    <2> QED
      BY <1>2, <2>1, WayHas
  <1>4. PICK r : r = [link |-> l, life |-> end[l][a].life, dialer |-> Dialer(l, a), draining |-> end[l][a].draining, seq |-> 0,
                      entries |-> Kept(l, a, peer[a][p]), open |-> FALSE]
    OBVIOUS
  <1>5. r.link = l /\ r.life = end[l][a].life /\ r.draining = end[l][a].draining /\ r \in PeerType
    <2>1. Dialer(l, a) \in Nat
      <3>1. end[l][a].life \in Lives /\ life[a] \in Lives
        BY <1>0 DEF EndOK, MachineTypes
      <3>2. \A m \in Node : \A n \in Lives : Address[m][n] \in Nat
        BY MeshAssumption
      <3> QED
        BY <1>2, <3>1, <3>2 DEF Dialer
    <2>2. Kept(l, a, peer[a][p]) \in SUBSET Entry
      <3>1. peer[a][p] \in PeerType
        BY <1>0 DEF PeerTypes
      <3> QED
        BY <3>1, PeerHas DEF Kept
    <2>3. end[l][a].life \in Nat /\ end[l][a].draining \in BOOLEAN
      BY <1>0 DEF EndType
    <2> QED
      BY <1>4, <2>1, <2>2, <2>3 DEF PeerType
  <1>6. peer' = [peer EXCEPT ![a][p] = r]
    BY <1>2, <1>4 DEF RegisterLink
  <1>7. PeerTypes' /\ peer'[a][p] = r /\ \A m \in Node : \A c \in Node : m # a \/ c # p => peer'[m][c] = peer[m][c]
    BY <1>0, <1>5, <1>6 DEF PeerTypes
  <1>8. MeshTypeOK'
    <2>1. MachineTypes'
      BY <1>0 DEF MachineTypes
    <2>2. end' \in [Link -> [Node -> EndType]]
      <3>1. end' = [k \in Link |-> end'[k]] /\ \A k \in Link : end'[k] \in [Node -> EndType]
        BY RegisterDoes
      <3> QED
        BY <3>1
    <2>3. LinkTypes'
      BY <1>0, <2>2 DEF LinkTypes
    <2> QED
      BY <1>7, <2>1, <2>3 DEF MeshTypeOK
  <1>9. /\ \A m \in Node : m # a => end'[l][m] = end[l][m]
        /\ end'[l][a].stage = "up" /\ end'[l][a].subscribed = end[l][a].subscribed
        /\ \A k \in Link \ {l} : \A m \in Node :
             /\ end'[k][m].stage = end[k][m].stage /\ end'[k][m].life = end[k][m].life /\ end'[k][m].draining = end[k][m].draining
             /\ end'[k][m].subscribed = end[k][m].subscribed
        /\ \A k \in Link \ {l} : \A m \in Node : ~Joins(k, m) => end'[k][m] = end[k][m]
    BY RegisterDoes
  <1>10. ASSUME NEW k \in Link PROVE LinkOK(k)'
    <2>1. LinkOK(k) /\ \A m \in Node : Joins(k, m)' <=> Joins(k, m)
      BY <1>0 DEF MeshInv, Joins
    <2>2. ASSUME NEW m \in Node
          PROVE  IF Joins(k, m)' THEN end'[k][m].stage # "none" ELSE end'[k][m] = NoEnd /\ wire'[k][m] = <<>>
      <3>1. CASE k = l
        BY <1>0, <1>1, <1>9, <2>1, <3>1 DEF LinkOK
      <3>2. CASE k # l
        BY <1>0, <1>9, <2>1, <3>2 DEF LinkOK
      <3> QED
        BY <3>1, <3>2
    <2> QED
      BY <1>0, <2>1, <2>2 DEF LinkOK
  <1>11. ASSUME NEW k \in Link, NEW m \in Node PROVE EndOK(k, m)'
    <2>1. EndOK(k, m)
      BY DEF MeshInv
    <2>2. CASE k = l /\ m = a
      BY <1>0, <1>9, <2>1, <2>2 DEF EndOK
    <2>3. CASE k = l /\ m # a
      BY <1>0, <1>9, <2>1, <2>3 DEF EndOK
    <2>4. CASE k # l
      BY <1>0, <1>9, <2>1, <2>4 DEF EndOK
    <2> QED
      BY <2>2, <2>3, <2>4
  <1>12. ASSUME NEW m \in Node, NEW c \in Node PROVE PeerOK(m, c)'
    <2>1. CASE m = a /\ c = p
      BY <1>0, <1>2, <1>5, <1>7, <1>9, <2>1, NoPeerHas DEF PeerOK, Ends
    <2>2. CASE m # a \/ c # p
      <3>1. PeerOK(m, c) /\ peer'[m][c] = peer[m][c] /\ peer[m][c].link \in Link \union {NoLink}
        BY <1>7, <2>2 DEF MeshInv, MeshTypeOK, PeerTypes, PeerType
      <3>2. CASE peer[m][c].link = NoLink
        BY <3>1, <3>2 DEF PeerOK
      <3>3. CASE peer[m][c].link # NoLink
        <4>1. PICK k \in Link : k = peer[m][c].link
          BY <3>1, <3>3
        <4>2. Ends(k, m, c) /\ end[k][m].stage = "up"
          BY <3>1, <3>3, <4>1 DEF PeerOK
        <4>3. end'[k][m].stage = "up"
          BY <1>9, <4>2
        <4> QED
          BY <1>0, <3>1, <3>3, <4>1, <4>2, <4>3 DEF PeerOK, Ends
      <3> QED
        BY <3>2, <3>3
    <2> QED
      BY <2>1, <2>2
  <1>13. WayOK(l, a, p)'
    <2>0. /\ TalkOK(end[l][a], end[l][p], wire[l][a], life[p])
          /\ AheadOK(l, end[l][a], end[l][p], wire[l][a], peer[a][p], life[p], seq[p], entries[p], leaving[p])
      BY <1>2, WayHas
    <2>1. TalkOK(end'[l][a], end[l][p], wire[l][a], life[p])
      BY <1>0, <1>9, <2>0 DEF TalkOK
    <2>2. ASSUME end[l][p].subscribed PROVE Follows(r, wire[l][a], life[p], seq[p], entries[p], leaving[p])
      <3>1. Leads(Ahead(end[l][a], end[l][p], wire[l][a]), SaysDraining(end[l][a], end[l][p], wire[l][a], leaving[p]),
                  life[p], seq[p], entries[p], leaving[p])
        BY <1>0, <2>0, <2>2 DEF AheadOK, Fresh
      <3>2. Ahead(end[l][a], end[l][p], wire[l][a]) = wire[l][a] /\ end[l][p].stage # "opening"
        BY <1>0, <2>0 DEF Ahead, TalkOK
      <3>3. SaysDraining(end[l][a], end[l][p], wire[l][a], leaving[p]) = end[l][a].draining
        BY <1>0, <3>2 DEF SaysDraining
      <3>4. r.life = life[p] /\ r.link # NoLink
        BY <1>0, <1>5, <2>0, <2>2, NoPeerHas DEF TalkOK
      <3>5. Leads(wire[l][a], r.draining, life[p], seq[p], entries[p], leaving[p])
        BY <1>5, <3>1, <3>2, <3>3
      <3> QED
        BY <1>5, <3>4, <3>5 DEF Leads, Follows
    <2>3. AheadOK(l, end'[l][a], end[l][p], wire[l][a], r, life[p], seq[p], entries[p], leaving[p])
      BY <1>9, <2>2 DEF AheadOK, Fresh
    <2> QED
      BY <1>0, <1>3, <1>7, <1>9, <2>1, <2>3, WayNext
  <1>14. WayOK(l, p, a)'
    <2>0. /\ TalkOK(end[l][p], end[l][a], wire[l][p], life[a])
          /\ AheadOK(l, end[l][p], end[l][a], wire[l][p], peer[p][a], life[a], seq[a], entries[a], leaving[a])
      BY <1>3, WayHas
    <2>1. PICK e : e = end'[l][a] /\ e.stage = "up" /\ e.subscribed = end[l][a].subscribed
      BY <1>9
    <2>2. TalkOK(end[l][p], e, wire[l][p], life[a])
      BY <1>0, <2>0, <2>1 DEF TalkOK
    <2>3. AheadOK(l, end[l][p], e, wire[l][p], peer[p][a], life[a], seq[a], entries[a], leaving[a])
      <3>1. Ahead(end[l][p], e, wire[l][p]) = Ahead(end[l][p], end[l][a], wire[l][p])
        BY <1>0, <2>1 DEF Ahead
      <3>2. SaysDraining(end[l][p], e, wire[l][p], leaving[a]) = SaysDraining(end[l][p], end[l][a], wire[l][p], leaving[a])
        BY <1>0, <2>1 DEF SaysDraining
      <3> QED
        BY <2>0, <2>1, <3>1, <3>2 DEF AheadOK
    <2> QED
      BY <1>0, <1>3, <1>7, <1>9, <2>1, <2>2, <2>3, WayNext
  <1>15. ASSUME NEW k \in Link, NEW m \in Node, NEW c \in Node, Ends(k, m, c)' PROVE WayOK(k, m, c)'
    <2>0. Ends(k, m, c)
      BY <1>0, <1>15 DEF Ends
    <2>1. CASE k = l
      <3>1. m \in {a, p} /\ c \in {a, p} /\ m # c
        BY <1>0, <1>2, <2>0, <2>1, EndsJoin
      <3> QED
        BY <1>13, <1>14, <2>1, <3>1
    <2>2. CASE k # l
      <3>1. peer'[m][c].link = k => peer'[m][c] = peer[m][c]
        BY <1>5, <1>7, <2>2
      <3> QED
        BY <1>0, <1>9, <2>0, <2>2, <3>1, WaySteady
    <2> QED
      BY <2>1, <2>2
  <1> QED
    BY <1>8, <1>10, <1>11, <1>12, <1>15 DEF MeshInv

-----------------------------------------------------------------------------
(* A frame is read. *)

LEMMA ApplyStep ==
    ASSUME MeshInv, NEW l \in Link, NEW a \in Node, Apply(l, a)
    PROVE  MeshInv'
  <1>0. /\ LinkTypes /\ MachineTypes /\ PeerTypes /\ LinkOK(l) /\ end[l][a].stage = "up" /\ end[l][a] \in EndType /\ wire[l][a] # <<>>
        /\ life' = life /\ leaving' = leaving /\ seq' = seq /\ entries' = entries /\ dialed' = dialed /\ end' = end
    BY DEF MeshInv, MeshTypeOK, LinkTypes, Apply, Readable, processVars, localVars
  <1>1. Joins(l, a)
    BY <1>0, NoEndHas DEF LinkOK
  <1>2. PICK p \in Node : p = Other(l, a) /\ Ends(l, a, p)
    BY <1>0, <1>1, JoinsEnds
  <1>3. a # p /\ wire[l][a] \in Seq(Frame)
    BY <1>2, WayHas
  <1>4. PICK f \in Frame : f = Head(wire[l][a])
    BY <1>0, <1>3
  <1>5. Tail(wire[l][a]) \in Seq(Frame)
    BY <1>0, <1>3
  <1>6. PICK w \in Seq(Frame) : w = Tail(wire[l][a])
    BY <1>5
  <1>7. PICK k \in PeerType : k = peer[a][p]
    BY <1>0 DEF PeerTypes
  <1>8. PICK r : r = Applied(k, f)
    OBVIOUS
  <1>9. k.link = l /\ r # Bailed
    BY <1>2, <1>4, <1>7, <1>8 DEF Apply
  <1>10. r \in PeerType /\ r.link = l
    BY <1>8, <1>9, AppliedType
  <1>11. peer' = [peer EXCEPT ![a][p] = r] /\ wire' = [wire EXCEPT ![l][a] = w]
    BY <1>2, <1>4, <1>6, <1>7, <1>8 DEF Apply
  <1>12. PeerTypes' /\ peer'[a][p] = r /\ \A m \in Node : \A c \in Node : m # a \/ c # p => peer'[m][c] = peer[m][c]
    BY <1>0, <1>10, <1>11 DEF PeerTypes
  <1>13. wire' \in [Link -> [Node -> Seq(Frame)]] /\ wire'[l][a] = w /\ \A i \in Link : \A m \in Node : i # l \/ m # a => wire'[i][m] = wire[i][m]
    BY <1>0, <1>11 DEF LinkTypes
  <1>14. MeshTypeOK'
    BY <1>0, <1>12, <1>13 DEF MeshTypeOK, MachineTypes, LinkTypes
  <1>15. ASSUME NEW i \in Link PROVE LinkOK(i)'
    <2>1. LinkOK(i) /\ \A m \in Node : Joins(i, m)' <=> Joins(i, m)
      BY <1>0 DEF MeshInv, Joins
    <2>2. ASSUME NEW m \in Node
          PROVE  IF Joins(i, m)' THEN end'[i][m].stage # "none" ELSE end'[i][m] = NoEnd /\ wire'[i][m] = <<>>
      BY <1>0, <1>1, <1>13, <2>1 DEF LinkOK
    <2> QED
      BY <1>0, <2>1, <2>2 DEF LinkOK
  <1>16. ASSUME NEW i \in Link, NEW m \in Node PROVE EndOK(i, m)'
    <2>1. EndOK(i, m)
      BY DEF MeshInv
    <2> QED
      BY <1>0, <2>1 DEF EndOK
  <1>17. ASSUME NEW m \in Node, NEW c \in Node PROVE PeerOK(m, c)'
    <2>0. PeerOK(m, c)
      BY DEF MeshInv
    <2>1. CASE m = a /\ c = p
      BY <1>0, <1>2, <1>10, <1>12, <2>1, NoPeerHas DEF PeerOK, Ends
    <2>2. CASE m # a \/ c # p
      <3>1. peer'[m][c] = peer[m][c]
        BY <1>12, <2>2
      <3> QED
        BY <1>0, <2>0, <3>1 DEF PeerOK, Ends
    <2> QED
      BY <2>1, <2>2
  <1>18. WayOK(l, a, p)'
    <2>0. /\ TalkOK(end[l][a], end[l][p], wire[l][a], life[p])
          /\ AheadOK(l, end[l][a], end[l][p], wire[l][a], peer[a][p], life[p], seq[p], entries[p], leaving[p])
      BY <1>2, WayHas
    <2>1. TalkOK(end[l][a], end[l][p], w, life[p])
      BY <1>0, <2>0 DEF TalkOK
    <2>2. Final(k, wire[l][a]) = Final(r, w)
      BY <1>0, <1>3, <1>4, <1>6, <1>8, FinalTail
    <2>3. ASSUME end[l][p].subscribed PROVE Follows(r, w, life[p], seq[p], entries[p], leaving[p])
      <3>1. Follows(k, wire[l][a], life[p], seq[p], entries[p], leaving[p])
        BY <1>0, <1>7, <1>9, <2>0, <2>3 DEF AheadOK
      <3> QED
        BY <2>2, <3>1 DEF Follows
    <2>4. AheadOK(l, end[l][a], end[l][p], w, r, life[p], seq[p], entries[p], leaving[p])
      BY <1>0, <2>3 DEF AheadOK, Fresh
    <2> QED
      BY <1>0, <1>12, <1>13, <2>1, <2>4, WayNext
  <1>19. ASSUME NEW i \in Link, NEW m \in Node, NEW c \in Node, Ends(i, m, c)' PROVE WayOK(i, m, c)'
    <2>0. Ends(i, m, c)
      BY <1>0, <1>19 DEF Ends
    <2>1. CASE i = l /\ m = a
      <3>1. c = p
        BY <1>0, <1>2, <2>0, <2>1, EndsJoin
      <3> QED
        BY <1>18, <2>1, <3>1
    <2>2. CASE i # l \/ m # a
      <3>1. peer'[m][c].link = i => peer'[m][c] = peer[m][c]
        BY <1>10, <1>12, <2>2
      <3>2. wire'[i][m] = wire[i][m]
        BY <1>13, <2>2
      <3> QED
        BY <1>0, <2>0, <3>1, <3>2, WaySteady
    <2> QED
      BY <2>1, <2>2
  <1> QED
    BY <1>14, <1>15, <1>16, <1>17, <1>19 DEF MeshInv

-----------------------------------------------------------------------------
(* Every step keeps the invariant. *)

LEMMA MeshStart == MeshInit => MeshInv
  <1> SUFFICES ASSUME MeshInit PROVE MeshInv
    OBVIOUS
  <1>0. First \subseteq [Node -> Lives] /\ Before \in [Node -> Nat] /\ Lives \subseteq Nat
    BY MeshAssumption
  <1>1. life \in [Node -> Lives]
    BY <1>0 DEF MeshInit
  <1>2. MachineTypes
    <2>1. entries \in [Node -> SUBSET Entry]
      <3>1. ASSUME NEW m \in Node PROVE {<<life[m], n>> : n \in 1 .. Before[m]} \in SUBSET Entry
        BY <1>0, <1>1 DEF Entry
      <3> QED
        BY <3>1 DEF MeshInit
    <2>2. seq \in [Node -> Nat] /\ leaving \in [Node -> {"no", "draining", "told"}]
      BY <1>0 DEF MeshInit
    <2> QED
      BY <1>1, <2>1, <2>2 DEF MachineTypes
  <1>3. PeerTypes /\ \A m \in Node : \A p \in Node : peer[m][p] = NoPeer
    BY NoPeerHas DEF MeshInit, PeerTypes
  <1>4. \A l \in Link : dialed[l] = Unused /\ \A m \in Node : end[l][m] = NoEnd /\ wire[l][m] = <<>>
    BY DEF MeshInit
  <1>5. LinkTypes
    <2>1. <<>> \in Seq(Frame)
      OBVIOUS
    <2>2. dialed \in [Link -> (Node \X Node) \union {Unused}]
      BY DEF MeshInit
    <2>3. end \in [Link -> [Node -> EndType]]
      BY NoEndHas DEF MeshInit
    <2>4. wire \in [Link -> [Node -> Seq(Frame)]]
      BY <2>1 DEF MeshInit
    <2> QED
      BY <2>2, <2>3, <2>4 DEF LinkTypes
  <1>6. \A l \in Link : LinkOK(l)
    BY <1>4 DEF LinkOK, Joins
  <1>7. \A l \in Link : \A m \in Node : EndOK(l, m)
    BY <1>4, NoEndHas DEF EndOK
  <1>8. \A m \in Node : \A p \in Node : PeerOK(m, p)
    BY <1>3, NoPeerHas DEF PeerOK
  <1>9. \A l \in Link : \A m \in Node : \A p \in Node : ~Ends(l, m, p)
    BY <1>4 DEF Ends, Unused
  <1> QED
    BY <1>2, <1>3, <1>5, <1>6, <1>7, <1>8, <1>9 DEF MeshInv, MeshTypeOK

\* A task that ends runs on a link of its machine.
LEMMA RunsJoins ==
    ASSUME MeshInv, NEW l \in Link, NEW a \in Node, end[l][a].stage \in {"checking", "up"} \/ Runs(l, a)
    PROVE  Joins(l, a)
  <1>1. LinkOK(l)
    BY DEF MeshInv
  <1> QED
    BY <1>1, NoEndHas DEF LinkOK, Runs

LEMMA LinkStepKeeps ==
    ASSUME MeshInv, NEW l \in Link, NEW a \in Node, LinkStep(l, a) \/ Cut(l, a)
    PROVE  MeshInv'
  <1>1. CASE Accept(l, a)
    BY <1>1, AcceptStep
  <1>2. CASE SayHello(l, a)
    BY <1>2, SayHelloStep
  <1>3. CASE ReadHello(l, a)
    BY <1>3, ReadHelloStep
  <1>4. CASE RegisterLink(l, a)
    BY <1>4, RegisterLinkStep
  <1>5. CASE Apply(l, a)
    BY <1>5, ApplyStep
  <1>6. CASE RefuseLink(l, a)
    <2>1. Joins(l, a) /\ EndHere(l, a)
      BY <1>6, RunsJoins DEF RefuseLink
    <2> QED
      BY <2>1, EndHereStep
  <1>7. CASE Bail(l, a)
    <2>1. Joins(l, a) /\ EndHere(l, a)
      BY <1>7, RunsJoins DEF Bail, Readable
    <2> QED
      BY <2>1, EndHereStep
  <1>8. CASE Hangup(l, a)
    <2>1. Joins(l, a) /\ EndHere(l, a)
      BY <1>8, RunsJoins DEF Hangup
    <2> QED
      BY <2>1, EndHereStep
  <1>9. CASE Cut(l, a)
    <2>1. Joins(l, a) /\ EndHere(l, a)
      BY <1>9, RunsJoins DEF Cut
    <2> QED
      BY <2>1, EndHereStep
  <1> QED
    BY <1>1, <1>2, <1>3, <1>4, <1>5, <1>6, <1>7, <1>8, <1>9 DEF LinkStep

LEMMA MeshStep == MeshInv /\ [MeshNext]_nodeVars => MeshInv'
  <1> SUFFICES ASSUME MeshInv, [MeshNext]_nodeVars PROVE MeshInv'
    OBVIOUS
  <1>1. CASE UNCHANGED nodeVars
    <2>1. /\ life' = life /\ leaving' = leaving /\ seq' = seq /\ entries' = entries /\ peer' = peer
          /\ dialed' = dialed /\ end' = end /\ wire' = wire
      BY <1>1 DEF nodeVars, processVars, localVars, remoteVars, linkVars
    <2>2. Still
      BY <2>1 DEF Still
    <2>3. MeshTypeOK'
      BY <2>1 DEF MeshInv, MeshTypeOK, MachineTypes, PeerTypes, LinkTypes
    <2>4. ASSUME NEW l \in Link, NEW m \in Node, NEW p \in Node, Ends(l, m, p)' PROVE WayOK(l, m, p)'
      <3>1. Ends(l, m, p)
        BY <2>1, <2>4 DEF Ends
      <3> QED
        BY <2>1, <3>1, WaySteady
    <2> QED
      BY <2>2, <2>3, <2>4, StillKeeps DEF MeshInv
  <1>2. ASSUME NEW m \in Node, TellAttached(m) PROVE MeshInv'
    BY <1>2, TellAttachedStep
  <1>3. ASSUME NEW m \in Node, SetDraining(m) PROVE MeshInv'
    BY <1>3, SetDrainingStep
  <1>4. ASSUME NEW m \in Node, TellLeaving(m) PROVE MeshInv'
    BY <1>4, TellLeavingStep
  <1>5. ASSUME NEW m \in Node, Crashes(m) \/ Halt(m) PROVE MeshInv'
    <2>1. Die(m)
      BY <1>5 DEF Crashes, Halt
    <2> QED
      BY <2>1, DieStep
  <1>6. ASSUME NEW m \in Node, NEW bridge \in entries[m], TellDetached(m, bridge) PROVE MeshInv'
    BY <1>6, TellDetachedStep
  <1>7. ASSUME NEW m \in Node, NEW new \in Lives, Restart(m, new) PROVE MeshInv'
    BY <1>7, RestartStep
  <1>8. ASSUME NEW m \in Node, NEW l \in Link, LinkStep(l, m) \/ Cut(l, m) PROVE MeshInv'
    BY <1>8, LinkStepKeeps
  <1>9. ASSUME NEW m \in Node, NEW l \in Link, NEW p \in Node, Dial(l, m, p) PROVE MeshInv'
    BY <1>9, DialStep
  <1> QED
    BY <1>1, <1>2, <1>3, <1>4, <1>5, <1>6, <1>7, <1>8, <1>9 DEF MeshNext

LEMMA MeshInvCatchesUp == MeshInv => CatchesUp
  <1> SUFFICES ASSUME MeshInv, NEW m \in Node, NEW p \in Node, Carries(m, p)
               PROVE  /\ Final(peer[m][p], wire[peer[m][p].link][m]) # Bailed
                      /\ ~Final(peer[m][p], wire[peer[m][p].link][m]).open
                      /\ Final(peer[m][p], wire[peer[m][p].link][m]).life = life[p]
                      /\ Final(peer[m][p], wire[peer[m][p].link][m]).seq = seq[p]
                      /\ leaving[p] = "told" => Final(peer[m][p], wire[peer[m][p].link][m]).draining
                      /\ Final(peer[m][p], wire[peer[m][p].link][m]).entries =
                           IF Final(peer[m][p], wire[peer[m][p].link][m]).draining THEN {} ELSE entries[p]
    BY DEF CatchesUp
  <1>1. peer[m][p] \in PeerType /\ PeerOK(m, p) /\ peer[m][p] # NoPeer
    BY DEF MeshInv, MeshTypeOK, PeerTypes, Carries
  <1>2. peer[m][p].link # NoLink
    BY <1>1 DEF PeerOK
  <1>3. PICK l \in Link : l = peer[m][p].link
    BY <1>1, <1>2, PeerHas
  <1>4. Ends(l, m, p) /\ end[l][m].stage = "up" /\ end[l][p].subscribed
    BY <1>1, <1>2, <1>3 DEF PeerOK, Carries
  <1>5. AheadOK(l, end[l][m], end[l][p], wire[l][m], peer[m][p], life[p], seq[p], entries[p], leaving[p])
    BY <1>4, WayHas
  <1>6. Follows(peer[m][p], wire[l][m], life[p], seq[p], entries[p], leaving[p])
    BY <1>3, <1>4, <1>5 DEF AheadOK
  <1>7. PICK k : k = Final(peer[m][p], wire[peer[m][p].link][m])
    OBVIOUS
  <1>8. Right(k, life[p], seq[p], entries[p]) /\ (leaving[p] = "told" => k.draining)
    BY <1>3, <1>6, <1>7 DEF Follows
  <1>9. k # Bailed
    BY <1>8, PeerHas DEF Right, Bailed
  <1> QED
    BY <1>7, <1>8, <1>9 DEF Right

\* Whatever is on its way over a link that still carries what a machine announces, applied
\* frame by frame to what the reader knows, gives exactly what that machine has attached now
\* (subscribe, broadcast, register and apply of mesh.rs), however links come up, are replaced
\* and fail, and machines crash, restart and leave: for any machines, links, lives,
\* addresses and length of the queue.
THEOREM TablesCatchUp == MeshSpec => []CatchesUp
  <1>1. MeshInit => MeshInv
    BY MeshStart
  <1>2. MeshInv /\ [MeshNext]_nodeVars => MeshInv'
    BY MeshStep
  <1>3. MeshInv => CatchesUp
    BY MeshInvCatchesUp
  <1> HIDE DEF MeshInit, MeshNext, MeshInv, CatchesUp, nodeVars
  <1> QED
    BY <1>1, <1>2, <1>3, PTL DEF MeshSpec
=============================================================================
