---------------------------- MODULE ClientProofs ----------------------------
(***************************************************************************)
(* Proofs about a user's machine: the processes of the background service  *)
(* (Lifecycle) and the files of a profile (Profile).                       *)
(***************************************************************************)
EXTENDS Lifecycle, Profile, TLAPS

-----------------------------------------------------------------------------
(* Lifecycle. *)

LifecycleTypeOK ==
    /\ at \in [Serving -> {"off", "failed", "starting", "locked", "serving", "closing", "closed", "unlinked"}]
    /\ socket \in Serving \union {Nowhere}

\* The lock file keeps all but one process out, until the one that holds it has ended.
OneHolds == \A p, q \in Serving : Holds(p) /\ Holds(q) => p = q

LifecycleInv == LifecycleTypeOK /\ OneHolds /\ Reached

\* What a process does by itself, or to it.
LEMMA ProcessesReach ==
    ASSUME LifecycleInv, NEW p \in Serving, ProcessSteps(p) \/ Dies(p)
    PROVE  LifecycleInv'
  <1> USE DEF LifecycleInv, LifecycleTypeOK, OneHolds, Reached, Holds, Goes
  <1>1. CASE TryLock(p)
    BY <1>1 DEF TryLock
  <1>2. CASE BindSocket(p)
    BY <1>2 DEF BindSocket
  <1>3. CASE CloseTunnel(p)
    BY <1>3 DEF CloseTunnel
  <1>4. CASE RemoveSocket(p)
    BY <1>4 DEF RemoveSocket
  <1>5. CASE Exit(p)
    BY <1>5 DEF Exit
  <1>6. CASE Dies(p)
    BY <1>6 DEF Dies
  <1> QED
    BY <1>1, <1>2, <1>3, <1>4, <1>5, <1>6 DEF ProcessSteps

\* What the service manager and a shell do to processes.
LEMMA ManagerReaches ==
    ASSUME LifecycleInv, Restarts \/ Reaped \/ ServeByHand \/ Interrupt
    PROVE  LifecycleInv'
  <1> USE DEF LifecycleInv, LifecycleTypeOK, OneHolds, Reached, Holds, Goes, Serving
  <1>1. CASE Restarts
    BY <1>1 DEF Restarts
  <1>2. CASE Reaped
    BY <1>2 DEF Reaped
  <1>3. CASE ServeByHand
    BY <1>3 DEF ServeByHand
  <1>4. CASE Interrupt
    BY <1>4 DEF Interrupt
  <1> QED
    BY <1>1, <1>2, <1>3, <1>4

\* The commands, which see the processes only through the socket.
LEMMA CommandsReach ==
    ASSUME LifecycleInv, UpCommand \/ DownCommand \/ CommandSteps \/ CommandBreaks
    PROVE  LifecycleInv'
  <1> USE DEF LifecycleInv, LifecycleTypeOK, OneHolds, Reached, Holds, Goes
  <1>1. CASE UpCommand \/ StopWaits \/ Uninstall \/ DownReturns \/ CommandBreaks
    BY <1>1 DEF UpCommand, StopWaits, Uninstall, DownReturns, CommandBreaks
  <1>2. CASE DownCommand
    BY <1>2 DEF DownCommand, Serving
  <1>3. CASE StopRequest
    BY <1>3 DEF StopRequest, Answers
  <1>4. CASE Install
    BY <1>4 DEF Install, Serving
  <1>5. CASE Spawn
    BY <1>5 DEF Spawn
  <1> QED
    BY <1>1, <1>2, <1>3, <1>4, <1>5 DEF CommandSteps

\* For any number of commands, crashes and services started by hand: the socket file is that of the one
\* process that serves (serve of daemon.rs: the lock is held until the file is removed).
THEOREM ServiceIsReached == LifecycleSpec => []Reached
  <1>1. LifecycleInit => LifecycleInv
    BY DEF LifecycleInit, LifecycleInv, LifecycleTypeOK, OneHolds, Reached, Holds
  <1>2. LifecycleInv /\ [LifecycleNext]_lifecycleVars => LifecycleInv'
    <2>1. ASSUME LifecycleInv, UNCHANGED lifecycleVars PROVE LifecycleInv'
      BY <2>1 DEF lifecycleVars, LifecycleInv, LifecycleTypeOK, OneHolds, Reached, Holds
    <2> QED
      BY <2>1, ProcessesReach, ManagerReaches, CommandsReach DEF LifecycleNext
  <1>3. LifecycleInv => Reached
    BY DEF LifecycleInv
  <1> QED
    BY <1>1, <1>2, <1>3, PTL DEF LifecycleSpec

-----------------------------------------------------------------------------
(* Profile. *)

Key == 0..MaxKeys
Certificate == Nat \ {0}
Works == {"bind", "poll", "done"}

Bindings == [1..MaxTunnels -> [state : {"none", "issuing", "ready", "failed"}, csr : Key, certificate : Nat]]

ProfileTypeOK ==
    /\ made \in 0..MaxTunnels /\ keys \in Key /\ live \subseteq 1..made
    /\ signed \in Seq(Key)
    /\ bound \in Bindings
    /\ DOMAIN disk = File
    /\ disk["token"] \in Nat \union {Missing} /\ disk["key"] \in Key \union {Missing}
    /\ disk["certificate"] \in Certificate \union {Missing} /\ disk["chain"] \in Certificate \union {Missing}
    /\ disk["tunnel"] \in [id : 1..MaxTunnels, expiry : Certificate] \union {Missing}
    /\ disk["pending"] \in [id : 1..MaxTunnels, csr : Key] \union {Missing}
    /\ tunnel \in [id : 1..MaxTunnels, token : Nat, key : Key, certificate : Certificate] \union {Missing}
    /\ DOMAIN doing = Process
    /\ \A p \in Process :
         /\ DOMAIN doing[p] = {"at", "id", "key", "writes"} /\ doing[p].key \in Key
         /\ doing[p].at \in {"idle", "create", "bind", "poll", "done", "check", "delete", "wipe"}
         /\ doing[p].at = "idle" => doing[p] = Idle
         /\ doing[p].at \notin {"bind", "done"} => doing[p].writes = <<>>

\* A certificate the API has is for the request it has; tunnels to come have neither.
ServerKeeps ==
    \A t \in 1..MaxTunnels :
        /\ bound[t].state = "ready" =>
             bound[t].certificate \in 1..Len(signed) /\ signed[bound[t].certificate] = bound[t].csr
        /\ bound[t].state # "ready" => bound[t].certificate = 0
        /\ t > made => bound[t].state = "none"

\* What SavePending and Save have left to write.
PendingLeft2(id, key) == << <<"key", key>>, <<"pending", [id |-> id, csr |-> key]>> >>
PendingLeft1(id, key) == << <<"pending", [id |-> id, csr |-> key]>> >>
SaveLeft5(id, key, c) ==
    << <<"key", key>>, <<"certificate", c>>, <<"chain", c>>, <<"tunnel", [id |-> id, expiry |-> c]>>,
       <<"pending", Missing>> >>
SaveLeft4(id, c) ==
    << <<"certificate", c>>, <<"chain", c>>, <<"tunnel", [id |-> id, expiry |-> c]>>, <<"pending", Missing>> >>
SaveLeft3(id, c) == << <<"chain", c>>, <<"tunnel", [id |-> id, expiry |-> c]>>, <<"pending", Missing>> >>
SaveLeft2(id, c) == << <<"tunnel", [id |-> id, expiry |-> c]>>, <<"pending", Missing>> >>
SaveLeft1 == << <<"pending", Missing>> >>

Has(f) == disk[f] # Missing

\* How far a process has got with SavePending: what it wrote is on disk, and nobody else writes before
\* there is a tunnel or a pending one.
Provisioning(p, t) ==
    \/ doing[p].writes = SavePending(t, doing[p].key)
    \/ doing[p].writes = PendingLeft2(t, doing[p].key) /\ disk["token"] = t
    \/ /\ doing[p].writes = PendingLeft1(t, doing[p].key) /\ disk["token"] = t
       /\ ~Saved => disk["key"] = doing[p].key
    \/ doing[p].writes = <<>> /\ (Saved \/ Pending)

\* ... and with Save.
Saving(p, t) ==
    /\ Saved \/ Pending
    /\ \E c \in Certificate :
        \/ doing[p].writes = Save(t, t, doing[p].key, c)
        \/ doing[p].writes = SaveLeft5(t, doing[p].key, c)
        \/ doing[p].writes = SaveLeft4(t, c) /\ Has("key")
        \/ doing[p].writes = SaveLeft3(t, c) /\ Has("key") /\ Has("certificate")
        \/ doing[p].writes = SaveLeft2(t, c) /\ Has("key") /\ Has("certificate") /\ Has("chain")
        \/ doing[p].writes = SaveLeft1 /\ Saved
        \/ doing[p].writes = <<>> /\ Saved

\* What a process works on is the tunnel of the profile, and until that is saved the pending identity.
WorksOn(p, t) ==
    /\ doing[p].at \in Works \union {"check", "delete"} => doing[p].id = t /\ t \in 1..MaxTunnels
    /\ doing[p].at = "bind" => Provisioning(p, t)
    /\ doing[p].at = "done" => Saving(p, t)
    /\ doing[p].at = "poll" => Saved \/ Pending
    /\ doing[p].at \in {"check", "delete"} => Saved
    /\ doing[p].at \in Works /\ ~Saved /\ Pending => doing[p].key = disk["pending"].csr
    /\ doing[p].at = "bind" /\ ~Saved /\ Pending => doing[p].writes = <<>>

\* The files can be read, and they and the tunnel that runs are of one tunnel.
OfTunnel(t) ==
    /\ Saved => /\ disk["tunnel"].id = t /\ disk["token"] = t
                /\ Has("key") /\ Has("certificate") /\ Has("chain")
    /\ Pending => disk["pending"].id = t
    /\ Pending /\ ~Saved => disk["token"] = t /\ disk["key"] = disk["pending"].csr
    /\ tunnel # Missing => tunnel.id = t /\ tunnel.token = t /\ Saved

\* The API has no other tunnel of the profile, and that one only while somebody knows of it.
NoOther(t) ==
    /\ live \ left \subseteq {t}
    /\ ~Saved /\ ~Pending /\ (\A p \in Process : doing[p].at # "bind") => live \subseteq left

\* The service neither creates nor removes, and does nothing while a tunnel is created or removed.
ServiceWaits ==
    /\ doing["service"].at \in Works \union {"idle"}
    /\ doing["service"].at = "bind" => doing["service"].writes = <<>>
    /\ doing["user"].at \in {"create", "delete", "wipe"} => doing["service"].at = "idle" /\ tunnel = Missing
    /\ doing["user"].at = "create" => ~Saved /\ ~Pending
    /\ doing["user"].at = "wipe" => live \subseteq left

\* One key is in use: of the request in progress, in both processes, and on disk once it is written there.
\* A new one is only made when the request failed and the service is idle.
OneKey(t, k) ==
    /\ t \in 1..MaxTunnels /\ bound[t].state \in {"issuing", "ready"} => bound[t].csr = k
    /\ \A p \in Process : doing[p].at \in Works \union {"check"} => doing[p].key = k
    /\ doing["user"].at = "bind" /\ doing["user"].writes # <<>> =>
         bound[t].state \in {"none", "failed"} /\ doing["service"].at = "idle"
    /\ doing["user"].at # "wipe" /\ (Saved \/ Pending) =>
         \/ disk["key"] = k
         \/ doing["user"].at = "bind" /\ doing["user"].writes \in {SavePending(t, k), PendingLeft2(t, k)}

ProfileBody(t, k) ==
    /\ ProfileTypeOK /\ ServerKeeps /\ ServiceWaits
    /\ doing["user"].at # "wipe" => OfTunnel(t) /\ NoOther(t) /\ \A p \in Process : WorksOn(p, t)
    /\ ~crossed => OneKey(t, k)

ProfileInv ==
    /\ torn \in BOOLEAN /\ crossed \in BOOLEAN
    /\ ~torn => \E t \in 0..MaxTunnels, k \in Key : ProfileBody(t, k)

\* A value that is written is not the mark of a missing file.
LEMMA NotMissing ==
    /\ \A n \in Nat : n # Missing
    /\ \A x \in Key : x # Missing
    /\ \A c \in Certificate : c # Missing /\ c \in Nat
    /\ \A i \in 1..MaxTunnels, x \in Key :
         /\ [id |-> i, csr |-> x] # Missing
         /\ [id |-> i, csr |-> x] \in [id : 1..MaxTunnels, csr : Key]
    /\ \A i \in 1..MaxTunnels, c \in Certificate :
         /\ [id |-> i, expiry |-> c] # Missing
         /\ [id |-> i, expiry |-> c] \in [id : 1..MaxTunnels, expiry : Certificate]
  BY ProfileAssumption DEF Key, Certificate

\* The bounds are numbers.
LEMMA Numbers == MaxTunnels \in Nat /\ MaxKeys \in Nat /\ 0 \in Key
  BY ProfileAssumption DEF Key

\* Something is left to write.
LEMMA PendingIsLeft ==
    ASSUME NEW id, NEW key
    PROVE  /\ SavePending(id, key) # <<>> /\ PendingLeft2(id, key) # <<>> /\ PendingLeft1(id, key) # <<>>
           /\ Len(SavePending(id, key)) > 0 /\ Len(PendingLeft2(id, key)) > 0 /\ Len(PendingLeft1(id, key)) > 0
           /\ PendingLeft1(id, key) \notin {SavePending(id, key), PendingLeft2(id, key)}
  <1>1. Len(SavePending(id, key)) = 3 /\ Len(PendingLeft2(id, key)) = 2 /\ Len(PendingLeft1(id, key)) = 1
    BY DEF SavePending, PendingLeft2, PendingLeft1
  <1> QED
    BY <1>1 DEF SavePending, PendingLeft2, PendingLeft1

\* The fields of what an idle process, and one that begins, does.
LEMMA IdleIs ==
    /\ Idle.at = "idle" /\ Idle.key = 0 /\ Idle.writes = <<>> /\ 0 \in Key
    /\ DOMAIN Idle = {"at", "id", "key", "writes"}
  BY ProfileAssumption DEF Idle, Key

\* One process goes on; the other one does not.
LEMMA DoingIs ==
    ASSUME DOMAIN doing = Process, NEW p \in Process, NEW work, Doing(p, work)
    PROVE  /\ DOMAIN doing' = Process /\ doing'[p] = work
           /\ \A q \in Process \ {p} : doing'[q] = doing[q]
  BY DEF Doing

\* bind_certificate with a process's key keeps the API's record in order, and on the one key.
LEMMA BoundKeeps ==
    ASSUME NEW t \in 0..MaxTunnels, NEW k \in Key, ProfileBody(t, k), NEW p \in Process,
           Ready(p, "bind"), doing["user"].at # "wipe",
           bound' = Bound(doing[p].id, doing[p].key), UNCHANGED <<made, signed, crossed>>, doing[p].id \in live
    PROVE  /\ bound' \in Bindings
           /\ ServerKeeps'
           /\ ~crossed => /\ t \in 1..MaxTunnels /\ bound'[t].state \in {"issuing", "ready"} => bound'[t].csr = k
                          /\ ~(doing["user"].at = "bind" /\ doing["user"].writes # <<>>)
  <1> USE DEF ProfileBody
  <1>1. doing[p].id = t /\ t \in 1..MaxTunnels /\ t <= made /\ doing[p].key \in Key
    BY DEF Ready, WorksOn, Works, ProfileTypeOK
  <1>2. \/ bound' = bound
        \/ bound' = [bound EXCEPT ![t] = [state |-> "issuing", csr |-> doing[p].key, certificate |-> 0]]
    BY <1>1 DEF Bound
  <1>3. bound \in Bindings /\ made \in 0..MaxTunnels
    BY DEF ProfileTypeOK
  <1>4. CASE bound' = bound
    <2>1. ServerKeeps'
      BY <1>4 DEF ServerKeeps
    <2>2. ASSUME ~crossed
          PROVE  /\ bound'[t].state \in {"issuing", "ready"} => bound'[t].csr = k
                 /\ ~(doing["user"].at = "bind" /\ doing["user"].writes # <<>>)
      BY <1>1, <1>4, <2>2 DEF OneKey, Ready, Process
    <2> QED
      BY <1>3, <1>4, <2>1, <2>2
  <1>5. CASE bound' = [bound EXCEPT ![t] = [state |-> "issuing", csr |-> doing[p].key, certificate |-> 0]]
    <2>1. /\ bound' \in Bindings /\ bound'[t].state = "issuing" /\ bound'[t].csr = doing[p].key
          /\ bound'[t].certificate = 0 /\ \A i \in 1..MaxTunnels \ {t} : bound'[i] = bound[i]
      <3>1. [state |-> "issuing", csr |-> doing[p].key, certificate |-> 0]
              \in [state : {"none", "issuing", "ready", "failed"}, csr : Key, certificate : Nat]
        BY <1>1
      <3>2. bound' \in Bindings
        BY <1>1, <1>3, <1>5, <3>1 DEF Bindings
      <3>3. bound'[t] = [state |-> "issuing", csr |-> doing[p].key, certificate |-> 0]
        BY <1>1, <1>3, <1>5 DEF Bindings
      <3>4. \A i \in 1..MaxTunnels \ {t} : bound'[i] = bound[i]
        BY <1>1, <1>3, <1>5 DEF Bindings
      <3> QED
        BY <3>2, <3>3, <3>4
    <2>2. ServerKeeps'
      BY <1>1, <1>3, <2>1, Numbers DEF ServerKeeps
    <2>3. ASSUME ~crossed
          PROVE  /\ doing[p].key = k
                 /\ ~(doing["user"].at = "bind" /\ doing["user"].writes # <<>>)
      BY <2>3 DEF OneKey, Works, Ready, Process
    <2> QED
      BY <2>1, <2>2, <2>3
  <1> QED
    BY <1>2, <1>4, <1>5

\* An operation ends, done or failed, whatever became of it at the API.
LEMMA BecomesIdle ==
    ASSUME NEW t \in 0..MaxTunnels, NEW k \in Key, ProfileBody(t, k), NEW p \in Process,
           doing["user"].at # "wipe", Doing(p, Idle), UNCHANGED <<disk, keys, signed, crossed>>,
           ~crossed => ~(p = "user" /\ doing["user"].at = "bind" /\ doing["user"].writes # <<>>),
           tunnel' \in {tunnel, Missing}, made' \in 0..MaxTunnels, live' \subseteq 1..made',
           bound' \in Bindings,
           ServerKeeps', NoOther(t)',
           ~crossed => /\ t \in 1..MaxTunnels /\ bound'[t].state \in {"issuing", "ready"} => bound'[t].csr = k
                       /\ bound' = bound \/ ~(doing["user"].at = "bind" /\ doing["user"].writes # <<>>)
    PROVE  ProfileBody(t, k)'
  <1> USE DEF ProfileBody
  <1>1. /\ DOMAIN doing' = Process /\ doing'[p] = Idle /\ \A q \in Process \ {p} : doing'[q] = doing[q]
    BY DoingIs DEF ProfileTypeOK
  <1>2. ProfileTypeOK'
    BY <1>1, IdleIs DEF ProfileTypeOK
  <1>3. doing'["user"].at # "wipe"
    BY <1>1, IdleIs DEF Process
  <1>4. ServiceWaits'
    BY <1>1, <1>3, IdleIs DEF ServiceWaits, Works, Saved, Pending, Process
  <1>5. OfTunnel(t)'
    BY DEF OfTunnel, Saved, Pending, Has
  <1>6. ASSUME NEW q \in Process PROVE WorksOn(q, t)'
    BY <1>1, IdleIs DEF WorksOn, Works, Provisioning, Saving, Saved, Pending, Has
  <1>7. ASSUME ~crossed PROVE OneKey(t, k)'
    <2>1. OneKey(t, k)
      BY <1>7
    <2>2. \A q \in Process : doing'[q].at \in Works \union {"check"} => doing'[q].key = k
      BY <1>1, <2>1, IdleIs DEF OneKey, Works
    <2>3. doing'["user"].at = "bind" => p = "service" /\ doing'["user"] = doing["user"]
      BY <1>1, IdleIs DEF Process
    <2>4. doing'["user"].at = "bind" /\ doing'["user"].writes # <<>> =>
             bound'[t].state \in {"none", "failed"} /\ doing'["service"].at = "idle"
      BY <1>1, <1>7, <2>1, <2>3, IdleIs DEF OneKey
    <2>5. (Saved \/ Pending)' =>
             \/ disk'["key"] = k
             \/ doing'["user"].at = "bind" /\ doing'["user"].writes \in {SavePending(t, k), PendingLeft2(t, k)}
      <3>1. CASE p = "service"
        BY <1>1, <2>1, <3>1 DEF OneKey, Saved, Pending, Process
      <3>2. CASE p = "user"
        BY <1>7, <2>1, <3>2, PendingIsLeft DEF OneKey, Saved, Pending
      <3> QED
        BY <3>1, <3>2 DEF Process
    <2> QED
      BY <1>7, <2>2, <2>4, <2>5 DEF OneKey
  <1> QED
    BY <1>2, <1>4, <1>5, <1>6, <1>7

\* The number of the next tunnel, and the set of the tunnels with it.
LEMMA NextNumber ==
    ASSUME NEW m \in Nat, m < MaxTunnels, NEW n, n = m + 1, NEW S, S \subseteq 1..m, NEW T, T = S \union {n}
    PROVE  n \in 0..MaxTunnels /\ T \subseteq 1..n /\ m < n
  BY Numbers

\* The operations' last steps, and answers that are lost.
LEMMA EndsKeep ==
    ASSUME NEW t \in 0..MaxTunnels, NEW k \in Key, ProfileBody(t, k), NEW p \in Process,
           Done(p) \/ Unheard(p) \/ CreateUnheard(p)
    PROVE  ProfileBody(t, k)'
  <1> USE DEF ProfileBody
  <1>1. CASE Done(p)
    <2>1. doing["user"].at # "wipe"
      BY <1>1 DEF Done, Ready, ServiceWaits, Process
    <2>2. Saved \/ Pending
      BY <1>1, <2>1 DEF Done, Ready, WorksOn, Saving
    <2>3. NoOther(t)'
      BY <1>1, <2>1, <2>2 DEF Done, NoOther, Saved, Pending, server, notes
    <2>4. ServerKeeps'
      BY <1>1 DEF Done, ServerKeeps, server
    <2> QED
      BY <1>1, <2>1, <2>3, <2>4, BecomesIdle DEF Done, Ready, ProfileTypeOK, OneKey, server, notes
  <1>2. CASE CreateUnheard(p)
    <2>1. p = "user" /\ doing["user"].at = "create"
      BY <1>2 DEF CreateUnheard, Ready, ServiceWaits, Works, Process
    <2>2. NoOther(t)'
      BY <1>2, <2>1, IdleIs, DoingIs DEF CreateUnheard, NoOther, Saved, Pending, ServiceWaits, Process, ProfileTypeOK
    <2>3. made' \in 0..MaxTunnels /\ live' \subseteq 1..made' /\ made < made'
      <3>1. made \in Nat /\ made' = made + 1 /\ made < MaxTunnels
        BY <1>2, Numbers DEF CreateUnheard, ProfileTypeOK
      <3>2. live \subseteq 1..made /\ live' = live \union {made'}
        BY <1>2 DEF CreateUnheard, ProfileTypeOK
      <3>3. made' = made + 1 /\ live' = live \union {made'} =>
              made' \in 0..MaxTunnels /\ live' \subseteq 1..made' /\ made < made'
        BY ONLY <3>1, <3>2, NextNumber
      <3> QED
        BY <3>1, <3>2, <3>3
    <2>4. ServerKeeps'
      BY <1>2, <2>3 DEF CreateUnheard, ServerKeeps, ProfileTypeOK
    <2> QED
      BY <1>2, <2>1, <2>2, <2>3, <2>4, BecomesIdle DEF CreateUnheard, ProfileTypeOK, OneKey
  <1>3. CASE Unheard(p)
    <2>1. doing["user"].at # "wipe"
      BY <1>3 DEF Unheard, ServiceWaits, Process
    <2>2. /\ doing[p].at = "bind" => Saved \/ Pending
          /\ doing[p].writes = <<>> /\ live' \subseteq live /\ UNCHANGED <<disk, left>>
      <3>1. doing[p].writes = <<>> /\ live' \subseteq live /\ UNCHANGED <<disk, left>>
        BY <1>3 DEF Unheard, Fault
      <3>2. doing[p].at = "bind" => Saved \/ Pending
        BY <2>1, <3>1, PendingIsLeft DEF WorksOn, Provisioning
      <3> QED
        BY <3>1, <3>2
    <2>3. NoOther(t)'
      BY <1>3, <2>1, <2>2, IdleIs, DoingIs DEF Unheard, NoOther, Saved, Pending, Process, ProfileTypeOK
    <2>4. live' \subseteq 1..made' /\ made' \in 0..MaxTunnels
      BY <1>3, <2>2 DEF Unheard, ProfileTypeOK
    <2>5. CASE UNCHANGED bound
      <3>1. ServerKeeps'
        BY <1>3, <2>5 DEF Unheard, ServerKeeps
      <3>2. bound' \in Bindings /\ UNCHANGED <<disk, keys, signed, crossed, tunnel>> /\ Doing(p, Idle)
        BY <1>3, <2>5 DEF Unheard, Fault, ProfileTypeOK
      <3>3. ~crossed => (t \in 1..MaxTunnels /\ bound'[t].state \in {"issuing", "ready"} => bound'[t].csr = k)
        BY <2>5 DEF OneKey
      <3> QED
        BY <1>3, <2>1, <2>2, <2>3, <2>4, <2>5, <3>1, <3>2, <3>3, BecomesIdle
    <2>6. CASE Ready(p, "bind") /\ doing[p].id \in live /\ bound' = Bound(doing[p].id, doing[p].key)
      BY <1>3, <2>1, <2>2, <2>3, <2>4, <2>6, BoundKeeps, BecomesIdle DEF Unheard, Fault
    <2> QED
      BY <1>3, <2>5, <2>6 DEF Unheard, Ready
  <1> QED
    BY <1>1, <1>2, <1>3

\* A process dies; what it had not written is not missed, as nobody was told of it.
LEMMA CrashKeeps ==
    ASSUME NEW t \in 0..MaxTunnels, NEW k \in Key, ProfileBody(t, k), NEW p \in Process,
           Crash(p), ~torn', torn \in BOOLEAN
    PROVE  \E x \in Key : ProfileBody(t, x)'
  <1> USE DEF ProfileBody
  <1>1. doing["user"].at # "wipe"
    <2>1. doing[p] # Idle /\ doing[p].at # "wipe"
      BY DEF Crash
    <2> QED
      BY <2>1 DEF ServiceWaits, ProfileTypeOK, Process
  <1>2. UNCHANGED <<disk, keys, made, signed, live, bound, crossed>> /\ Doing(p, Idle) /\ tunnel' \in {tunnel, Missing}
    BY DEF Crash, server
  <1>3. left \subseteq left'
    BY DEF Crash
  <1>4. NoOther(t)'
    <2>1. live' \ left' \subseteq {t}
      BY <1>1, <1>2, <1>3 DEF NoOther
    <2>2. ASSUME ~Saved, ~Pending, \A q \in Process : doing'[q].at # "bind"
          PROVE  live \subseteq left'
      <3>1. CASE doing[p].at = "bind"
        <4>1. p = "user" /\ doing[p].id = t /\ Len(doing[p].writes) > 0
          <5>1. WorksOn(p, t) /\ Provisioning(p, t) /\ doing[p].id = t
            BY <1>1, <3>1 DEF WorksOn, Works
          <5>2. Len(doing[p].writes) > 0 /\ doing[p].writes # <<>>
            BY <2>2, <5>1, PendingIsLeft DEF Provisioning
          <5> QED
            BY <3>1, <5>1, <5>2 DEF ServiceWaits, Process
        <4>2. t \in left'
          BY <2>2, <3>1, <4>1 DEF Crash
        <4> QED
          BY <1>1, <1>3, <4>2 DEF NoOther
      <3>2. CASE doing[p].at # "bind"
        BY <1>1, <1>2, <1>3, <2>2, <3>2, DoingIs DEF NoOther, ProfileTypeOK
      <3> QED
        BY <3>1, <3>2
    <2> QED
      BY <1>2, <2>1, <2>2 DEF NoOther, Saved, Pending
  <1>5. ServerKeeps'
    BY <1>2 DEF ServerKeeps
  <1>6. CASE crossed \/ ~(p = "user" /\ doing["user"].at = "bind" /\ doing["user"].writes # <<>>)
    <2>1. ProfileBody(t, k)'
      BY <1>1, <1>2, <1>4, <1>5, <1>6, BecomesIdle DEF ProfileTypeOK, OneKey
    <2> QED
      BY <2>1
  <1>7. CASE ~crossed /\ p = "user" /\ doing["user"].at = "bind" /\ doing["user"].writes # <<>>
    <2>1. PICK x \in Key : Saved \/ Pending => disk["key"] = x
      BY <1>1, NotMissing DEF OfTunnel, Saved, Pending, Has, ProfileTypeOK
    <2>2. /\ DOMAIN doing' = Process /\ doing'["user"] = Idle /\ doing'["service"] = doing["service"]
          /\ doing["service"].at = "idle"
      BY <1>2, <1>7, DoingIs DEF ProfileTypeOK, Process, OneKey
    <2>3. ProfileTypeOK'
      BY <1>2, <2>2, IdleIs DEF ProfileTypeOK, Process
    <2>4. ServiceWaits'
      BY <1>2, <2>2, IdleIs DEF ServiceWaits, Works
    <2>5. OfTunnel(t)'
      BY <1>1, <1>2 DEF OfTunnel, Saved, Pending, Has
    <2>6. ASSUME NEW q \in Process PROVE WorksOn(q, t)'
      BY <2>2, IdleIs DEF WorksOn, Works, Process
    <2>7. (Saved \/ Pending)' => disk'["key"] = x
      BY <1>2, <2>1 DEF Saved, Pending
    <2>8. OneKey(t, x)'
      <3>1. bound'[t].state \in {"none", "failed"}
        BY <1>2, <1>7 DEF OneKey
      <3>2. \A q \in Process : doing'[q].at = "idle"
        BY <2>2, IdleIs DEF Process
      <3> QED
        BY <2>7, <3>1, <3>2 DEF OneKey, Works, Process
    <2>9. ProfileBody(t, x)'
      BY <1>4, <1>5, <2>3, <2>4, <2>5, <2>6, <2>8
    <2> QED
      BY <2>1, <2>9
  <1> QED
    BY <1>6, <1>7

\* A tunnel the API has was made.
LEMMA LiveIs ==
    ASSUME ProfileTypeOK, NEW i \in live
    PROVE  i \in 1..MaxTunnels /\ i <= made /\ made \in Nat
  BY Numbers DEF ProfileTypeOK

\* Only the API's record changes, to one that is in order: a request in progress or fulfilled stays the same.
LEMMA RecordKeeps ==
    ASSUME NEW t \in 0..MaxTunnels, NEW k \in Key, ProfileBody(t, k), NEW i \in live,
           UNCHANGED <<disk, keys, made, live, doing, tunnel, left>>,
           ~crossed' => ~crossed /\ (bound'[i].state = "failed" \/ bound[i].state \in {"issuing", "ready"}),
           bound' \in Bindings, signed' \in Seq(Key), ServerKeeps',
           \A j \in 1..MaxTunnels \ {i} : bound'[j] = bound[j],
           bound'[i].csr = bound[i].csr
    PROVE  ProfileBody(t, k)'
  <1> USE DEF ProfileBody
  <1>1. ProfileTypeOK'
    BY DEF ProfileTypeOK
  <1>2. ServiceWaits'
    BY DEF ServiceWaits, Saved, Pending
  <1>3. doing["user"].at # "wipe" => OfTunnel(t)' /\ NoOther(t)'
    BY DEF OfTunnel, NoOther, Saved, Pending, Has
  <1>4. ASSUME doing["user"].at # "wipe", NEW p \in Process PROVE WorksOn(p, t)'
    BY <1>4 DEF WorksOn, Provisioning, Saving, Saved, Pending, Has
  <1>5. ASSUME ~crossed' PROVE OneKey(t, k)'
    <2>1. OneKey(t, k) /\ (bound'[i].state = "failed" \/ bound[i].state \in {"issuing", "ready"})
      BY <1>5
    <2>2. t \in 1..MaxTunnels /\ bound'[t].state \in {"issuing", "ready"} => bound'[t].csr = k
      BY <2>1 DEF OneKey
    <2>3. doing["user"].at = "bind" /\ doing["user"].writes # <<>> => t \in 1..MaxTunnels
      BY DEF WorksOn, Works, Process
    <2>4. doing["user"].at = "bind" /\ doing["user"].writes # <<>> => bound'[t].state \in {"none", "failed"}
      BY <2>1, <2>3 DEF OneKey
    <2> QED
      BY <2>1, <2>2, <2>4 DEF OneKey, Saved, Pending
  <1> QED
    BY <1>1, <1>2, <1>3, <1>4, <1>5

\* A certificate is issued, first, again or after all.
LEMMA CertificateKeeps ==
    ASSUME NEW t \in 0..MaxTunnels, NEW k \in Key, ProfileBody(t, k), NEW i \in live,
           Issue(i) \/ IssueLate(i) \/ RenewedAt(i)
    PROVE  ProfileBody(t, k)'
  <1> USE DEF ProfileBody
  <1>1. bound \in Bindings /\ i \in 1..MaxTunnels /\ i <= made /\ signed \in Seq(Key) /\ bound[i].csr \in Key
    <2>1. bound \in Bindings /\ signed \in Seq(Key) /\ made \in 0..MaxTunnels /\ i \in 1..made
      BY DEF ProfileTypeOK
    <2>2. i \in 1..MaxTunnels /\ i <= made
      BY ONLY <2>1, Numbers
    <2> QED
      BY <2>1, <2>2 DEF Bindings
  <1>2. /\ signed' = Append(signed, bound[i].csr)
        /\ ~crossed' => ~crossed /\ bound[i].state \in {"issuing", "ready"}
    BY DEF Issue, IssueLate, RenewedAt, notes
  <1>3. /\ signed' \in Seq(Key) /\ Len(signed') = Len(signed) + 1 /\ Len(signed) \in Nat
        /\ signed'[Len(signed) + 1] = bound[i].csr /\ \A c \in 1..Len(signed) : signed'[c] = signed[c]
    BY <1>1, <1>2
  <1>4. /\ bound'[i].state = "ready" /\ bound'[i].csr = bound[i].csr /\ bound'[i].certificate = Len(signed')
        /\ \A j \in 1..MaxTunnels \ {i} : bound'[j] = bound[j]
    BY <1>1 DEF Issue, IssueLate, RenewedAt, Bindings
  <1>5. bound' \in Bindings
    BY <1>1, <1>3 DEF Issue, IssueLate, RenewedAt, Bindings
  <1>6. UNCHANGED <<disk, keys, made, live, doing, tunnel, left>>
    BY DEF Issue, IssueLate, RenewedAt, notes
  <1>7. ServerKeeps'
    <2> SUFFICES ASSUME NEW j \in 1..MaxTunnels
                 PROVE  /\ bound'[j].state = "ready" =>
                             bound'[j].certificate \in 1..Len(signed') /\ signed'[bound'[j].certificate] = bound'[j].csr
                        /\ bound'[j].state # "ready" => bound'[j].certificate = 0
                        /\ j > made' => bound'[j].state = "none"
      BY DEF ServerKeeps
    <2>1. CASE j = i
      BY <1>1, <1>3, <1>4, <1>6, <2>1 DEF ProfileTypeOK
    <2>2. CASE j # i
      BY <1>3, <1>4, <1>6, <2>2 DEF ServerKeeps
    <2> QED
      BY <2>1, <2>2
  <1> QED
    BY <1>2, <1>3, <1>4, <1>5, <1>6, <1>7, RecordKeeps

\* Issuance fails for good.
LEMMA IssueFailsKeeps ==
    ASSUME NEW t \in 0..MaxTunnels, NEW k \in Key, ProfileBody(t, k), NEW i \in live, IssueFails(i)
    PROVE  ProfileBody(t, k)'
  <1> USE DEF ProfileBody
  <1>1. bound \in Bindings /\ i \in 1..MaxTunnels /\ i <= made /\ made \in Nat
    BY LiveIs DEF ProfileTypeOK
  <1>2. /\ bound'[i].state = "failed" /\ bound'[i].csr = bound[i].csr /\ bound'[i].certificate = 0
        /\ \A j \in 1..MaxTunnels \ {i} : bound'[j] = bound[j]
    BY <1>1 DEF IssueFails, Bindings
  <1>3. bound' \in Bindings
    BY <1>1 DEF IssueFails, Bindings
  <1>4. UNCHANGED <<disk, keys, made, signed, live, doing, tunnel, crossed, left>>
    BY DEF IssueFails, Fault
  <1>5. ServerKeeps' /\ signed' \in Seq(Key)
    BY <1>1, <1>2, <1>4 DEF ServerKeeps, ProfileTypeOK
  <1> QED
    BY <1>2, <1>3, <1>4, <1>5, RecordKeeps

\* complete, for a tunnel the API does not have: an error.
LEMMA BindRefusedKeeps ==
    ASSUME NEW t \in 0..MaxTunnels, NEW k \in Key, ProfileBody(t, k), NEW p \in Process, BindCertificate(p),
           doing[p].id \notin live
    PROVE  ProfileBody(t, k)'
  <1> USE DEF ProfileBody
  <1>1. /\ doing[p].at = "bind" /\ doing[p].writes = <<>> /\ Doing(p, Idle)
        /\ UNCHANGED <<disk, keys, made, signed, live, bound, tunnel, left, crossed>>
    BY DEF BindCertificate, Ready, notes
  <1>2. doing["user"].at # "wipe"
    BY <1>1 DEF ServiceWaits, Process
  <1>3. Saved \/ Pending
    BY <1>1, <1>2, PendingIsLeft DEF WorksOn, Provisioning
  <1>4. NoOther(t)'
    BY <1>1, <1>2, <1>3 DEF NoOther, Saved, Pending
  <1>5. ServerKeeps'
    BY <1>1 DEF ServerKeeps
  <1>6. bound' \in Bindings /\ made' \in 0..MaxTunnels /\ live' \subseteq 1..made' /\ tunnel' \in {tunnel, Missing}
    BY <1>1 DEF ProfileTypeOK
  <1>7. ~crossed => (t \in 1..MaxTunnels /\ bound'[t].state \in {"issuing", "ready"} => bound'[t].csr = k)
    BY <1>1 DEF OneKey
  <1> QED
    BY <1>1, <1>2, <1>4, <1>5, <1>6, <1>7, BecomesIdle

\* complete: the request is bound; its process polls.
LEMMA BindKeeps ==
    ASSUME NEW t \in 0..MaxTunnels, NEW k \in Key, ProfileBody(t, k), NEW p \in Process, BindCertificate(p),
           doing[p].id \in live
    PROVE  ProfileBody(t, k)'
  <1> USE DEF ProfileBody
  <1>1. doing[p].at = "bind" /\ doing[p].writes = <<>>
    BY DEF BindCertificate, Ready
  <1>2. doing["user"].at # "wipe"
    BY <1>1 DEF ServiceWaits, Process
  <1>3. /\ DOMAIN doing' = Process /\ \A q \in Process \ {p} : doing'[q] = doing[q]
        /\ DOMAIN doing'[p] = {"at", "id", "key", "writes"} /\ doing'[p].at = "poll"
        /\ doing'[p].id = doing[p].id /\ doing'[p].key = doing[p].key /\ doing'[p].writes = <<>>
    BY <1>1, DoingIs DEF BindCertificate, At, ProfileTypeOK
  <1>4. UNCHANGED <<disk, keys, made, signed, live, tunnel, left, crossed>>
    BY DEF BindCertificate, notes
  <1>5. /\ bound' \in Bindings /\ ServerKeeps'
        /\ ~crossed => /\ t \in 1..MaxTunnels /\ bound'[t].state \in {"issuing", "ready"} => bound'[t].csr = k
                       /\ ~(doing["user"].at = "bind" /\ doing["user"].writes # <<>>)
    BY <1>2, <1>4, BoundKeeps DEF BindCertificate
  <1>6. ProfileTypeOK'
    BY <1>3, <1>4, <1>5 DEF ProfileTypeOK
  <1>7. ServiceWaits'
    BY <1>1, <1>2, <1>3, <1>4 DEF ServiceWaits, Works, Saved, Pending, Process
  <1>8. Saved \/ Pending
    BY <1>1, <1>2, PendingIsLeft DEF WorksOn, Provisioning
  <1>9. OfTunnel(t)' /\ NoOther(t)'
    BY <1>2, <1>4, <1>8 DEF OfTunnel, NoOther, Saved, Pending, Has
  <1>10. ASSUME NEW q \in Process PROVE WorksOn(q, t)'
    <2>1. CASE q = p
      BY <1>1, <1>2, <1>3, <1>4, <1>8, <2>1 DEF WorksOn, Works, Saved, Pending
    <2>2. CASE q # p
      BY <1>2, <1>3, <1>4, <2>2 DEF WorksOn, Works, Provisioning, Saving, Saved, Pending, Has
    <2> QED
      BY <2>1, <2>2
  <1>11. ASSUME ~crossed PROVE OneKey(t, k)'
    <2>1. \A q \in Process : doing'[q].at \in Works \union {"check"} => doing'[q].key = k
      BY <1>1, <1>3, <1>11 DEF OneKey, Works
    <2>2. ~(doing'["user"].at = "bind" /\ doing'["user"].writes # <<>>)
      BY <1>3, <1>5, <1>11 DEF Process
    <2>3. disk["key"] = k
      BY <1>2, <1>5, <1>8, <1>11, PendingIsLeft DEF OneKey
    <2> QED
      BY <1>4, <1>5, <1>11, <2>1, <2>2, <2>3 DEF OneKey
  <1> QED
    BY <1>4, <1>5, <1>6, <1>7, <1>9, <1>10, <1>11

\* A certificate is to be saved: by a poll or a check that found it, or by a refresh.
LEMMA StartsToSave ==
    ASSUME NEW t \in 0..MaxTunnels, NEW k \in Key, ProfileBody(t, k), NEW p \in Process, NEW c \in Certificate,
           NEW x \in Key, doing["user"].at \notin {"create", "delete", "wipe"}, t \in 1..MaxTunnels,
           doing[p].at \in {"idle", "poll", "check"}, Saved \/ Pending,
           ~Saved => x = disk["pending"].csr, ~crossed => x = k /\ bound[t].state = "ready",
           DOMAIN doing' = Process, \A q \in Process \ {p} : doing'[q] = doing[q],
           DOMAIN doing'[p] = {"at", "id", "key", "writes"}, doing'[p].at = "done", doing'[p].id = t,
           doing'[p].key = x, doing'[p].writes = Save(t, t, x, c),
           tunnel' \in [id : 1..MaxTunnels, token : Nat, key : Key, certificate : Certificate] \union {Missing},
           tunnel' # Missing => tunnel'.id = t /\ tunnel'.token = t /\ Saved,
           UNCHANGED <<disk, keys, made, signed, live, bound, left, crossed>>
    PROVE  ProfileBody(t, k)'
  <1> USE DEF ProfileBody
  <1>1. ProfileTypeOK'
    BY DEF ProfileTypeOK
  <1>2. ServiceWaits'
    BY DEF ServiceWaits, Works, Saved, Pending, Process
  <1>3. OfTunnel(t)' /\ NoOther(t)'
    BY DEF OfTunnel, NoOther, Saved, Pending, Has
  <1>4. ASSUME NEW q \in Process PROVE WorksOn(q, t)'
    <2>1. CASE q = p
      <3>1. Saving(p, t)'
        BY DEF Saving, Saved, Pending
      <3> QED
        BY <2>1, <3>1 DEF WorksOn, Works, Saved, Pending
    <2>2. CASE q # p
      BY <2>2 DEF WorksOn, Works, Provisioning, Saving, Saved, Pending, Has
    <2> QED
      BY <2>1, <2>2
  <1>5. ASSUME ~crossed PROVE OneKey(t, k)'
    <2>1. \A q \in Process : doing'[q].at \in Works \union {"check"} => doing'[q].key = k
      BY <1>5 DEF OneKey, Works
    <2>2. ~(doing["user"].at = "bind" /\ doing["user"].writes # <<>>)
      BY <1>5 DEF OneKey
    <2>3. ~(doing'["user"].at = "bind" /\ doing'["user"].writes # <<>>)
      BY <2>2 DEF Process
    <2>4. disk["key"] = k
      BY <1>5, <2>2, PendingIsLeft DEF OneKey
    <2> QED
      BY <1>5, <2>1, <2>3, <2>4 DEF OneKey
  <1>6. ServerKeeps'
    BY DEF ServerKeeps
  <1> QED
    BY <1>1, <1>2, <1>3, <1>4, <1>5, <1>6

\* A certificate that is ready has a number.
LEMMA ReadyIs ==
    ASSUME ProfileTypeOK, ServerKeeps, NEW t \in 1..MaxTunnels, bound[t].state = "ready"
    PROVE  bound[t].certificate \in Certificate
  BY DEF ProfileTypeOK, ServerKeeps, Certificate

\* The certificate is polled for, and saved when it is there.
LEMMA PollKeeps ==
    ASSUME NEW t \in 0..MaxTunnels, NEW k \in Key, ProfileBody(t, k), NEW p \in Process, Poll(p)
    PROVE  ProfileBody(t, k)'
  <1> USE DEF ProfileBody
  <1>1. doing[p].at = "poll" /\ doing[p].writes = <<>>
    BY DEF Poll, Ready
  <1>2. doing["user"].at \notin {"create", "delete", "wipe"}
    BY <1>1 DEF ServiceWaits, Process
  <1>3. doing[p].id = t /\ t \in 1..MaxTunnels /\ (Saved \/ Pending) /\ doing[p].key \in Key
    BY <1>1, <1>2 DEF WorksOn, Works, ProfileTypeOK
  <1>4. UNCHANGED <<disk, keys, made, signed, live, bound, tunnel, left, crossed>>
    BY DEF Poll, server, notes
  <1>5. CASE bound[t].state = "failed" \/ t \notin live
    <2>1. Doing(p, Idle)
      BY <1>3, <1>5 DEF Poll
    <2>2. NoOther(t)' /\ ServerKeeps'
      BY <1>2, <1>3, <1>4 DEF NoOther, Saved, Pending, ServerKeeps
    <2>3. bound' \in Bindings /\ made' \in 0..MaxTunnels /\ live' \subseteq 1..made'
      BY <1>4 DEF ProfileTypeOK
    <2>4. ~crossed => (bound'[t].state \in {"issuing", "ready"} => bound'[t].csr = k)
      BY <1>3, <1>4 DEF OneKey
    <2> QED
      BY <1>1, <1>2, <1>4, <2>1, <2>2, <2>3, <2>4, BecomesIdle
  <1>6. CASE ~(bound[t].state = "failed" \/ t \notin live)
    <2>1. bound[t].state = "ready"
      BY <1>3, <1>6 DEF Poll
    <2>2. bound[t].certificate \in Certificate
      BY <1>3, <2>1, ReadyIs
    <2>3. Doing(p, [doing[p] EXCEPT !.at = "done", !.writes = Save(t, t, doing[p].key, bound[t].certificate)])
      BY <1>3, <1>6 DEF Poll
    <2>4. /\ DOMAIN doing' = Process /\ \A q \in Process \ {p} : doing'[q] = doing[q]
          /\ DOMAIN doing'[p] = {"at", "id", "key", "writes"} /\ doing'[p].at = "done" /\ doing'[p].id = t
          /\ doing'[p].key = doing[p].key /\ doing'[p].writes = Save(t, t, doing[p].key, bound[t].certificate)
      <3>1. PICK w : w = Save(t, t, doing[p].key, bound[t].certificate)
        OBVIOUS
      <3>2. /\ DOMAIN doing' = Process /\ \A q \in Process \ {p} : doing'[q] = doing[q]
            /\ doing'[p] = [doing[p] EXCEPT !.at = "done", !.writes = w]
        BY <2>3, <3>1, DoingIs DEF ProfileTypeOK
      <3>3. DOMAIN doing[p] = {"at", "id", "key", "writes"}
        BY DEF ProfileTypeOK
      <3> QED
        BY <1>3, <3>1, <3>2, <3>3
    <2>5. /\ ~Saved => doing[p].key = disk["pending"].csr
          /\ ~crossed => doing[p].key = k
      BY <1>1, <1>2, <1>3 DEF WorksOn, OneKey, Works
    <2>6. /\ tunnel \in [id : 1..MaxTunnels, token : Nat, key : Key, certificate : Certificate] \union {Missing}
          /\ tunnel # Missing => tunnel.id = t /\ tunnel.token = t /\ Saved
      BY <1>2 DEF ProfileTypeOK, OfTunnel
    <2> QED
      BY <1>1, <1>2, <1>3, <1>4, <2>1, <2>2, <2>4, <2>5, <2>6, StartsToSave
  <1> QED
    BY <1>5, <1>6

\* refresh_certificate: the tunnel that runs, and then its files, take a certificate for its key.
LEMMA RefreshKeeps ==
    ASSUME NEW t \in 0..MaxTunnels, NEW k \in Key, ProfileBody(t, k), Refresh
    PROVE  ProfileBody(t, k)'
  <1> USE DEF ProfileBody
  <1>1. /\ doing["service"].at = "idle" /\ tunnel # Missing /\ "service" \in Process
        /\ doing["user"].at \notin {"create", "delete", "wipe"}
    BY IdleIs DEF Refresh, ServiceWaits, Process
  <1>2. /\ tunnel \in [id : 1..MaxTunnels, token : Nat, key : Key, certificate : Certificate]
        /\ tunnel.id = t /\ tunnel.token = t /\ Saved /\ t \in 1..MaxTunnels /\ tunnel.key \in Key
    BY <1>1 DEF ProfileTypeOK, OfTunnel
  <1>3. bound[t].state = "ready" /\ bound[t].csr = tunnel.key
    BY <1>2 DEF Refresh
  <1>4. bound[t].certificate \in Certificate
    BY <1>2, <1>3, ReadyIs
  <1>5. /\ UNCHANGED <<disk, keys, made, signed, live, bound, left, crossed>>
        /\ tunnel' = [tunnel EXCEPT !.certificate = bound[t].certificate]
        /\ Doing("service", [Idle EXCEPT !.at = "done", !.id = t, !.key = tunnel.key,
                               !.writes = Save(t, t, tunnel.key, bound[t].certificate)])
    BY <1>2 DEF Refresh, server, notes
  <1>6. /\ tunnel' \in [id : 1..MaxTunnels, token : Nat, key : Key, certificate : Certificate]
        /\ tunnel'.id = t /\ tunnel'.token = t
    BY <1>2, <1>4, <1>5
  <1>7. /\ DOMAIN doing' = Process /\ \A q \in Process \ {"service"} : doing'[q] = doing[q]
        /\ DOMAIN doing'["service"] = {"at", "id", "key", "writes"} /\ doing'["service"].at = "done"
        /\ doing'["service"].id = t /\ doing'["service"].key = tunnel.key
        /\ doing'["service"].writes = Save(t, t, tunnel.key, bound[t].certificate)
    <2>1. PICK w : w = Save(t, t, tunnel.key, bound[t].certificate)
      OBVIOUS
    <2>2. /\ DOMAIN doing' = Process /\ \A q \in Process \ {"service"} : doing'[q] = doing[q]
          /\ doing'["service"] = [Idle EXCEPT !.at = "done", !.id = t, !.key = tunnel.key, !.writes = w]
      BY <1>1, <1>5, <2>1, DoingIs DEF ProfileTypeOK
    <2> QED
      BY <2>1, <2>2 DEF Idle
  <1>8. ~crossed => tunnel.key = k
    BY <1>2, <1>3 DEF OneKey
  <1> QED
    BY <1>1, <1>2, <1>3, <1>4, <1>5, <1>6, <1>7, <1>8, StartsToSave

\* provision: a new key for a tunnel whose request failed; the service keeps to the old one, or is idle.
LEMMA ProvisionKeeps ==
    ASSUME NEW t \in 0..MaxTunnels, NEW k \in Key, ProfileBody(t, k), doing["user"].at = "check",
           bound[t].state = "failed", Provision("user", t), crossed \in BOOLEAN,
           crossed' = (crossed \/ doing["service"] # Idle),
           UNCHANGED <<disk, made, signed, live, bound, tunnel, left>>
    PROVE  \E x \in Key : ProfileBody(t, x)'
  <1> USE DEF ProfileBody
  <1> DEFINE x == keys + 1
  <1>1. x \in Key /\ keys' = x
    BY Numbers DEF Provision, ProfileTypeOK, Key
  <1>2. PICK y \in Key : y = keys + 1 /\ keys' = y
    BY <1>1
  <1>3. Saved /\ t \in 1..MaxTunnels /\ "user" \in Process /\ "service" \in Process
    BY DEF WorksOn, Works, Process
  <1>4. /\ DOMAIN doing' = Process /\ doing'["service"] = doing["service"]
        /\ DOMAIN doing'["user"] = {"at", "id", "key", "writes"} /\ doing'["user"].at = "bind"
        /\ doing'["user"].id = t /\ doing'["user"].key = y /\ doing'["user"].writes = SavePending(t, y)
    BY <1>2, <1>3, DoingIs DEF Provision, ProfileTypeOK, Process
  <1>5. ProfileTypeOK'
    BY <1>2, <1>4 DEF ProfileTypeOK, Process
  <1>6. ServerKeeps' /\ ServiceWaits'
    BY <1>4 DEF ServerKeeps, ServiceWaits, Works, Saved, Pending
  <1>7. OfTunnel(t)' /\ NoOther(t)'
    BY <1>3 DEF OfTunnel, NoOther, Saved, Pending, Has
  <1>8. WorksOn("user", t)'
    BY <1>3, <1>4 DEF WorksOn, Works, Provisioning, Saved, Pending
  <1>9. WorksOn("service", t)'
    BY <1>3, <1>4 DEF WorksOn, Works, Provisioning, Saving, Saved, Pending, Has
  <1>10. ASSUME ~crossed' PROVE OneKey(t, y)'
    <2>1. doing["service"].at = "idle"
      BY <1>10, IdleIs
    <2> QED
      BY <1>4, <2>1 DEF OneKey, Works, Process
  <1>11. ProfileBody(t, y)'
    BY <1>4, <1>5, <1>6, <1>7, <1>8, <1>9, <1>10 DEF Process
  <1> QED
    BY <1>11

\* ensure with a saved identity: idle again, a certificate to save, or a new key.
LEMMA CheckKeeps ==
    ASSUME NEW t \in 0..MaxTunnels, NEW k \in Key, ProfileBody(t, k), Check, crossed \in BOOLEAN
    PROVE  \E x \in Key : ProfileBody(t, x)'
  <1> USE DEF ProfileBody
  <1>1. doing["user"].at = "check" /\ doing["user"].writes = <<>> /\ "user" \in Process
    BY DEF Check, Ready, Process
  <1>2. doing["user"].id = t /\ t \in 1..MaxTunnels /\ Saved /\ doing["user"].key \in Key
    BY <1>1 DEF WorksOn, Works, ProfileTypeOK
  <1>3. UNCHANGED <<disk, made, signed, live, bound, tunnel, left>>
    BY DEF Check, server
  <1>4. CASE bound[t].state = "failed" /\ t \in live
    <2>1. Provision("user", t) /\ crossed' = (crossed \/ doing["service"] # Idle)
      BY <1>2, <1>4 DEF Check
    <2> QED
      BY <1>1, <1>3, <1>4, <2>1, ProvisionKeeps
  <1>5. CASE ~(bound[t].state = "failed" /\ t \in live)
    <2>1. UNCHANGED <<keys, crossed>>
      BY <1>2, <1>5 DEF Check
    <2>2. CASE Doing("user", Idle)
      <3>1. NoOther(t)' /\ ServerKeeps'
        BY <1>1, <1>2, <1>3 DEF NoOther, Saved, Pending, ServerKeeps
      <3>2. bound' \in Bindings /\ made' \in 0..MaxTunnels /\ live' \subseteq 1..made'
        BY <1>3 DEF ProfileTypeOK
      <3>3. ~crossed => (bound'[t].state \in {"issuing", "ready"} => bound'[t].csr = k)
        BY <1>2, <1>3 DEF OneKey
      <3>4. ProfileBody(t, k)'
        BY <1>1, <1>3, <2>1, <2>2, <3>1, <3>2, <3>3, BecomesIdle
      <3> QED
        BY <3>4
    <2>3. CASE /\ bound[t].state = "ready"
               /\ Doing("user", [doing["user"] EXCEPT !.at = "done",
                                   !.writes = Save(t, t, doing["user"].key, bound[t].certificate)])
      <3>1. bound[t].certificate \in Certificate
        BY <1>2, <2>3, ReadyIs
      <3>2. PICK w : w = Save(t, t, doing["user"].key, bound[t].certificate)
        OBVIOUS
      <3>3. /\ DOMAIN doing' = Process /\ \A q \in Process \ {"user"} : doing'[q] = doing[q]
            /\ doing'["user"] = [doing["user"] EXCEPT !.at = "done", !.writes = w]
            /\ DOMAIN doing["user"] = {"at", "id", "key", "writes"}
        BY <1>1, <2>3, <3>2, DoingIs DEF ProfileTypeOK
      <3>4. /\ DOMAIN doing'["user"] = {"at", "id", "key", "writes"} /\ doing'["user"].at = "done"
            /\ doing'["user"].id = t /\ doing'["user"].key = doing["user"].key
            /\ doing'["user"].writes = Save(t, t, doing["user"].key, bound[t].certificate)
        BY <1>2, <3>2, <3>3
      <3>5. ~crossed => doing["user"].key = k
        BY <1>1 DEF OneKey
      <3>6. /\ tunnel \in [id : 1..MaxTunnels, token : Nat, key : Key, certificate : Certificate] \union {Missing}
            /\ tunnel # Missing => tunnel.id = t /\ tunnel.token = t /\ Saved
        BY <1>1 DEF ProfileTypeOK, OfTunnel
      <3>7. DOMAIN doing' = Process /\ (\A q \in Process \ {"user"} : doing'[q] = doing[q]) /\ bound[t].state = "ready"
        BY <2>3, <3>3
      <3>8. ProfileBody(t, k)'
        BY <1>1, <1>2, <1>3, <2>1, <3>1, <3>4, <3>5, <3>6, <3>7, StartsToSave
      <3> QED
        BY <3>8
    <2> QED
      BY <1>2, <1>5, <2>2, <2>3 DEF Check
  <1> QED
    BY <1>4, <1>5

\* create: a tunnel the API did not have; nobody else is at work.
LEMMA CreateKeeps ==
    ASSUME NEW t \in 0..MaxTunnels, NEW k \in Key, ProfileBody(t, k), NEW p \in Process, CreateTunnel(p)
    PROVE  \E u \in 0..MaxTunnels, x \in Key : ProfileBody(u, x)'
  <1> USE DEF ProfileBody
  <1>1. p = "user" /\ doing["user"].at = "create"
    BY DEF CreateTunnel, Ready, ServiceWaits, Works, Process
  <1>2. ~Saved /\ ~Pending /\ doing["service"].at = "idle" /\ tunnel = Missing
    BY <1>1 DEF ServiceWaits
  <1>3. live \subseteq left
    BY <1>1, <1>2 DEF NoOther, Process
  <1>4. PICK u \in 1..MaxTunnels : u = made + 1 /\ made' = u /\ made \in Nat
    BY Numbers DEF CreateTunnel, ProfileTypeOK
  <1>5. PICK y \in Key : y = keys + 1 /\ keys' = y
    BY Numbers DEF CreateTunnel, Provision, ProfileTypeOK, Key
  <1>6. UNCHANGED <<disk, signed, bound, tunnel, left, crossed>> /\ live' = live \union {u}
    BY <1>4 DEF CreateTunnel, notes
  <1>7. /\ DOMAIN doing' = Process /\ doing'["service"] = doing["service"]
        /\ DOMAIN doing'["user"] = {"at", "id", "key", "writes"} /\ doing'["user"].at = "bind"
        /\ doing'["user"].id = u /\ doing'["user"].key = y /\ doing'["user"].writes = SavePending(u, y)
    BY <1>1, <1>4, <1>5, DoingIs DEF CreateTunnel, Provision, ProfileTypeOK, Process
  <1>8. ProfileTypeOK'
    <2>1. made' \in 0..MaxTunnels /\ live' \subseteq 1..made'
      BY <1>4, <1>6 DEF ProfileTypeOK
    <2> QED
      BY <1>5, <1>6, <1>7, <2>1 DEF ProfileTypeOK, Process
  <1>9. ServerKeeps' /\ bound[u].state = "none"
    BY <1>4, <1>6 DEF ServerKeeps
  <1>10. ServiceWaits'
    BY <1>2, <1>6, <1>7 DEF ServiceWaits, Works
  <1>11. OfTunnel(u)' /\ NoOther(u)'
    <2>1. ~Saved' /\ ~Pending' /\ tunnel' = Missing
      BY <1>2, <1>6 DEF Saved, Pending
    <2>2. "user" \in Process
      BY DEF Process
    <2> QED
      BY <1>3, <1>6, <1>7, <2>1, <2>2 DEF OfTunnel, NoOther
  <1>12. WorksOn("user", u)' /\ WorksOn("service", u)'
    BY <1>2, <1>6, <1>7 DEF WorksOn, Works, Provisioning, Saved, Pending
  <1>13. OneKey(u, y)'
    BY <1>2, <1>6, <1>7, <1>9 DEF OneKey, Works, Process, Saved, Pending
  <1>14. ProfileBody(u, y)' /\ u \in 0..MaxTunnels
    BY <1>8, <1>9, <1>10, <1>11, <1>12, <1>13 DEF Process
  <1> QED
    BY <1>14

\* resume, in either process: the pending identity, at its request.
LEMMA ResumedKeeps ==
    ASSUME NEW t \in 0..MaxTunnels, NEW k \in Key, ProfileBody(t, k), NEW p \in Process,
           doing[p] = Idle, doing["user"].at \notin {"delete", "wipe"}, ~Saved, Pending, Doing(p, Resumed),
           UNCHANGED <<disk, keys, server, tunnel, notes>>
    PROVE  ProfileBody(t, k)'
  <1> USE DEF ProfileBody
  <1>1. /\ disk["pending"].id = t /\ t \in 1..MaxTunnels /\ disk["key"] = disk["pending"].csr
        /\ disk["key"] \in Key /\ doing["user"].at # "create"
    BY DEF OfTunnel, ProfileTypeOK, Pending, ServiceWaits
  <1>2. /\ DOMAIN doing' = Process /\ \A q \in Process \ {p} : doing'[q] = doing[q]
        /\ DOMAIN doing'[p] = {"at", "id", "key", "writes"} /\ doing'[p].at = "bind"
        /\ doing'[p].id = t /\ doing'[p].key = disk["key"] /\ doing'[p].writes = <<>>
    <2>1. /\ DOMAIN doing' = Process /\ \A q \in Process \ {p} : doing'[q] = doing[q]
          /\ doing'[p] = Resumed
      BY DoingIs DEF ProfileTypeOK
    <2> QED
      BY <1>1, <2>1 DEF Resumed, Idle
  <1>3. UNCHANGED <<disk, keys, made, signed, live, bound, tunnel, left, crossed>>
    BY DEF server, notes
  <1>4. ProfileTypeOK'
    BY <1>1, <1>2, <1>3 DEF ProfileTypeOK
  <1>5. ServiceWaits' /\ ServerKeeps'
    BY <1>1, <1>2, <1>3 DEF ServiceWaits, ServerKeeps, Works, Saved, Pending, Process
  <1>6. OfTunnel(t)' /\ NoOther(t)'
    BY <1>3 DEF OfTunnel, NoOther, Saved, Pending, Has
  <1>7. ASSUME NEW q \in Process PROVE WorksOn(q, t)'
    <2>1. CASE q = p
      BY <1>1, <1>2, <1>3, <2>1 DEF WorksOn, Works, Provisioning, Saved, Pending
    <2>2. CASE q # p
      BY <1>2, <1>3, <2>2 DEF WorksOn, Works, Provisioning, Saving, Saved, Pending, Has
    <2> QED
      BY <2>1, <2>2
  <1>8. ASSUME ~crossed PROVE OneKey(t, k)'
    <2>1. ~(doing["user"].at = "bind" /\ doing["user"].writes # <<>>)
      BY DEF WorksOn, Process
    <2>2. disk["key"] = k
      BY <1>8, <2>1, PendingIsLeft DEF OneKey
    <2>3. \A q \in Process : doing'[q].at \in Works \union {"check"} => doing'[q].key = k
      BY <1>2, <1>8, <2>2 DEF OneKey
    <2>4. ~(doing'["user"].at = "bind" /\ doing'["user"].writes # <<>>)
      BY <1>2, <2>1 DEF Process
    <2> QED
      BY <1>3, <1>8, <2>2, <2>3, <2>4 DEF OneKey
  <1> QED
    BY <1>3, <1>4, <1>5, <1>6, <1>7, <1>8

\* ensure begins: it checks what is saved, resumes what is pending, or creates.
LEMMA EnsureKeeps ==
    ASSUME NEW t \in 0..MaxTunnels, NEW k \in Key, ProfileBody(t, k), Ensure
    PROVE  ProfileBody(t, k)'
  <1> USE DEF ProfileBody
  <1>1. doing["user"] = Idle /\ doing["user"].at = "idle" /\ "user" \in Process
    BY IdleIs DEF Ensure, Process
  <1>2. UNCHANGED <<disk, keys, made, signed, live, bound, tunnel, left, crossed>>
    BY DEF Ensure, server, notes
  <1>3. CASE Saved
    <2>1. Doing("user", [Idle EXCEPT !.at = "check", !.id = disk["tunnel"].id, !.key = disk["key"]])
      BY <1>3 DEF Ensure
    <2>2. disk["tunnel"].id = t /\ t \in 1..MaxTunnels /\ disk["key"] \in Key
      BY <1>1, <1>3 DEF OfTunnel, ProfileTypeOK, Saved, Has
    <2>3. /\ DOMAIN doing' = Process /\ doing'["service"] = doing["service"]
          /\ DOMAIN doing'["user"] = {"at", "id", "key", "writes"} /\ doing'["user"].at = "check"
          /\ doing'["user"].id = t /\ doing'["user"].key = disk["key"] /\ doing'["user"].writes = <<>>
      <3>1. /\ DOMAIN doing' = Process /\ doing'["service"] = doing["service"]
            /\ doing'["user"] = [Idle EXCEPT !.at = "check", !.id = disk["tunnel"].id, !.key = disk["key"]]
        BY <1>1, <2>1, DoingIs DEF ProfileTypeOK, Process
      <3> QED
        BY <2>2, <3>1 DEF Idle
    <2>4. ProfileTypeOK'
      BY <1>2, <2>2, <2>3 DEF ProfileTypeOK, Process
    <2>5. ServiceWaits' /\ ServerKeeps'
      BY <1>2, <2>3 DEF ServiceWaits, ServerKeeps, Works, Saved, Pending
    <2>6. OfTunnel(t)' /\ NoOther(t)'
      BY <1>1, <1>2, <1>3 DEF OfTunnel, NoOther, Saved, Pending, Has
    <2>7. WorksOn("user", t)'
      BY <1>2, <1>3, <2>2, <2>3 DEF WorksOn, Works, Saved
    <2>8. WorksOn("service", t)'
      BY <1>1, <1>2, <2>3 DEF WorksOn, Works, Provisioning, Saving, Saved, Pending, Has, Process
    <2>9. ASSUME ~crossed PROVE OneKey(t, k)'
      <3>1. disk["key"] = k
        BY <1>1, <1>3, <2>9 DEF OneKey
      <3> QED
        BY <1>2, <2>3, <2>9, <3>1 DEF OneKey, Process
    <2> QED
      BY <1>2, <2>4, <2>5, <2>6, <2>7, <2>8, <2>9 DEF Process
  <1>4. CASE ~Saved /\ Pending
    <2>1. Doing("user", Resumed) /\ UNCHANGED <<disk, keys, server, tunnel, notes>>
      BY <1>4 DEF Ensure, AfterLoad
    <2> QED
      BY <1>1, <1>4, <2>1, ResumedKeeps
  <1>5. CASE ~Saved /\ ~Pending
    <2>1. Doing("user", [Idle EXCEPT !.at = "create"])
      BY <1>5 DEF Ensure, AfterLoad
    <2>2. /\ DOMAIN doing' = Process /\ doing'["service"] = doing["service"]
          /\ DOMAIN doing'["user"] = {"at", "id", "key", "writes"} /\ doing'["user"].at = "create"
          /\ doing'["user"].key = 0 /\ doing'["user"].writes = <<>>
      <3>1. /\ DOMAIN doing' = Process /\ doing'["service"] = doing["service"]
            /\ doing'["user"] = [Idle EXCEPT !.at = "create"]
        BY <1>1, <2>1, DoingIs DEF ProfileTypeOK, Process
      <3> QED
        BY <3>1 DEF Idle
    <2>3. doing["service"].at = "idle" /\ tunnel = Missing
      BY <1>1, <1>5, PendingIsLeft DEF ServiceWaits, WorksOn, Works, Saving, Provisioning, OfTunnel, Process
    <2>4. ProfileTypeOK'
      BY <1>2, <2>2, Numbers DEF ProfileTypeOK, Process
    <2>5. ServiceWaits' /\ ServerKeeps'
      BY <1>2, <1>5, <2>2, <2>3 DEF ServiceWaits, ServerKeeps, Works, Saved, Pending
    <2>6. OfTunnel(t)' /\ NoOther(t)'
      BY <1>1, <1>2, <2>2, <2>3 DEF OfTunnel, NoOther, Saved, Pending, Has, Process
    <2>7. WorksOn("user", t)' /\ WorksOn("service", t)'
      BY <1>2, <2>2, <2>3 DEF WorksOn, Works
    <2>8. ASSUME ~crossed PROVE OneKey(t, k)'
      BY <1>2, <1>5, <2>2, <2>3, <2>8 DEF OneKey, Process, Works, Saved, Pending
    <2> QED
      BY <1>2, <2>4, <2>5, <2>6, <2>7, <2>8 DEF Process
  <1> QED
    BY <1>3, <1>4, <1>5

\* The service resumes what a command left pending, or connects with what is saved.
LEMMA ServiceStartsKeep ==
    ASSUME NEW t \in 0..MaxTunnels, NEW k \in Key, ProfileBody(t, k), Resume \/ Connect
    PROVE  ProfileBody(t, k)'
  <1> USE DEF ProfileBody
  <1>1. CASE Resume
    BY <1>1, ResumedKeeps DEF Resume, Process
  <1>2. CASE Connect
    <2>1. /\ UNCHANGED <<disk, keys, made, signed, live, bound, doing, left, crossed>>
          /\ doing["user"].at \notin {"delete", "wipe"} /\ Saved
          /\ tunnel' = [id |-> disk["tunnel"].id, token |-> disk["token"], key |-> disk["key"],
                        certificate |-> disk["certificate"]]
      BY <1>2 DEF Connect, server, notes, Identity
    <2>2. /\ disk["tunnel"].id = t /\ t \in 1..MaxTunnels /\ disk["token"] = t /\ t \in Nat
          /\ disk["key"] \in Key /\ disk["certificate"] \in Certificate
      BY <2>1, Numbers DEF OfTunnel, ProfileTypeOK, Saved, Has
    <2>3. /\ tunnel' \in [id : 1..MaxTunnels, token : Nat, key : Key, certificate : Certificate]
          /\ tunnel'.id = t /\ tunnel'.token = t
      BY <2>1, <2>2
    <2>4. ProfileTypeOK'
      BY <2>1, <2>3 DEF ProfileTypeOK
    <2>5. doing["user"].at # "create"
      BY <2>1 DEF ServiceWaits
    <2>6. ServiceWaits' /\ ServerKeeps'
      BY <2>1, <2>5 DEF ServiceWaits, ServerKeeps, Saved, Pending
    <2>7. OfTunnel(t)' /\ NoOther(t)'
      BY <2>1, <2>3 DEF OfTunnel, NoOther, Saved, Pending, Has
    <2>8. ASSUME NEW q \in Process PROVE WorksOn(q, t)'
      BY <2>1 DEF WorksOn, Provisioning, Saving, Saved, Pending, Has
    <2>9. ASSUME ~crossed PROVE OneKey(t, k)'
      BY <2>1, <2>9 DEF OneKey, Saved, Pending
    <2> QED
      BY <2>1, <2>4, <2>6, <2>7, <2>8, <2>9
  <1> QED
    BY <1>1, <1>2

\* remove begins, with nothing else at work.
LEMMA RemoveKeeps ==
    ASSUME NEW t \in 0..MaxTunnels, NEW k \in Key, ProfileBody(t, k), Remove
    PROVE  ProfileBody(t, k)'
  <1> USE DEF ProfileBody
  <1>1. /\ doing["user"].at = "idle" /\ doing["service"].at = "idle" /\ "user" \in Process
        /\ UNCHANGED <<disk, keys, made, signed, live, bound, crossed>> /\ tunnel' = Missing
    BY IdleIs DEF Remove, server, Process
  <1>2. PICK to, id :
          /\ to \in {"delete", "wipe"}
          /\ to = "delete" <=> Saved
          /\ Saved => id = disk["tunnel"].id
          /\ DOMAIN doing' = Process /\ doing'["service"] = doing["service"]
          /\ DOMAIN doing'["user"] = {"at", "id", "key", "writes"} /\ doing'["user"].at = to
          /\ doing'["user"].id = id /\ doing'["user"].key = 0 /\ doing'["user"].writes = <<>>
    <2>1. /\ DOMAIN doing' = Process /\ doing'["service"] = doing["service"]
          /\ doing'["user"] = IF Saved THEN [Idle EXCEPT !.at = "delete", !.id = disk["tunnel"].id]
                              ELSE [Idle EXCEPT !.at = "wipe"]
      BY <1>1, DoingIs DEF Remove, ProfileTypeOK, Process
    <2>2. CASE Saved
      BY <2>1, <2>2 DEF Idle
    <2>3. CASE ~Saved
      BY <2>1, <2>3 DEF Idle
    <2> QED
      BY <2>2, <2>3
  <1>3. live \ left' \subseteq {t} /\ (~Saved => live \subseteq left')
    <2>1. Pending => disk["pending"].id = t
      BY <1>1 DEF OfTunnel
    <2>2. live \ left \subseteq {t} /\ (~Saved /\ ~Pending => live \subseteq left)
      BY <1>1 DEF NoOther, Process
    <2>3. left' = (IF ~Saved /\ Pending THEN left \union {disk["pending"].id} ELSE left)
      BY DEF Remove
    <2> QED
      BY <2>1, <2>2, <2>3
  <1>4. ProfileTypeOK'
    BY <1>1, <1>2, Numbers DEF ProfileTypeOK, Process
  <1>5. ServiceWaits' /\ ServerKeeps'
    BY <1>1, <1>2, <1>3 DEF ServiceWaits, ServerKeeps, Works
  <1>6. ASSUME Saved PROVE OfTunnel(t)' /\ NoOther(t)'
    BY <1>1, <1>3, <1>6 DEF OfTunnel, NoOther, Saved, Pending, Has
  <1>7. ASSUME Saved PROVE t \in 1..MaxTunnels /\ disk["tunnel"].id = t
    BY <1>1, <1>7 DEF OfTunnel, Saved, ProfileTypeOK
  <1>8. ASSUME Saved PROVE WorksOn("user", t)' /\ WorksOn("service", t)'
    BY <1>1, <1>2, <1>7, <1>8 DEF WorksOn, Works, Saved
  <1>9. ASSUME ~crossed PROVE OneKey(t, k)'
    BY <1>1, <1>2, <1>9 DEF OneKey, Works, Process, Saved, Pending
  <1> QED
    BY <1>1, <1>2, <1>4, <1>5, <1>6, <1>8, <1>9 DEF Process

\* The tunnel is deleted at the API, and its files one by one.
LEMMA RemovalKeeps ==
    ASSUME NEW t \in 0..MaxTunnels, NEW k \in Key, ProfileBody(t, k),
           DeleteTunnel \/ Wiped \/ \E f \in File : Wipe(f)
    PROVE  ProfileBody(t, k)'
  <1> USE DEF ProfileBody
  <1>1. CASE DeleteTunnel
    <2>1. doing["user"].at = "delete" /\ doing["user"].writes = <<>> /\ "user" \in Process
      BY <1>1 DEF DeleteTunnel, Ready, Process
    <2>2. /\ DOMAIN doing' = Process /\ doing'["service"] = doing["service"]
          /\ DOMAIN doing'["user"] = {"at", "id", "key", "writes"} /\ doing'["user"].at = "wipe"
          /\ doing'["user"].key = doing["user"].key /\ doing'["user"].writes = <<>>
      BY <1>1, <2>1, DoingIs DEF DeleteTunnel, At, ProfileTypeOK, Process
    <2>3. UNCHANGED <<disk, keys, made, signed, bound, tunnel, left, crossed>> /\ live' = live \ {doing["user"].id}
      BY <1>1 DEF DeleteTunnel, notes
    <2>4. doing["user"].id = t /\ live' \subseteq left
      BY <2>1, <2>3 DEF WorksOn, Works, NoOther
    <2>5. ProfileTypeOK'
      BY <2>2, <2>3 DEF ProfileTypeOK, Process
    <2>6. ServiceWaits' /\ ServerKeeps'
      BY <2>1, <2>2, <2>3, <2>4 DEF ServiceWaits, ServerKeeps, Works
    <2>7. ASSUME ~crossed PROVE OneKey(t, k)'
      BY <2>1, <2>2, <2>3, <2>7 DEF OneKey, ServiceWaits, Works, Process
    <2> QED
      BY <2>2, <2>3, <2>5, <2>6, <2>7
  <1>2. CASE Wiped
    <2>1. doing["user"].at = "wipe" /\ Doing("user", Idle) /\ "user" \in Process /\ \A f \in File : disk[f] = Missing
      BY <1>2 DEF Wiped, Process
    <2>2. UNCHANGED <<disk, keys, made, signed, live, bound, tunnel, left, crossed>>
      BY <1>2 DEF Wiped, notes, server
    <2>3. DOMAIN doing' = Process /\ doing'["service"] = doing["service"] /\ doing'["user"] = Idle
      BY <2>1, DoingIs DEF ProfileTypeOK, Process
    <2>4. ~Saved' /\ ~Pending' /\ doing["service"].at = "idle" /\ tunnel = Missing /\ live \subseteq left
      BY <2>1, <2>2 DEF Saved, Pending, File, ServiceWaits
    <2>5. ProfileTypeOK'
      BY <2>2, <2>3, IdleIs DEF ProfileTypeOK, Process
    <2>6. ServiceWaits' /\ ServerKeeps'
      BY <2>2, <2>3, <2>4, IdleIs DEF ServiceWaits, ServerKeeps, Works
    <2>7. OfTunnel(t)' /\ NoOther(t)'
      BY <2>2, <2>4 DEF OfTunnel, NoOther
    <2>8. WorksOn("user", t)' /\ WorksOn("service", t)'
      BY <2>3, <2>4, IdleIs DEF WorksOn, Works
    <2>9. ASSUME ~crossed PROVE OneKey(t, k)'
      BY <2>2, <2>3, <2>4, <2>9, IdleIs DEF OneKey, Works, Process
    <2> QED
      BY <2>2, <2>5, <2>6, <2>7, <2>8, <2>9 DEF Process
  <1>3. ASSUME NEW f \in File, Wipe(f) PROVE ProfileBody(t, k)'
    <2>1. /\ doing["user"].at = "wipe" /\ disk' = [disk EXCEPT ![f] = Missing]
          /\ UNCHANGED <<keys, made, signed, live, bound, doing, tunnel, left, crossed>>
      BY <1>3 DEF Wipe, server, notes
    <2>2. DOMAIN disk' = File /\ \A g \in File : disk'[g] \in {disk[g], Missing}
      BY <2>1 DEF ProfileTypeOK
    <2>3. ProfileTypeOK'
      BY <2>1, <2>2 DEF ProfileTypeOK, File
    <2>4. ServiceWaits' /\ ServerKeeps'
      BY <2>1 DEF ServiceWaits, ServerKeeps
    <2>5. ASSUME ~crossed PROVE OneKey(t, k)'
      BY <2>1, <2>5 DEF OneKey
    <2> QED
      BY <2>1, <2>3, <2>4, <2>5
  <1> QED
    BY <1>1, <1>2, <1>3

\* One file is replaced, and its process has the rest to write.
Written(p, f, v, rest) ==
    /\ DOMAIN disk' = File /\ disk'[f] = v /\ \A g \in File \ {f} : disk'[g] = disk[g]
    /\ DOMAIN doing' = Process /\ \A q \in Process \ {p} : doing'[q] = doing[q]
    /\ DOMAIN doing'[p] = {"at", "id", "key", "writes"} /\ doing'[p].at = doing[p].at
    /\ doing'[p].id = doing[p].id /\ doing'[p].key = doing[p].key /\ doing'[p].writes = rest
    /\ UNCHANGED <<keys, made, signed, live, bound, tunnel, left, crossed>>

\* write_secret.
LEMMA WriteIs ==
    ASSUME ProfileTypeOK, NEW p \in Process, Write(p), NEW f \in File, NEW v, NEW rest,
           Head(doing[p].writes) = <<f, v>>, Tail(doing[p].writes) = rest
    PROVE  Written(p, f, v, rest)
  <1>1. disk' = [disk EXCEPT ![f] = v] /\ UNCHANGED <<keys, made, signed, live, bound, tunnel, left, crossed>>
    <2>1. Head(doing[p].writes)[1] = f /\ Head(doing[p].writes)[2] = v
      OBVIOUS
    <2> QED
      BY <2>1 DEF Write, server, notes
  <1>2. Doing(p, [doing[p] EXCEPT !.writes = rest])
    BY DEF Write
  <1>3. /\ DOMAIN doing' = Process /\ \A q \in Process \ {p} : doing'[q] = doing[q]
        /\ doing'[p] = [doing[p] EXCEPT !.writes = rest] /\ DOMAIN doing[p] = {"at", "id", "key", "writes"}
    BY <1>2, DoingIs DEF ProfileTypeOK
  <1>4. DOMAIN disk' = File /\ disk'[f] = v /\ \A g \in File \ {f} : disk'[g] = disk[g]
    BY <1>1 DEF ProfileTypeOK
  <1> QED
    BY <1>1, <1>3, <1>4 DEF Written

\* What a write has to keep: the files of one tunnel, what both processes work on, and the key.
LEMMA WrittenKeeps ==
    ASSUME NEW t \in 0..MaxTunnels, NEW k \in Key, ProfileBody(t, k), NEW p \in Process, NEW f \in File, NEW v, NEW rest,
           doing[p].at \in {"bind", "done"}, doing[p].writes # <<>>, Written(p, f, v, rest),
           f = "token" => v \in Nat, f = "key" => v \in Key, f \in {"certificate", "chain"} => v \in Certificate,
           f = "tunnel" => v \in [id : 1..MaxTunnels, expiry : Certificate],
           f = "pending" => v \in [id : 1..MaxTunnels, csr : Key] \union {Missing},
           OfTunnel(t)', WorksOn("user", t)', WorksOn("service", t)', Saved => Saved', Pending => Pending' \/ Saved',
           ~crossed => ((Saved \/ Pending)' =>
                           \/ disk'["key"] = k
                           \/ doing'["user"].at = "bind" /\ doing'["user"].writes \in {SavePending(t, k), PendingLeft2(t, k)})
    PROVE  ProfileBody(t, k)'
  <1> USE DEF ProfileBody
  <1>1. doing["user"].at \notin {"create", "delete", "wipe"} /\ (p = "service" => doing["service"].at = "done")
    BY DEF ServiceWaits, Process
  <1>2. ProfileTypeOK'
    <2>1. /\ disk'["token"] \in Nat \union {Missing} /\ disk'["key"] \in Key \union {Missing}
          /\ disk'["certificate"] \in Certificate \union {Missing} /\ disk'["chain"] \in Certificate \union {Missing}
          /\ disk'["tunnel"] \in [id : 1..MaxTunnels, expiry : Certificate] \union {Missing}
          /\ disk'["pending"] \in [id : 1..MaxTunnels, csr : Key] \union {Missing}
      BY DEF Written, ProfileTypeOK, File
    <2> QED
      BY <2>1 DEF Written, ProfileTypeOK
  <1>3. ServerKeeps'
    BY DEF Written, ServerKeeps
  <1>4. ServiceWaits'
    BY <1>1 DEF Written, ServiceWaits, Process
  <1>5. NoOther(t)'
    <2>1. \A q \in Process : doing'[q].at = doing[q].at
      BY DEF Written
    <2> QED
      BY <1>1, <2>1 DEF Written, NoOther
  <1>6. ASSUME ~crossed PROVE OneKey(t, k)'
    <2>1. \A q \in Process : doing'[q].at = doing[q].at /\ doing'[q].key = doing[q].key
      BY DEF Written
    <2>2. doing'["user"].at = "bind" /\ doing'["user"].writes # <<>> =>
            bound[t].state \in {"none", "failed"} /\ doing["service"].at = "idle"
      BY <1>1, <1>6 DEF Written, OneKey, Process
    <2> QED
      BY <1>6, <2>1, <2>2 DEF Written, OneKey, Process
  <1>7. crossed' = crossed /\ doing'["user"].at # "wipe"
    BY <1>1 DEF Written, Process
  <1> QED
    BY <1>2, <1>3, <1>4, <1>5, <1>6, <1>7 DEF Process

\* SavePending: only the user's process writes one, and until it is done nobody else is at work,
\* unless the tunnel is saved already.
LEMMA PendingIsWritten ==
    ASSUME NEW t \in 0..MaxTunnels, NEW k \in Key, ProfileBody(t, k), NEW p \in Process,
           Write(p), doing[p].at = "bind"
    PROVE  ProfileBody(t, k)'
  <1> USE DEF ProfileBody
  <1>1. p = "user" /\ doing["user"].at = "bind" /\ doing["user"].writes # <<>>
    BY DEF Write, ServiceWaits, Process
  <1>2. /\ doing["user"].id = t /\ t \in 1..MaxTunnels /\ doing["user"].key \in Key /\ ~(~Saved /\ Pending)
        /\ Provisioning("user", t)
    BY <1>1 DEF WorksOn, Works, ProfileTypeOK, Process
  <1>3. Saved \/ doing["service"].at = "idle"
    BY <1>1, <1>2, PendingIsLeft DEF WorksOn, Works, Provisioning, Saving, ServiceWaits, Process
  <1>4. OfTunnel(t) /\ WorksOn("service", t)
    BY <1>1 DEF Process
  <1>5. ~crossed => doing["user"].key = k /\ OneKey(t, k)
    BY <1>1 DEF OneKey, Works, Process
  <1>6. t \in Nat /\ "user" \in Process /\ {"token", "key", "pending", "tunnel", "certificate", "chain"} = File
    BY <1>2, Numbers DEF Process, File
  <1>7. CASE doing["user"].writes = SavePending(t, doing["user"].key)
    <2>1. Written("user", "token", t, PendingLeft2(t, doing["user"].key))
      <3>1. /\ Head(doing["user"].writes) = <<"token", t>>
            /\ Tail(doing["user"].writes) = PendingLeft2(t, doing["user"].key)
        BY <1>7 DEF SavePending, PendingLeft2
      <3> QED
        BY <1>1, <1>6, <3>1, WriteIs
    <2>2. UNCHANGED <<Saved, Pending, tunnel>> /\ Has("key")' = Has("key") /\ Has("certificate")' = Has("certificate")
          /\ Has("chain")' = Has("chain") /\ disk'["pending"] = disk["pending"] /\ disk'["key"] = disk["key"]
          /\ disk'["tunnel"] = disk["tunnel"] /\ disk'["token"] = t
      BY <1>6, <2>1 DEF Written, Saved, Pending, Has
    <2>3. OfTunnel(t)'
      BY <1>4, <2>2 DEF OfTunnel
    <2>4. WorksOn("user", t)'
      BY <1>1, <1>2, <1>6, <2>1, <2>2 DEF Written, WorksOn, Works, Provisioning
    <2>5. WorksOn("service", t)'
      BY <1>3, <1>4, <1>6, <2>1, <2>2 DEF Written, WorksOn, Works, Provisioning, Saving, Process
    <2>6. ~crossed => doing'["user"].at = "bind" /\ doing'["user"].writes \in {SavePending(t, k), PendingLeft2(t, k)}
      BY <1>1, <1>5, <1>6, <2>1 DEF Written
    <2>7. (Saved => Saved') /\ (Pending => Pending' \/ Saved')
      BY <2>2
    <2>8. "token" \in File
      BY <1>6
    <2> QED
      BY <1>1, <1>6, <2>1, <2>3, <2>4, <2>5, <2>6, <2>7, <2>8, WrittenKeeps
  <1>8. CASE doing["user"].writes = PendingLeft2(t, doing["user"].key) /\ disk["token"] = t
    <2>1. Written("user", "key", doing["user"].key, PendingLeft1(t, doing["user"].key))
      <3>1. /\ Head(doing["user"].writes) = <<"key", doing["user"].key>>
            /\ Tail(doing["user"].writes) = PendingLeft1(t, doing["user"].key)
        BY <1>8 DEF PendingLeft2, PendingLeft1
      <3> QED
        BY <1>1, <1>6, <3>1, WriteIs
    <2>2. UNCHANGED <<Saved, Pending, tunnel>> /\ Has("key")' /\ Has("certificate")' = Has("certificate")
          /\ Has("chain")' = Has("chain") /\ disk'["pending"] = disk["pending"] /\ disk'["token"] = t
          /\ disk'["tunnel"] = disk["tunnel"] /\ disk'["key"] = doing["user"].key
      BY <1>2, <1>6, <1>8, <2>1, NotMissing DEF Written, Saved, Pending, Has
    <2>3. OfTunnel(t)'
      BY <1>2, <1>4, <2>2 DEF OfTunnel
    <2>4. WorksOn("user", t)'
      BY <1>1, <1>2, <1>6, <2>1, <2>2 DEF Written, WorksOn, Works, Provisioning
    <2>5. WorksOn("service", t)'
      BY <1>3, <1>4, <1>6, <2>1, <2>2 DEF Written, WorksOn, Works, Provisioning, Saving, Process, ServiceWaits
    <2>6. ~crossed => disk'["key"] = k
      BY <1>5, <2>2
    <2>7. (Saved => Saved') /\ (Pending => Pending' \/ Saved')
      BY <2>2
    <2>8. "key" \in File
      BY <1>6
    <2> QED
      BY <1>1, <1>2, <1>6, <2>1, <2>3, <2>4, <2>5, <2>6, <2>7, <2>8, WrittenKeeps
  <1>9. CASE /\ doing["user"].writes = PendingLeft1(t, doing["user"].key) /\ disk["token"] = t
             /\ ~Saved => disk["key"] = doing["user"].key
    <2> DEFINE v == [id |-> t, csr |-> doing["user"].key]
    <2>1. Written("user", "pending", v, <<>>)
      <3>1. Head(doing["user"].writes) = <<"pending", v>> /\ Tail(doing["user"].writes) = <<>>
        BY <1>9 DEF PendingLeft1
      <3> QED
        BY <1>1, <1>6, <3>1, WriteIs
    <2>2. v # Missing /\ v.id = t /\ v.csr = doing["user"].key /\ v \in [id : 1..MaxTunnels, csr : Key]
      BY <1>2, NotMissing
    <2> HIDE DEF v
    <2>3. UNCHANGED <<Saved, tunnel>> /\ Pending' /\ Has("key")' = Has("key") /\ Has("certificate")' = Has("certificate")
          /\ Has("chain")' = Has("chain") /\ disk'["pending"] = v /\ disk'["token"] = t
          /\ disk'["tunnel"] = disk["tunnel"] /\ disk'["key"] = disk["key"]
      BY <1>6, <1>9, <2>1, <2>2 DEF Written, Saved, Pending, Has
    <2>4. OfTunnel(t)'
      BY <1>4, <1>9, <2>2, <2>3 DEF OfTunnel
    <2>5. WorksOn("user", t)'
      BY <1>1, <1>2, <1>6, <2>1, <2>2, <2>3 DEF Written, WorksOn, Works, Provisioning
    <2>6. WorksOn("service", t)'
      BY <1>3, <1>4, <1>6, <2>1, <2>3 DEF Written, WorksOn, Works, Provisioning, Saving, Process
    <2>7. ~crossed => disk'["key"] = k
      <3>1. PendingLeft1(t, k) \notin {SavePending(t, k), PendingLeft2(t, k)}
        BY PendingIsLeft
      <3> QED
        BY <1>1, <1>5, <1>9, <2>3, <3>1 DEF OneKey
    <2>8. (Saved => Saved') /\ (Pending => Pending' \/ Saved')
      BY <2>3
    <2>9. "pending" \in File
      BY <1>6
    <2> QED
      BY <1>1, <1>6, <2>1, <2>2, <2>4, <2>5, <2>6, <2>7, <2>8, <2>9, WrittenKeeps
  <1> QED
    BY <1>1, <1>2, <1>7, <1>8, <1>9 DEF Provisioning

\* Save, whichever file it replaces: the other process's files are the same ones.
LEMMA SaveStep ==
    ASSUME NEW t \in 0..MaxTunnels, NEW k \in Key, ProfileBody(t, k), NEW p \in Process, NEW f \in File, NEW v, NEW rest,
           doing[p].at = "done", doing[p].writes # <<>>, Written(p, f, v, rest), Saving(p, t)',
           f = "token" => v = t, f = "key" => v = doing[p].key, f \in {"certificate", "chain"} => v \in Certificate,
           f = "tunnel" => /\ v \in [id : 1..MaxTunnels, expiry : Certificate] /\ v.id = t /\ v # Missing
                           /\ Has("key") /\ Has("certificate") /\ Has("chain"),
           f = "pending" => v = Missing /\ Saved
    PROVE  ProfileBody(t, k)'
  <1> USE DEF ProfileBody
  <1>1. doing["user"].at \notin {"create", "delete", "wipe"}
    BY DEF ServiceWaits, Process
  <1>2. OfTunnel(t) /\ WorksOn("user", t) /\ WorksOn("service", t) /\ WorksOn(p, t)
    BY <1>1 DEF Process
  <1>3. doing[p].id = t /\ t \in 1..MaxTunnels /\ t \in Nat /\ doing[p].key \in Key /\ (Saved \/ Pending)
    BY <1>2, Numbers DEF WorksOn, Works, Saving, ProfileTypeOK
  <1>4. disk["token"] = t /\ (~Saved => doing[p].key = disk["pending"].csr)
    BY <1>2, <1>3 DEF OfTunnel, WorksOn, Works
  <1>5. File = {"token", "key", "certificate", "chain", "tunnel", "pending"}
    BY DEF File
  <1>6. doing[p].key # Missing /\ \A c \in Certificate : c # Missing
    BY <1>3, NotMissing
  <1>7. /\ (Has("key") => Has("key")') /\ (Has("certificate") => Has("certificate")')
        /\ (Has("chain") => Has("chain")')
    BY <1>5, <1>6 DEF Written, Has
  <1>8. /\ disk'["token"] = t /\ (f # "tunnel" => disk'["tunnel"] = disk["tunnel"])
        /\ (f # "pending" => disk'["pending"] = disk["pending"]) /\ (f = "tunnel" => disk'["tunnel"] = v)
        /\ (f # "key" => disk'["key"] = disk["key"]) /\ (f = "key" => disk'["key"] = doing[p].key)
    BY <1>4, <1>5 DEF Written
  <1>9. (Saved => Saved') /\ (Saved \/ Pending)' /\ (~Saved' => ~Saved /\ Pending' /\ disk'["pending"] = disk["pending"])
    BY <1>3, <1>8 DEF Saved, Pending
  <1>10. OfTunnel(t)'
    <2>1. Saved' => /\ disk'["tunnel"].id = t /\ disk'["token"] = t
                    /\ Has("key")' /\ Has("certificate")' /\ Has("chain")'
      <3>1. CASE f = "tunnel"
        BY <1>7, <1>8, <3>1
      <3>2. CASE f # "tunnel"
        BY <1>2, <1>7, <1>8, <3>2 DEF OfTunnel, Saved
      <3> QED
        BY <3>1, <3>2
    <2>2. Pending' => disk'["pending"].id = t
      BY <1>2, <1>5, <1>8 DEF OfTunnel, Pending, Written
    <2>3. ~Saved' => disk'["key"] = disk'["pending"].csr
      BY <1>2, <1>3, <1>4, <1>8, <1>9 DEF OfTunnel
    <2>4. tunnel' # Missing => tunnel'.id = t /\ tunnel'.token = t /\ Saved'
      BY <1>2, <1>9 DEF OfTunnel, Written
    <2> QED
      BY <1>8, <2>1, <2>2, <2>3, <2>4 DEF OfTunnel
  <1>11. ASSUME NEW q \in Process PROVE WorksOn(q, t)'
    <2>1. CASE q = p
      BY <1>3, <1>4, <1>9, <2>1 DEF Written, WorksOn, Works
    <2>2. CASE q # p
      <3>1. WorksOn(q, t) /\ doing'[q] = doing[q]
        BY <1>2, <2>2 DEF Written, Process
      <3>2. doing[q].at = "bind" => Provisioning(q, t)'
        <4>1. doing[q].at = "bind" /\ doing[q].writes # <<>> => Saved
          BY <1>3, <3>1 DEF WorksOn
        <4> QED
          BY <1>8, <1>9, <3>1, <4>1 DEF WorksOn, Provisioning
      <3>3. doing[q].at = "done" => Saving(q, t)'
        BY <1>7, <1>9, <3>1 DEF WorksOn, Saving
      <3> QED
        BY <1>3, <1>9, <3>1, <3>2, <3>3 DEF WorksOn, Works
    <2> QED
      BY <2>1, <2>2
  <1>12. ASSUME ~crossed PROVE disk'["key"] = k
    <2>1. doing[p].key = k
      BY <1>12 DEF OneKey, Works
    <2>2. ~(doing["user"].at = "bind" /\ doing["user"].writes # <<>>)
      BY <1>12 DEF OneKey, Process
    <2>3. disk["key"] = k
      BY <1>1, <1>3, <1>12, <2>2, PendingIsLeft DEF OneKey
    <2> QED
      BY <1>8, <2>1, <2>3
  <1> QED
    BY <1>3, <1>9, <1>10, <1>11, <1>12, WrittenKeeps DEF Process
\* Save: the files of the tunnel are there before its metadata is, and that before the pending identity goes.
LEMMA SaveIsWritten ==
    ASSUME NEW t \in 0..MaxTunnels, NEW k \in Key, ProfileBody(t, k), NEW p \in Process,
           Write(p), doing[p].at = "done"
    PROVE  ProfileBody(t, k)'
  <1>1. ProfileTypeOK /\ Saving(p, t) /\ doing[p].writes # <<>> /\ doing[p].id = t /\ t \in 1..MaxTunnels
    BY DEF ProfileBody, ServiceWaits, WorksOn, Works, Write, Process
  <1>2. PICK c \in Certificate :
          \/ doing[p].writes = Save(t, t, doing[p].key, c)
          \/ doing[p].writes = SaveLeft5(t, doing[p].key, c)
          \/ doing[p].writes = SaveLeft4(t, c) /\ Has("key")
          \/ doing[p].writes = SaveLeft3(t, c) /\ Has("key") /\ Has("certificate")
          \/ doing[p].writes = SaveLeft2(t, c) /\ Has("key") /\ Has("certificate") /\ Has("chain")
          \/ doing[p].writes = SaveLeft1 /\ Saved
    BY <1>1 DEF Saving
  <1>3. doing[p].key \in Key /\ doing[p].key # Missing /\ c # Missing /\ t # Missing /\ (Saved \/ Pending)
    BY <1>1, NotMissing, Numbers DEF ProfileTypeOK, Saving
  <1>4. File = {"token", "key", "certificate", "chain", "tunnel", "pending"}
    BY DEF File
  <1>5. CASE doing[p].writes = Save(t, t, doing[p].key, c)
    <2>1. /\ Head(doing[p].writes) = <<"token", t>>
          /\ Tail(doing[p].writes) = SaveLeft5(t, doing[p].key, c)
      BY <1>5 DEF Save, SaveLeft5
    <2>2. Written(p, "token", t, SaveLeft5(t, doing[p].key, c))
      BY <1>1, <1>4, <2>1, WriteIs
    <2>3. (Saved \/ Pending)' /\ doing'[p].writes = SaveLeft5(t, doing'[p].key, c)
      BY <1>3, <1>4, <2>2 DEF Written, Saved, Pending
    <2>4. Saving(p, t)'
      BY <2>3 DEF Saving
    <2> QED
      BY <1>1, <1>4, <2>2, <2>4, SaveStep
  <1>6. CASE doing[p].writes = SaveLeft5(t, doing[p].key, c)
    <2>1. /\ Head(doing[p].writes) = <<"key", doing[p].key>>
          /\ Tail(doing[p].writes) = SaveLeft4(t, c)
      BY <1>6 DEF SaveLeft5, SaveLeft4
    <2>2. Written(p, "key", doing[p].key, SaveLeft4(t, c))
      BY <1>1, <1>4, <2>1, WriteIs
    <2>3. (Saved \/ Pending)' /\ doing'[p].writes = SaveLeft4(t, c) /\ Has("key")'
      BY <1>3, <1>4, <2>2 DEF Written, Saved, Pending, Has
    <2>4. Saving(p, t)'
      BY <2>3 DEF Saving
    <2> QED
      BY <1>1, <1>4, <2>2, <2>4, SaveStep
  <1>7. CASE doing[p].writes = SaveLeft4(t, c) /\ Has("key")
    <2>1. /\ Head(doing[p].writes) = <<"certificate", c>>
          /\ Tail(doing[p].writes) = SaveLeft3(t, c)
      BY <1>7 DEF SaveLeft4, SaveLeft3
    <2>2. Written(p, "certificate", c, SaveLeft3(t, c))
      BY <1>1, <1>4, <2>1, WriteIs
    <2>3. (Saved \/ Pending)' /\ doing'[p].writes = SaveLeft3(t, c) /\ Has("key")' /\ Has("certificate")'
      BY <1>3, <1>4, <1>7, <2>2 DEF Written, Saved, Pending, Has
    <2>4. Saving(p, t)'
      BY <2>3 DEF Saving
    <2> QED
      BY <1>1, <1>4, <2>2, <2>4, SaveStep
  <1>8. CASE doing[p].writes = SaveLeft3(t, c) /\ Has("key") /\ Has("certificate")
    <2>1. /\ Head(doing[p].writes) = <<"chain", c>>
          /\ Tail(doing[p].writes) = SaveLeft2(t, c)
      BY <1>8 DEF SaveLeft3, SaveLeft2
    <2>2. Written(p, "chain", c, SaveLeft2(t, c))
      BY <1>1, <1>4, <2>1, WriteIs
    <2>3. /\ (Saved \/ Pending)' /\ doing'[p].writes = SaveLeft2(t, c)
          /\ Has("key")' /\ Has("certificate")' /\ Has("chain")'
      BY <1>3, <1>4, <1>8, <2>2 DEF Written, Saved, Pending, Has
    <2>4. Saving(p, t)'
      BY <2>3 DEF Saving
    <2> QED
      BY <1>1, <1>4, <2>2, <2>4, SaveStep
  <1>9. CASE doing[p].writes = SaveLeft2(t, c) /\ Has("key") /\ Has("certificate") /\ Has("chain")
    <2>1. PICK v : v = [id |-> t, expiry |-> c]
      OBVIOUS
    <2>2. v \in [id : 1..MaxTunnels, expiry : Certificate] /\ v.id = t /\ v # Missing
      BY <1>1, <2>1, NotMissing
    <2>3. Head(doing[p].writes) = <<"tunnel", v>> /\ Tail(doing[p].writes) = SaveLeft1
      BY <1>9, <2>1 DEF SaveLeft2, SaveLeft1
    <2>4. Written(p, "tunnel", v, SaveLeft1)
      BY <1>1, <1>4, <2>3, WriteIs
    <2>5. Saved' /\ doing'[p].writes = SaveLeft1
      BY <1>4, <2>2, <2>4 DEF Written, Saved
    <2>6. Saving(p, t)'
      BY <2>5 DEF Saving
    <2> QED
      BY <1>1, <1>4, <1>9, <2>2, <2>4, <2>6, SaveStep
  <1>10. CASE doing[p].writes = SaveLeft1 /\ Saved
    <2>1. Head(doing[p].writes) = <<"pending", Missing>> /\ Tail(doing[p].writes) = <<>>
      BY <1>10 DEF SaveLeft1
    <2>2. Written(p, "pending", Missing, <<>>)
      BY <1>1, <1>4, <2>1, WriteIs
    <2>3. Saved' /\ doing'[p].writes = <<>>
      BY <1>4, <1>10, <2>2 DEF Written, Saved
    <2>4. Saving(p, t)'
      BY <2>3 DEF Saving
    <2> QED
      BY <1>1, <1>4, <1>10, <2>2, <2>4, SaveStep
  <1> QED
    BY <1>2, <1>5, <1>6, <1>7, <1>8, <1>9, <1>10

\* What a cut off removal and a crossed provision leave is noted for good.
LEMMA NotesStay ==
    ASSUME torn \in BOOLEAN, crossed \in BOOLEAN, ProfileNext
    PROVE  torn' \in BOOLEAN /\ crossed' \in BOOLEAN /\ (torn => torn')
  <1> USE DEF notes
  <1>1. ASSUME NEW p \in Process, Steps(p) \/ CreateUnheard(p) \/ Unheard(p) PROVE UNCHANGED <<torn, crossed>>
    BY <1>1 DEF Steps, Write, CreateTunnel, BindCertificate, Poll, Done, CreateUnheard, Unheard, Fault
  <1>2. ASSUME NEW p \in Process, Crash(p) PROVE torn' = (torn \/ doing[p].at = "wipe") /\ crossed' = crossed
    BY <1>2 DEF Crash
  <1>3. ASSUME Check PROVE torn' = torn /\ (crossed' = crossed \/ crossed' = (crossed \/ doing["service"] # Idle))
    BY <1>3 DEF Check
  <1>4. ASSUME Ensure \/ DeleteTunnel \/ Wiped \/ (\E f \in File : Wipe(f)) \/ Resume \/ Connect \/ Refresh \/ Remove
        PROVE  UNCHANGED <<torn, crossed>>
    BY <1>4 DEF Ensure, DeleteTunnel, Wiped, Wipe, Resume, Connect, Refresh, Remove
  <1>5. ASSUME NEW i \in live, Issue(i) \/ IssueLate(i) \/ IssueFails(i) \/ RenewedAt(i)
        PROVE  torn' = torn /\ (crossed' = crossed \/ crossed' = TRUE)
    BY <1>5 DEF Issue, IssueLate, IssueFails, RenewedAt, Fault
  <1>6. "user" \in Process /\ "service" \in Process
    BY DEF Process
  <1>7. \/ UNCHANGED <<torn, crossed>>
        \/ \E p \in Process : torn' = (torn \/ doing[p].at = "wipe") /\ crossed' = crossed
        \/ torn' = torn /\ (crossed' = crossed \/ crossed' = (crossed \/ doing["service"] # Idle) \/ crossed' = TRUE)
    BY <1>1, <1>2, <1>3, <1>4, <1>5, <1>6 DEF ProfileNext, UserWork, ServiceWork, IssueAny
  <1> QED
    BY <1>7

\* Every step of every process, of the API and of the service.
LEMMA ProfileKeeps ==
    ASSUME NEW t \in 0..MaxTunnels, NEW k \in Key, ProfileBody(t, k), ProfileNext, ~torn',
           torn \in BOOLEAN, crossed \in BOOLEAN
    PROVE  \E u \in 0..MaxTunnels, x \in Key : ProfileBody(u, x)'
  <1> DEFINE Kept == \E u \in 0..MaxTunnels, x \in Key : ProfileBody(u, x)'
  <1>1. ASSUME NEW p \in Process, Steps(p) PROVE Kept
    <2>1. ASSUME Write(p) PROVE ProfileBody(t, k)'
      <3>1. doing[p].at \in {"bind", "done"}
        BY <2>1 DEF ProfileBody, ProfileTypeOK, Write
      <3> QED
        BY <2>1, <3>1, PendingIsWritten, SaveIsWritten
    <2> QED
      BY <1>1, <2>1, CreateKeeps, BindKeeps, BindRefusedKeeps, PollKeeps, EndsKeep DEF Steps
  <1>2. ASSUME NEW p \in Process, CreateUnheard(p) \/ Unheard(p) PROVE Kept
    BY <1>2, EndsKeep
  <1>3. ASSUME NEW p \in Process, Crash(p) PROVE Kept
    BY <1>3, CrashKeeps
  <1>4. ASSUME Ensure \/ Resume \/ Connect \/ Refresh \/ Remove PROVE Kept
    BY <1>4, EnsureKeeps, ServiceStartsKeep, RefreshKeeps, RemoveKeeps
  <1>5. ASSUME Check PROVE Kept
    BY <1>5, CheckKeeps
  <1>6. ASSUME DeleteTunnel \/ Wiped \/ \E f \in File : Wipe(f) PROVE Kept
    BY <1>6, RemovalKeeps
  <1>7. ASSUME NEW i \in live, Issue(i) \/ IssueLate(i) \/ IssueFails(i) \/ RenewedAt(i) PROVE Kept
    BY <1>7, CertificateKeeps, IssueFailsKeeps
  <1>8. "user" \in Process /\ "service" \in Process
    BY DEF Process
  <1> HIDE DEF Kept
  <1>9. Kept
    BY <1>1, <1>2, <1>3, <1>4, <1>5, <1>6, <1>7, <1>8 DEF ProfileNext, UserWork, ServiceWork, IssueAny
  <1> QED
    BY <1>9 DEF Kept

\* The inductive invariant of a profile holds throughout.
LEMMA ProfileHolds == ProfileSpec => []ProfileInv
  <1>1. ProfileInit => ProfileInv
    <2> SUFFICES ASSUME ProfileInit PROVE ProfileInv
      OBVIOUS
    <2>1. \A p \in Process : doing[p] = Idle
      BY DEF ProfileInit
    <2>2. \A f \in File : disk[f] = Missing
      BY DEF ProfileInit
    <2>3. ~Saved /\ ~Pending /\ File = {"token", "key", "certificate", "chain", "tunnel", "pending"}
      BY <2>2 DEF Saved, Pending, File
    <2>4. \A t \in 1..MaxTunnels : bound[t] = Unbound
      BY DEF ProfileInit
    <2>5. Unbound \in [state : {"none", "issuing", "ready", "failed"}, csr : Key, certificate : Nat]
      BY Numbers DEF Unbound
    <2>6. Unbound.state = "none" /\ Unbound.certificate = 0
      BY DEF Unbound
    <2>7. bound \in Bindings
      BY <2>5 DEF ProfileInit, Bindings
    <2>8. ProfileTypeOK
      <3>1. \A p \in Process :
              /\ DOMAIN doing[p] = {"at", "id", "key", "writes"} /\ doing[p].key \in Key
              /\ doing[p].at \in {"idle", "create", "bind", "poll", "done", "check", "delete", "wipe"}
              /\ doing[p].at = "idle" => doing[p] = Idle
              /\ doing[p].at \notin {"bind", "done"} => doing[p].writes = <<>>
        BY <2>1, IdleIs
      <3>2. signed \in Seq(Key)
        BY DEF ProfileInit
      <3>3. made \in 0..MaxTunnels /\ keys \in Key /\ live \subseteq 1..made
        BY Numbers DEF ProfileInit
      <3> QED
        BY <2>2, <2>3, <2>7, <3>1, <3>2, <3>3 DEF ProfileTypeOK, ProfileInit
    <2>9. ServerKeeps
      BY <2>4, <2>6 DEF ServerKeeps
    <2>10. doing["user"].at = "idle" /\ doing["service"].at = "idle" /\ Process = {"user", "service"}
      BY <2>1, IdleIs DEF Process
    <2>11. ServiceWaits
      BY <2>10 DEF ServiceWaits, Works
    <2>12. OfTunnel(0)
      BY <2>3 DEF OfTunnel, ProfileInit
    <2>13. NoOther(0)
      BY DEF NoOther, ProfileInit
    <2>14. \A p \in Process : WorksOn(p, 0)
      BY <2>10 DEF WorksOn, Works
    <2>15. OneKey(0, 0)
      BY <2>3, <2>10, Numbers DEF OneKey, Works
    <2>16. ProfileBody(0, 0)
      BY <2>8, <2>9, <2>11, <2>12, <2>13, <2>14, <2>15 DEF ProfileBody
    <2>17. 0 \in 0..MaxTunnels /\ 0 \in Key
      BY Numbers
    <2>18. torn \in BOOLEAN /\ crossed \in BOOLEAN
      BY DEF ProfileInit
    <2> QED
      BY <2>16, <2>17, <2>18 DEF ProfileInv
  <1>2. ProfileInv /\ [ProfileNext]_profileVars => ProfileInv'
    <2>1. ASSUME ProfileInv, UNCHANGED profileVars PROVE ProfileInv'
      BY <2>1 DEF ProfileInv, profileVars, server, notes, ProfileBody, ProfileTypeOK, ServerKeeps, ServiceWaits,
         OfTunnel, NoOther, WorksOn, OneKey, Provisioning, Saving, Saved, Pending, Has
    <2>2. ASSUME ProfileInv, ProfileNext PROVE ProfileInv'
      <3>1. torn \in BOOLEAN /\ crossed \in BOOLEAN
        BY <2>2 DEF ProfileInv
      <3>2. torn' \in BOOLEAN /\ crossed' \in BOOLEAN /\ (torn => torn')
        BY <2>2, <3>1, NotesStay
      <3>3. ASSUME ~torn' PROVE \E u \in 0..MaxTunnels, x \in Key : ProfileBody(u, x)'
        <4>1. PICK t \in 0..MaxTunnels, k \in Key : ProfileBody(t, k)
          BY <2>2, <3>1, <3>2, <3>3 DEF ProfileInv
        <4> QED
          BY <2>2, <3>1, <3>3, <4>1, ProfileKeeps
      <3> QED
        BY <3>2, <3>3 DEF ProfileInv
    <2> QED
      BY <2>1, <2>2
  <1> QED
    BY <1>1, <1>2, PTL DEF ProfileSpec

\* For any number of tunnels, keys, crashes and lost answers: a saved tunnel has all its files and its own
\* token, and a pending one the key of its request, whoever died between two writes (save_pending and save
\* of storage.rs write the metadata last).
THEOREM FilesAreWhole == ProfileSpec => []Whole
  <1>1. ASSUME ProfileInv PROVE Whole
    <2>1. ASSUME ~Removing
          PROVE  /\ Saved => Complete(File \ {"pending"}) /\ disk["token"] = disk["tunnel"].id
                 /\ Pending /\ ~Saved => disk["token"] = disk["pending"].id /\ disk["key"] = disk["pending"].csr
      <3>1. PICK t \in 0..MaxTunnels, k \in Key : ProfileBody(t, k)
        BY <1>1, <2>1 DEF ProfileInv, Removing
      <3>2. OfTunnel(t)
        BY <2>1, <3>1 DEF ProfileBody, Removing
      <3>3. t # Missing
        BY Numbers, NotMissing
      <3>4. Saved => Complete(File \ {"pending"})
        BY <3>2, <3>3 DEF OfTunnel, Complete, File, Has, Saved
      <3> QED
        BY <3>2, <3>4 DEF OfTunnel
    <2> QED
      BY <2>1 DEF Whole
  <1> QED
    BY <1>1, ProfileHolds, PTL

\* A tunnel the API has is on disk, or on its way there, or one nobody was told of: creating, dying and
\* removing in any order loses no other (create and remove of client.rs).
THEOREM NoTunnelIsLost == ProfileSpec => []NoneLost
  <1>1. ASSUME ProfileInv PROVE NoneLost
    <2>1. ASSUME ~Removing, NEW i \in live \ left
          PROVE  \/ (Saved /\ disk["tunnel"].id = i) \/ (Pending /\ disk["pending"].id = i)
                 \/ \E p \in Process : doing[p].at \in {"bind", "wipe"} /\ doing[p].id = i
      <3>1. PICK t \in 0..MaxTunnels, k \in Key : ProfileBody(t, k)
        BY <1>1, <2>1 DEF ProfileInv, Removing
      <3>2. OfTunnel(t) /\ NoOther(t) /\ \A p \in Process : WorksOn(p, t)
        BY <2>1, <3>1 DEF ProfileBody, Removing
      <3> QED
        BY <2>1, <3>2 DEF OfTunnel, NoOther, WorksOn, Works
    <2> QED
      BY <2>1 DEF NoneLost
  <1> QED
    BY <1>1, ProfileHolds, PTL

\* The certificate the API has, once saved, is for the key on disk, whichever process saved it after
\* whichever requested it (provision, complete and ensure of client.rs, refresh_certificate of tunnel.rs).
THEOREM CertificateFits == ProfileSpec => []Fits
  <1>1. ASSUME ProfileInv PROVE Fits
    <2>1. ASSUME Saved, ~Removing, ~crossed, bound[disk["tunnel"].id].certificate = disk["certificate"]
          PROVE  signed[disk["certificate"]] = disk["key"]
      <3>1. PICK t \in 0..MaxTunnels, k \in Key : ProfileBody(t, k)
        BY <1>1, <2>1 DEF ProfileInv, Removing
      <3>2. ProfileTypeOK /\ ServerKeeps /\ OfTunnel(t) /\ OneKey(t, k) /\ doing["user"].at # "wipe"
        BY <2>1, <3>1 DEF ProfileBody, Removing
      <3>3. disk["tunnel"].id = t /\ t \in 1..MaxTunnels /\ disk["certificate"] \in Certificate
        BY <2>1, <3>2 DEF OfTunnel, ProfileTypeOK, Has, Saved
      <3>4. bound[t].state = "ready" /\ bound[t].csr = k /\ signed[disk["certificate"]] = k
        BY <2>1, <3>2, <3>3 DEF ServerKeeps, OneKey, Certificate
      <3>5. disk["key"] = k
        BY <2>1, <3>2, <3>4, PendingIsLeft DEF OneKey
      <3> QED
        BY <3>4, <3>5
    <2> QED
      BY <2>1 DEF Fits
  <1> QED
    BY <1>1, ProfileHolds, PTL
=============================================================================
