---------------------------- MODULE PublicProofs ----------------------------
(***************************************************************************)
(* Proofs about the public side of the machines: the cached record of      *)
(* Routing, the drain of Shutdown, and the nonces of PeerAuth.             *)
(***************************************************************************)
EXTENDS Routing, Shutdown, PeerAuth, FiniteSetTheorems, SequenceTheorems, TLAPS

-----------------------------------------------------------------------------
(* Shutdown. *)

ShutdownTypeOK ==
    /\ main \in {"serving", "stopped", "left", "waiting", "closing", "released", "exited"}
    /\ entries \subseteq Tunnel
    /\ drainer \in [step : {"off", "begin", "collect", "tell", "done"},
                    entries : SUBSET Tunnel, bridges : SUBSET Session]
    /\ session \in [Session -> {"new", "registering", "registered", "told", "gone"}]
    /\ connection \in [Connection -> {"none", "handshake", "idle", "busy", "kept", "closed"}]

\* A bridge that is not told yet is still ahead of the drain: its entry is to be looked at, or it was
\* collected.  Whoever registers after the flag is told at once.
AheadOfDrain ==
    /\ \A s \in Session : session[s] \in {"registering", "registered"} => Of[s] \in entries
    /\ drainer.step \in {"collect", "tell", "done"} => draining = TRUE
    /\ drainer.step = "collect" =>
         \A s \in Session : session[s] = "registered" => Of[s] \in drainer.entries \/ s \in drainer.bridges
    /\ drainer.step = "tell" => \A s \in Session : session[s] = "registered" => s \in drainer.bridges
    /\ DrainsAll

\* A connection that came during the drain and has its task knows that it did.
ComersAreLate ==
    /\ \A c \in comers : main \in {"waiting", "closing", "released", "exited"}
    /\ main = "exited" => \A c \in Connection : connection[c] = "closed"
    /\ \A c \in comers \intersect Connection : connection[c] = "idle" => c \in late
    /\ \A c \in cutShort : c \in Connection /\ connection[c] = "closed"
    /\ FirstRequestServed

ShutdownInv == ShutdownTypeOK /\ AheadOfDrain /\ ComersAreLate

\* run's next step after each.
LEMMA AfterValues ==
    /\ After["serving"] = "stopped" /\ After["stopped"] = "left" /\ After["left"] = "waiting"
    /\ After["waiting"] = "closing" /\ After["closing"] = "released" /\ After["released"] = "exited"
  BY DEF After

\* The steps of run.
LEMMA RunKeeps ==
    ASSUME ShutdownInv, Signal \/ Run
    PROVE  ShutdownInv'
  <1> USE AfterValues DEF ShutdownInv, ShutdownTypeOK, AheadOfDrain, ComersAreLate, DrainsAll,
                          FirstRequestServed, Closing
  <1>1. CASE Signal
    BY <1>1 DEF Signal
  <1>2. CASE LeaveMesh
    BY <1>2 DEF LeaveMesh
  <1>3. CASE StartDrain
    BY <1>3 DEF StartDrain
  <1>4. CASE StopListening
    BY <1>4 DEF StopListening
  <1>5. CASE Release
    BY <1>5 DEF Release
  <1>6. CASE Exit
    BY <1>6 DEF Exit, Resting
  <1> QED
    BY <1>1, <1>2, <1>3, <1>4, <1>5, <1>6 DEF Run

\* The steps of drain.
LEMMA DrainKeeps ==
    ASSUME ShutdownInv, Drain
    PROVE  ShutdownInv'
  <1> USE DEF ShutdownInv, ShutdownTypeOK, AheadOfDrain, ComersAreLate, DrainsAll,
              FirstRequestServed, Closing
  <1>1. CASE Flag
    BY <1>1 DEF Flag
  <1>2. ASSUME NEW t \in Tunnel, CollectEntry(t)
        PROVE  ShutdownInv'
    BY <1>2 DEF CollectEntry
  <1>3. CASE Collected
    BY <1>3 DEF Collected
  <1>4. ASSUME NEW s \in Session, TellBridge(s)
        PROVE  ShutdownInv'
    BY <1>4 DEF TellBridge
  <1>5. CASE Drained
    BY <1>5 DEF Drained
  <1> QED
    BY <1>1, <1>2, <1>3, <1>4, <1>5 DEF Drain

\* Bridges that register and go.
LEMMA BridgesKeep ==
    ASSUME ShutdownInv, NEW s \in Session, BeginRegister(s) \/ EndRegister(s) \/ Unregister(s)
    PROVE  ShutdownInv'
  <1> USE ShutdownAssumption DEF ShutdownInv, ShutdownTypeOK, AheadOfDrain, ComersAreLate, DrainsAll,
                                 FirstRequestServed, Closing
  <1>1. CASE BeginRegister(s)
    BY <1>1 DEF BeginRegister
  <1>2. CASE EndRegister(s)
    BY <1>2 DEF EndRegister
  <1>3. CASE Unregister(s)
    BY <1>3 DEF Unregister
  <1> QED
    BY <1>1, <1>2, <1>3

\* API connections.
LEMMA ConnectionsKeep ==
    ASSUME ShutdownInv, NEW c \in Connection,
           Accept(c) \/ Serve(c) \/ RequestArrives(c) \/ Respond(c) \/ CloseIdle(c) \/ Hangup(c)
    PROVE  ShutdownInv'
  <1> USE DEF ShutdownInv, ShutdownTypeOK, AheadOfDrain, ComersAreLate, DrainsAll, FirstRequestServed,
              Closing, Asked, Gone
  <1>1. CASE Accept(c)
    BY <1>1 DEF Accept, Listening
  <1>2. CASE Serve(c)
    BY <1>2 DEF Serve
  <1>3. CASE RequestArrives(c)
    BY <1>3 DEF RequestArrives
  <1>4. CASE Respond(c)
    BY <1>4 DEF Respond
  <1>5. CASE CloseIdle(c)
    BY <1>5 DEF CloseIdle, AskedToClose
  <1>6. CASE Hangup(c)
    BY <1>6 DEF Hangup
  <1> QED
    BY <1>1, <1>2, <1>3, <1>4, <1>5, <1>6

\* For any number of tunnels, bridges and API connections: when the drain is done no bridge is left
\* that was not told, though bridges register all along, and a connection that comes during it is
\* closed before its first request only at the end (drain of service.rs, serve_connection of http.rs).
THEOREM DrainIsGraceful == ShutdownSpec => []DrainsGracefully
  <1>1. ShutdownInit => ShutdownInv
    BY DEF ShutdownInit, ShutdownInv, ShutdownTypeOK, AheadOfDrain, ComersAreLate, DrainsAll,
           FirstRequestServed, Resting
  <1>2. ShutdownInv /\ [ShutdownNext]_shutdownVars => ShutdownInv'
    <2>1. ASSUME ShutdownInv, UNCHANGED shutdownVars PROVE ShutdownInv'
      BY <2>1 DEF shutdownVars, ShutdownInv, ShutdownTypeOK, AheadOfDrain, ComersAreLate, DrainsAll,
                  FirstRequestServed, Closing
    <2> QED
      BY <2>1, RunKeeps, DrainKeeps, BridgesKeep, ConnectionsKeep DEF ShutdownNext
  <1>3. ShutdownInv => DrainsGracefully
    BY DEF ShutdownInv, AheadOfDrain, ComersAreLate, DrainsGracefully
  <1> QED
    BY <1>1, <1>2, <1>3, PTL DEF ShutdownSpec

-----------------------------------------------------------------------------
(* Routing. *)

Rows == {"missing", "pending", "ready"}

RoutingTypeOK ==
    /\ row \in Rows /\ record \in Rows \union {"none"}
    /\ known \in Nat /\ generation \in Nat /\ known <= generation
    /\ reading \in [kind : {"no", "lock", "refresh"}, answer : Rows \union {"none"}, generation : Nat]
    /\ reading.generation <= generation
    /\ reading.kind = "no" => reading = NotReading
    /\ stale \in BOOLEAN /\ old \in BOOLEAN /\ raced \in BOOLEAN
    /\ notices \in Seq({"link_up", "changed"})
    /\ queue \in [Peer -> {"none", "new", "read"}]
    /\ telling \subseteq Peer /\ carries \subseteq Peer

\* An answer that is not final and not what the row says.
Behind(answer) == answer \in {"missing", "pending"} /\ answer # row

\* What a read has got and not recorded yet is behind only if it will not be trusted, or the edge is
\* still to be told: the entry's lock keeps `expire` waiting until the answer is recorded.
ReadFollows ==
    Behind(reading.answer) =>
        \/ Awaited \/ unheard
        \/ reading.kind = "refresh" /\ reading.generation < generation
        \/ reading.kind = "lock" /\ raced

RoutingInv == RoutingTypeOK /\ ReadFollows /\ CacheFollows

\* Steps that leave the row, the entry and what is on its way alone.
LEMMA RoutingRest ==
    ASSUME RoutingInv, UNCHANGED <<row, telling, unheard, cache, notices, queue, carries>>
    PROVE  RoutingInv'
  BY DEF RoutingInv, RoutingTypeOK, ReadFollows, CacheFollows, Behind, Awaited, Trusts, cache

\* The entry lock is free: nothing is read.
LEMMA NotReadingIs ==
    /\ NotReading \in [kind : {"no", "lock", "refresh"}, answer : Rows \union {"none"}, generation : Nat]
    /\ NotReading.kind = "no" /\ NotReading.answer = "none" /\ NotReading.generation = 0
  BY DEF NotReading

\* What is told is appended, and taken from the head.
LEMMA NoticesQueue ==
    ASSUME NEW S, NEW s \in Seq(S)
    PROVE  /\ \A e \in S : Append(s, e) \in Seq(S) /\ Append(s, e) # <<>>
           /\ s # <<>> => Tail(s) \in Seq(S) /\ Head(s) \in S
  BY AppendProperties, HeadTailProperties

\* A save elsewhere, and its announcement.
LEMMA SavesFollow ==
    ASSUME RoutingInv, NEW p \in Peer, SaveAt(p) \/ Announce(p)
    PROVE  RoutingInv'
  <1> USE DEF RoutingInv, RoutingTypeOK, ReadFollows, CacheFollows, Behind, Awaited, Trusts, Rows, cache
  <1>1. CASE SaveAt(p)
    BY <1>1 DEF SaveAt, Changed, mesh
  <1>2. CASE Announce(p)
    BY <1>2 DEF Announce
  <1> QED
    BY <1>1, <1>2

\* A save here, and the client attached here: the entry becomes the row, under its lock.
LEMMA ChangesHereFollow ==
    ASSUME RoutingInv, SaveHere \/ AttachHere
    PROVE  RoutingInv'
  <1>1. /\ reading = NotReading /\ UNCHANGED <<reading, generation, expiring, telling, unheard, mesh>>
        /\ row' \in Rows /\ record' = row' /\ known' = generation
        /\ stale' \in BOOLEAN /\ old' \in BOOLEAN /\ raced' \in BOOLEAN
    BY DEF RoutingInv, RoutingTypeOK, SaveHere, AttachHere, Changed, Unlocked, Rows
  <1>2. RoutingTypeOK'
    BY <1>1, NotReadingIs DEF RoutingInv, RoutingTypeOK, mesh
  <1>3. ReadFollows' /\ CacheFollows'
    BY <1>1, NotReadingIs DEF ReadFollows, CacheFollows, Behind
  <1> QED
    BY <1>2, <1>3 DEF RoutingInv

\* Links that come up, break, and carry events.
LEMMA LinksFollow ==
    ASSUME RoutingInv, NEW p \in Peer, Subscribe(p) \/ LinkUp(p) \/ Break(p) \/ Hear(p)
    PROVE  RoutingInv'
  <1> USE DEF RoutingInv, RoutingTypeOK, ReadFollows, CacheFollows, Behind, Awaited, Trusts, cache
  <1>1. CASE Subscribe(p)
    BY <1>1 DEF Subscribe
  <1>2. CASE LinkUp(p)
    <2>1. notices' \in Seq({"link_up", "changed"}) /\ notices' # <<>>
      BY <1>2, NoticesQueue DEF LinkUp
    <2> QED
      BY <1>2, <2>1 DEF LinkUp
  <1>3. CASE Break(p)
    BY <1>3 DEF Break
  <1>4. CASE Hear(p)
    <2>1. notices' \in Seq({"link_up", "changed"}) /\ notices' # <<>>
      BY <1>4, NoticesQueue DEF Hear
    <2> QED
      BY <1>4, <2>1 DEF Hear
  <1> QED
    BY <1>1, <1>2, <1>3, <1>4

\* The edge acts on what it was told: the entry is stale, or of an earlier generation.
LEMMA NoticesFollow ==
    ASSUME RoutingInv, Notice \/ Expire
    PROVE  RoutingInv'
  <1> USE NotReadingIs DEF RoutingInv, RoutingTypeOK, ReadFollows, CacheFollows, Behind, Awaited, Trusts
  <1>1. CASE Notice
    <2>1. notices' \in Seq({"link_up", "changed"})
      BY <1>1, NoticesQueue DEF Notice
    <2>2. CASE Head(notices) = "changed"
      <3>1. expiring' = TRUE /\ UNCHANGED <<generation, raced>>
        BY <1>1, <2>2 DEF Notice
      <3> QED
        BY <1>1, <2>1, <3>1 DEF Notice
    <2>3. CASE Head(notices) # "changed"
      <3>1. generation' = generation + 1 /\ raced' = (raced \/ reading.kind = "lock") /\ UNCHANGED expiring
        BY <1>1, <2>3 DEF Notice
      <3>2. /\ UNCHANGED <<row, telling, unheard, record, stale, old, known, reading, queue, carries>>
            /\ raced' \in BOOLEAN
        BY <1>1, <3>1 DEF Notice
      <3>3. RoutingTypeOK'
        BY <2>1, <3>1, <3>2
      <3>4. ~(record \in {"missing", "pending"} /\ Trusts')
        BY <3>1, <3>2
      <3>5. Behind(reading.answer)' => reading.kind = "lock" \/ reading.kind = "refresh"
        BY <3>2
      <3>6. reading.kind = "lock" => raced'
        BY <3>1
      <3>7. reading'.generation < generation'
        BY <3>1, <3>2
      <3>8. ReadFollows'
        BY <3>2, <3>5, <3>6, <3>7
      <3> QED
        BY <3>2, <3>3, <3>4, <3>8
    <2> QED
      BY <2>2, <2>3
  <1>2. CASE Expire
    BY <1>2 DEF Expire, mesh, Unlocked
  <1> QED
    BY <1>1, <1>2

\* The entry is read, grows old and is collected.
LEMMA ReadsFollow ==
    ASSUME RoutingInv, BeginRead \/ Query \/ EndRead \/ ReadFails \/ Age \/ Collect
    PROVE  RoutingInv'
  <1> USE NotReadingIs DEF RoutingInv, RoutingTypeOK, ReadFollows, CacheFollows, Behind, Awaited, Trusts,
                           Rows, mesh, Unlocked
  <1>1. CASE BeginRead
    <2>1. /\ reading'.answer = "none" /\ reading'.generation \in Nat /\ reading'.generation <= generation
          /\ reading'.kind # "no"
          /\ reading' \in [kind : {"no", "lock", "refresh"}, answer : Rows \union {"none"}, generation : Nat]
      BY <1>1 DEF BeginRead, Reads
    <2> QED
      BY <1>1, <2>1 DEF BeginRead
  <1>2. CASE Query
    <2>1. /\ reading'.answer = row /\ reading'.generation = reading.generation
          /\ reading'.kind = reading.kind
          /\ reading' \in [kind : {"no", "lock", "refresh"}, answer : Rows \union {"none"}, generation : Nat]
      BY <1>2 DEF Query
    <2>2. reading.kind # "no"
      BY <1>2 DEF Query
    <2> QED
      BY <1>2, <2>1, <2>2 DEF Query
  <1>3. CASE EndRead
    <2>1. raced' = (raced /\ reading.kind = "lock") /\ raced' \in BOOLEAN
      BY <1>3 DEF EndRead
    <2>2. /\ reading' = NotReading /\ UNCHANGED <<generation, notices, queue, telling, carries, row>>
          /\ stale' \in BOOLEAN /\ old' \in BOOLEAN
      BY <1>3 DEF EndRead
    <2>3. known' \in Nat /\ known' <= generation
      BY <1>3 DEF EndRead
    <2>4. record' \in Rows
      BY <1>3 DEF EndRead
    <2>5. RoutingTypeOK'
      BY <2>1, <2>2, <2>3, <2>4
    <2>6. CacheFollows'
      BY <1>3, <2>1 DEF EndRead
    <2> QED
      BY <1>3, <2>5, <2>6 DEF EndRead
  <1>4. CASE ReadFails
    <2>1. raced' = (raced /\ record # "none") /\ raced' \in BOOLEAN
      BY <1>4 DEF ReadFails
    <2> QED
      BY <1>4, <2>1 DEF ReadFails
  <1>5. CASE Age
    BY <1>5 DEF Age
  <1>6. CASE Collect
    BY <1>6 DEF Collect
  <1> QED
    BY <1>1, <1>2, <1>3, <1>4, <1>5, <1>6

\* For any number of machines, faults and moves of the client: what lock_routable trusts is the row,
\* unless the edge is still to be told, nobody was, or a link came up during an entry's first read.
THEOREM CachedAnswersFollow == RoutingSpec => []CacheFollows
  <1>1. RoutingInit => RoutingInv
    <2> SUFFICES ASSUME RoutingInit PROVE RoutingInv
      OBVIOUS
    <2>1. RoutingTypeOK
      <3>1. stale \in BOOLEAN /\ old \in BOOLEAN /\ raced \in BOOLEAN
        BY DEF RoutingInit
      <3> QED
        BY <3>1, NotReadingIs DEF RoutingInit, RoutingTypeOK, Rows
    <2>2. ReadFollows /\ CacheFollows
      BY NotReadingIs DEF RoutingInit, ReadFollows, CacheFollows, Behind
    <2> QED
      BY <2>1, <2>2 DEF RoutingInv
  <1>2. RoutingInv /\ [RoutingNext]_routingVars => RoutingInv'
    <2> SUFFICES ASSUME RoutingInv, [RoutingNext]_routingVars PROVE RoutingInv'
      OBVIOUS
    <2> USE DEF cache, mesh, client, serving
    <2>1. CASE UNCHANGED routingVars
      BY <2>1, RoutingRest DEF routingVars
    <2>2. CASE Background
      <3>1. ASSUME NEW p \in Peer, AttachAt(p) \/ LinkDown(p) \/ Learn(p)
            PROVE  RoutingInv'
        BY <3>1, RoutingRest DEF AttachAt, LinkDown, Learn
      <3> QED
        BY <2>2, <3>1, SavesFollow, ChangesHereFollow, LinksFollow, NoticesFollow DEF Background
    <2>3. CASE VisitorSteps
      <3>1. CASE Arrive \/ TrustRecord \/ Route \/ Forward \/ Opened \/ Leave
        BY <3>1, RoutingRest DEF Arrive, TrustRecord, Route, Forward, Opened, Leave
      <3> QED
        BY <2>3, <3>1, ReadsFollow DEF VisitorSteps
    <2>4. CASE Age \/ Collect \/ ReadFails
      BY <2>4, ReadsFollow
    <2>5. CASE Detach \/ OpenFails
      BY <2>5, RoutingRest DEF Detach, OpenFails
    <2>6. ASSUME NEW p \in Peer, PeerSteps(p)
          PROVE  RoutingInv'
      BY <2>6, RoutingRest DEF PeerSteps, Answer, ForwardedEnds
    <2>7. ASSUME NEW p \in Peer, Break(p)
          PROVE  RoutingInv'
      BY <2>7, LinksFollow
    <2> QED
      BY <2>1, <2>2, <2>3, <2>4, <2>5, <2>6, <2>7 DEF RoutingNext
  <1>3. RoutingInv => CacheFollows
    BY DEF RoutingInv
  <1> QED
    BY <1>1, <1>2, <1>3, PTL DEF RoutingSpec

-----------------------------------------------------------------------------
(* PeerAuth. *)

\* A table holds timestamps of signed requests for its machine, one for each nonce; nonces are numbered.
AuthTypeOK ==
    /\ clock \in Nat
    /\ \E n \in Nat : DOMAIN requests = 1..n
    /\ \A q \in DOMAIN requests : requests[q].to \in Receiver /\ requests[q].at \in Int
    /\ DOMAIN seen = Receiver
    /\ \A m \in Receiver : \A q \in DOMAIN seen[m] :
         /\ q \in DOMAIN requests /\ requests[q].to = m
         /\ seen[m][q] = requests[q].at /\ seen[m][q] <= clock + MAX_SKEW_MS

\* What was accepted is in its machine's table, was forgotten while it was fresh, or is not fresh any more.
Remembered ==
    \A q \in accepted :
        /\ q \in DOMAIN requests
        /\ \/ q \in DOMAIN seen[requests[q].to] \/ q \in forgot
           \/ requests[q].at < clock - MAX_SKEW_MS

AuthInv == AuthTypeOK /\ Remembered /\ AcceptedOnce

\* first_use only ever drops from the table, and changes no timestamp.
LEMMA RoomDrops ==
    ASSUME NEW nonces, NEW now
    PROVE  /\ DOMAIN Room(nonces, now) \subseteq DOMAIN nonces
           /\ \A q \in DOMAIN Room(nonces, now) : Room(nonces, now)[q] = nonces[q]
           /\ DOMAIN Kept(nonces, now) = {q \in DOMAIN nonces : nonces[q] >= now - MAX_SKEW_MS}
  <1> DEFINE kept == Kept(nonces, now)
  <1>1. /\ DOMAIN kept = {q \in DOMAIN nonces : nonces[q] >= now - MAX_SKEW_MS}
        /\ \A q \in DOMAIN kept : kept[q] = nonces[q]
    BY DEF Kept, Restrict
  <1>2. /\ DOMAIN NewerHalf(kept) \subseteq DOMAIN kept
        /\ \A q \in DOMAIN NewerHalf(kept) : NewerHalf(kept)[q] = kept[q]
    BY DEF NewerHalf, Restrict
  <1>3. Room(nonces, now) \in {nonces, kept, NewerHalf(kept)}
    BY DEF Room
  <1> HIDE DEF kept
  <1>4. DOMAIN kept \subseteq DOMAIN nonces
    BY <1>1
  <1> QED
    BY <1>1, <1>2, <1>3, <1>4 DEF kept

\* sign: the nonce is a new one.
LEMMA SignKeeps ==
    ASSUME AuthInv, NEW m \in Receiver, NEW stamp \in Int, Sign(m, stamp)
    PROVE  AuthInv'
  <1>1. PICK n \in Nat : DOMAIN requests = 1..n
    BY DEF AuthInv, AuthTypeOK
  <1>2. Cardinality(DOMAIN requests) = n
    BY <1>1, FS_Interval, 1 \in Int, n \in Int
  <1>3. /\ DOMAIN requests' = 1..(n + 1) /\ requests'[n + 1] = [to |-> m, at |-> stamp]
        /\ \A q \in DOMAIN requests : requests'[q] = requests[q]
        /\ UNCHANGED <<clock, seen, accepted, twice, forgot>>
    BY <1>1, <1>2 DEF Sign
  <1>4. DOMAIN requests \subseteq DOMAIN requests' /\ DOMAIN requests' = DOMAIN requests \union {n + 1}
    BY <1>1, <1>3
  <1>5. ASSUME NEW q \in DOMAIN requests'
        PROVE  requests'[q].to \in Receiver /\ requests'[q].at \in Int
    <2>1. CASE q = n + 1
      BY <1>3, <2>1
    <2>2. CASE q \in DOMAIN requests
      BY <1>3, <2>2 DEF AuthInv, AuthTypeOK
    <2> QED
      BY <1>4, <2>1, <2>2
  <1>6. AuthTypeOK'
    <2>1. n + 1 \in Nat
      OBVIOUS
    <2>2. ASSUME NEW k \in Receiver, NEW q \in DOMAIN seen[k]
          PROVE  /\ q \in DOMAIN requests' /\ requests'[q].to = k
                 /\ seen[k][q] = requests'[q].at /\ seen[k][q] <= clock + MAX_SKEW_MS
      <3>1. /\ q \in DOMAIN requests /\ requests[q].to = k
            /\ seen[k][q] = requests[q].at /\ seen[k][q] <= clock + MAX_SKEW_MS
        BY DEF AuthInv, AuthTypeOK
      <3>2. requests'[q] = requests[q]
        BY <1>3, <3>1
      <3> QED
        BY <1>4, <3>1, <3>2
    <2>3. clock \in Nat /\ DOMAIN seen = Receiver
      BY DEF AuthInv, AuthTypeOK
    <2> QED
      BY <1>3, <1>5, <2>1, <2>2, <2>3 DEF AuthTypeOK
  <1>7. Remembered' /\ AcceptedOnce'
    BY <1>3, <1>4 DEF AuthInv, Remembered, AcceptedOnce
  <1> QED
    BY <1>6, <1>7 DEF AuthInv

\* verify: what it drops is not fresh or counts as forgotten, and what it accepts it remembers.
LEMMA ReceiveKeeps ==
    ASSUME AuthInv, NEW r \in Request, NEW m \in Receiver, Receive(r, m)
    PROVE  AuthInv'
  <1> DEFINE room == Room(seen[m], clock)
             fresh == {q \in DOMAIN seen[m] : seen[m][q] >= clock - MAX_SKEW_MS}
  <1>1. /\ DOMAIN room \subseteq DOMAIN seen[m] /\ \A q \in DOMAIN room : room[q] = seen[m][q]
        /\ DOMAIN Kept(seen[m], clock) = fresh
    BY RoomDrops
  <1>2. /\ r \in DOMAIN requests /\ requests[r].to = m
        /\ requests[r].at \in Int /\ requests[r].at >= clock - MAX_SKEW_MS
        /\ requests[r].at <= clock + MAX_SKEW_MS
    BY PeerAuthAssumption DEF Receive, ForMe, Fresh, AuthInv, AuthTypeOK
  <1>3. forgot' = forgot \union (fresh \ DOMAIN room) /\ UNCHANGED <<clock, requests>>
    BY <1>1 DEF Receive
  <1>4. /\ DOMAIN seen' = Receiver /\ \A k \in Receiver \ {m} : seen'[k] = seen[k]
        /\ DOMAIN seen'[m] = DOMAIN room \union {r}
        /\ \A q \in DOMAIN seen'[m] : seen'[m][q] = IF q = r THEN requests[r].at ELSE seen[m][q]
    <2> USE DEF AuthInv, AuthTypeOK
    <2>1. CASE r \in DOMAIN room
      <3>1. seen' = [seen EXCEPT ![m] = room]
        BY <2>1 DEF Receive
      <3>2. seen[m][r] = requests[r].at
        BY <1>1, <2>1
      <3> HIDE DEF room
      <3> QED
        BY <1>1, <2>1, <3>1, <3>2
    <2>2. CASE r \notin DOMAIN room
      <3>1. seen' = [seen EXCEPT ![m] = [q \in DOMAIN room \union {r} |-> IF q = r THEN requests[r].at ELSE room[q]]]
        BY <2>2 DEF Receive
      <3> HIDE DEF room
      <3> QED
        BY <1>1, <2>2, <3>1
    <2> QED
      BY <2>1, <2>2
  <1>5. AuthTypeOK'
    <2> HIDE DEF room
    <2>1. ASSUME NEW k \in Receiver, NEW q \in DOMAIN seen'[k]
          PROVE  /\ q \in DOMAIN requests /\ requests[q].to = k
                 /\ seen'[k][q] = requests[q].at /\ seen'[k][q] <= clock + MAX_SKEW_MS
      <3>1. CASE k # m
        BY <1>4, <2>1, <3>1 DEF AuthInv, AuthTypeOK
      <3>2. CASE k = m /\ q = r
        BY <1>2, <1>4, <3>2
      <3>3. CASE k = m /\ q # r
        <4>1. q \in DOMAIN seen[m] /\ seen'[m][q] = seen[m][q]
          BY <1>1, <1>4, <2>1, <3>3
        <4> QED
          BY <3>3, <4>1 DEF AuthInv, AuthTypeOK
      <3> QED
        BY <3>1, <3>2, <3>3
    <2>2. clock \in Nat /\ (\E n \in Nat : DOMAIN requests = 1..n)
          /\ \A q \in DOMAIN requests : requests[q].to \in Receiver /\ requests[q].at \in Int
      BY DEF AuthInv, AuthTypeOK
    <2> QED
      BY <1>3, <1>4, <2>1, <2>2 DEF AuthTypeOK
  <1>6. accepted' \subseteq accepted \union {r}
    BY DEF Receive, SenderUnlinked
  <1>7. Remembered'
    <2> SUFFICES ASSUME NEW q \in accepted'
                 PROVE  /\ q \in DOMAIN requests
                        /\ \/ q \in DOMAIN seen'[requests[q].to] \/ q \in forgot'
                           \/ requests[q].at < clock - MAX_SKEW_MS
      BY <1>3 DEF Remembered
    <2>1. CASE q = r
      BY <1>2, <1>4, <2>1
    <2>2. CASE q # r /\ requests[q].to # m
      BY <1>3, <1>4, <1>6, <2>2 DEF AuthInv, AuthTypeOK, Remembered
    <2>3. CASE q # r /\ requests[q].to = m
      <3>1. q \in DOMAIN requests /\ requests[q].at \in Int /\ clock - MAX_SKEW_MS \in Int
        BY <1>6, <2>3, PeerAuthAssumption DEF AuthInv, AuthTypeOK, Remembered
      <3>2. CASE q \in DOMAIN seen[m]
        <4>1. seen[m][q] = requests[q].at
          BY <3>2 DEF AuthInv, AuthTypeOK
        <4>2. q \in DOMAIN room \/ q \notin fresh \/ q \in forgot'
          BY <1>3
        <4> QED
          BY <1>4, <2>3, <3>1, <3>2, <4>1, <4>2
      <3> QED
        BY <1>3, <1>6, <2>3, <3>1, <3>2 DEF AuthInv, Remembered
    <2> QED
      BY <2>1, <2>2, <2>3
  <1>8. AcceptedOnce'
    <2>1. CASE twice' = twice
      BY <1>3, <2>1 DEF AuthInv, AcceptedOnce
    <2>2. CASE twice' = twice \union (accepted \intersect {r}) /\ r \notin DOMAIN room
      <3>1. r \in accepted => r \in DOMAIN seen[m] \/ r \in forgot
        BY <1>2, PeerAuthAssumption DEF AuthInv, AuthTypeOK, Remembered
      <3>2. r \in DOMAIN seen[m] => r \in fresh
        BY <1>2 DEF AuthInv, AuthTypeOK
      <3> QED
        BY <1>3, <2>2, <3>1, <3>2 DEF AuthInv, AcceptedOnce
    <2> QED
      BY <2>1, <2>2 DEF Receive, SenderUnlinked
  <1> QED
    BY <1>5, <1>7, <1>8 DEF AuthInv

\* For any number of machines, requests and restarts, whatever the size of the table and the skew allowed:
\* a request is accepted twice only when its nonce was forgotten while it was fresh, by a restart or by a
\* table that fresh ones filled (verify and Nonces::first_use of peer_auth.rs).
THEOREM RequestsAcceptedOnce == AuthSpec => []AcceptedOnce
  <1>1. AuthInit => AuthInv
    <2> SUFFICES ASSUME AuthInit PROVE AuthInv
      OBVIOUS
    <2>1. DOMAIN requests = 1..0 /\ 0 \in Nat
      BY DEF AuthInit
    <2> QED
      BY <2>1 DEF AuthInit, AuthInv, AuthTypeOK, Remembered, AcceptedOnce
  <1>2. AuthInv /\ [AuthNext]_authVars => AuthInv'
    <2> SUFFICES ASSUME AuthInv, [AuthNext]_authVars PROVE AuthInv'
      OBVIOUS
    <2>1. CASE UNCHANGED authVars
      BY <2>1 DEF authVars, AuthInv, AuthTypeOK, Remembered, AcceptedOnce
    <2>2. CASE Tick
      BY <2>2, PeerAuthAssumption DEF Tick, AuthInv, AuthTypeOK, Remembered, AcceptedOnce
    <2>3. ASSUME NEW m \in Receiver, Forget(m)
          PROVE  AuthInv'
      <3>1. /\ DOMAIN seen' = Receiver /\ \A k \in Receiver \ {m} : seen'[k] = seen[k]
            /\ DOMAIN seen'[m] = {} /\ UNCHANGED <<clock, requests, accepted, twice>>
            /\ forgot' = forgot \union {q \in DOMAIN seen[m] : Fresh(seen[m][q], clock)}
        BY <2>3 DEF Forget, AuthInv, AuthTypeOK
      <3>2. \A q \in DOMAIN seen[m] : q \in forgot' \/ requests[q].at < clock - MAX_SKEW_MS
        BY <3>1, PeerAuthAssumption DEF AuthInv, AuthTypeOK, Fresh
      <3>3. AuthTypeOK'
        BY <3>1 DEF AuthInv, AuthTypeOK
      <3>4. Remembered' /\ AcceptedOnce'
        BY <3>1, <3>2 DEF AuthInv, AuthTypeOK, Remembered, AcceptedOnce
      <3> QED
        BY <3>3, <3>4 DEF AuthInv
    <2>4. ASSUME NEW m \in Receiver, NEW skew \in {-1, 1}, Sign(m, clock + skew)
          PROVE  AuthInv'
      <3>1. clock + skew \in Int
        BY DEF AuthInv, AuthTypeOK
      <3> QED
        BY <2>4, <3>1, SignKeeps
    <2>5. ASSUME NEW r \in Request, NEW m \in Receiver, Receive(r, m)
          PROVE  AuthInv'
      BY <2>5, ReceiveKeeps
    <2> QED
      BY <2>1, <2>2, <2>3, <2>4, <2>5 DEF AuthNext
  <1>3. AuthInv => AcceptedOnce
    BY DEF AuthInv
  <1> QED
    BY <1>1, <1>2, <1>3, PTL DEF AuthSpec
=============================================================================
