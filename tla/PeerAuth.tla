------------------------------ MODULE PeerAuth ------------------------------
(***************************************************************************)
(* Signed requests between machines: forwards and control requests         *)
(* (peer_auth.rs; sign, verify and check_sender of cluster.rs).  A request *)
(* reaches any machine any number of times; a proof is only ever right for *)
(* what a machine signed, so a request stands for its fields.              *)
(***************************************************************************)
EXTENDS Integers, FiniteSets, FiniteSetsExt, Functions

CONSTANTS
    Receiver,       \* the machines that check
    MAX_SKEW_MS,    \* how far a timestamp may be from the receiver's clock
    MAX_NONCES,     \* nonces a machine remembers
    MaxRequests, MaxTime, MaxRestarts   \* bounds

ASSUME PeerAuthAssumption ==
    {MAX_SKEW_MS, MAX_NONCES, MaxRequests, MaxTime, MaxRestarts} \subseteq Nat /\ MAX_NONCES > 0

VARIABLES
    clock,      \* the receivers' clock
    requests,   \* requests signed: the receiver and the signer's timestamp of each
    seen,       \* each machine's Nonces: the timestamp of each request it accepted and remembers
    accepted,   \* history: requests accepted
    twice,      \* history: requests accepted more than once
    forgot,     \* history: requests forgotten while they were fresh
    restarts    \* history

authVars == <<clock, requests, seen, accepted, twice, forgot, restarts>>

Request == 1..MaxRequests

AuthInit ==
    /\ clock = 0 /\ requests = << >> /\ seen = [m \in Receiver |-> << >>]
    /\ accepted = {} /\ twice = {} /\ forgot = {} /\ restarts = 0

Tick == clock < MaxTime /\ clock' = clock + 1 /\ UNCHANGED <<requests, seen, accepted, twice, forgot, restarts>>

\* sign: by a machine whose clock is behind or ahead.
Sign(m, at) ==
    LET r == Cardinality(DOMAIN requests) + 1
    IN /\ r \in Request
       /\ requests' = [q \in DOMAIN requests \union {r} |-> IF q = r THEN [to |-> m, at |-> at] ELSE requests[q]]
       /\ UNCHANGED <<clock, seen, accepted, twice, forgot, restarts>>

Fresh(at, now) == at - now \in -MAX_SKEW_MS..MAX_SKEW_MS

\* Mutant: a nonce is kept for a moment less than its request is fresh.
KeptBriefly(nonces, now) == Restrict(nonces, {r \in DOMAIN nonces : nonces[r] > now - MAX_SKEW_MS})

\* What a full table keeps: the fresh ones.
Kept(nonces, now) == Restrict(nonces, {r \in DOMAIN nonces : nonces[r] >= now - MAX_SKEW_MS})

\* times[times.len() / 2] of the sorted timestamps.
Median(nonces) ==
    CHOOSE t \in Range(nonces) :
        /\ Cardinality({r \in DOMAIN nonces : nonces[r] < t}) <= Cardinality(DOMAIN nonces) \div 2
        /\ Cardinality({r \in DOMAIN nonces : nonces[r] <= t}) > Cardinality(DOMAIN nonces) \div 2

\* ... and when they fill it, the newer half of them.
NewerHalf(nonces) == Restrict(nonces, {r \in DOMAIN nonces : nonces[r] > Median(nonces)})

\* The table first_use looks in.
Room(nonces, now) ==
    LET kept == Kept(nonces, now)
    IN IF Cardinality(DOMAIN nonces) < MAX_NONCES THEN nonces
       ELSE IF Cardinality(DOMAIN kept) < MAX_NONCES THEN kept ELSE NewerHalf(kept)

ForMe(r, m) == requests[r].to = m

\* check_sender: its sender is not linked, and the request is refused once it is seen.
SenderUnlinked == UNCHANGED <<accepted, twice>>

\* verify: for this machine, fresh, and not seen.
Receive(r, m) ==
    /\ r \in DOMAIN requests /\ ForMe(r, m) /\ Fresh(requests[r].at, clock)
    /\ LET room == Room(seen[m], clock)
       IN /\ forgot' = forgot \union (DOMAIN Kept(seen[m], clock) \ DOMAIN room)
          /\ IF r \in DOMAIN room
             THEN seen' = [seen EXCEPT ![m] = room] /\ UNCHANGED <<accepted, twice>>
             ELSE /\ seen' = [seen EXCEPT ![m] =
                              [q \in DOMAIN room \union {r} |-> IF q = r THEN requests[r].at ELSE room[q]]]
                  /\ \/ accepted' = accepted \union {r} /\ twice' = twice \union (accepted \intersect {r})
                     \/ SenderUnlinked
    /\ UNCHANGED <<clock, requests, restarts>>

\* The table is in memory only.
Forget(m) ==
    /\ restarts < MaxRestarts /\ restarts' = restarts + 1
    /\ seen' = [seen EXCEPT ![m] = << >>]
    /\ forgot' = forgot \union {q \in DOMAIN seen[m] : Fresh(seen[m][q], clock)}
    /\ UNCHANGED <<clock, requests, accepted, twice>>

AuthNext ==
    \/ Tick
    \/ \E m \in Receiver : Forget(m) \/ \E skew \in {-1, 1} : Sign(m, clock + skew)
    \/ \E r \in Request, m \in Receiver : Receive(r, m)

AuthSpec == AuthInit /\ [][AuthNext]_authVars

-----------------------------------------------------------------------------
\* A request, however often and wherever it arrives, is accepted once while its nonce is remembered: the
\* table drops no nonce that is still fresh but in a restart or when fresh ones alone fill it.
AcceptedOnce == twice \subseteq forgot

=============================================================================
