------------------------------ MODULE AcmeOrder ------------------------------
(***************************************************************************)
(* The attempts of one certificate job at the ACME CA (Acme::issue of      *)
(* acme.rs), the challenge records they publish (dns.rs) and the sweep     *)
(* that removes what they leave (sweep_dns of jobs.rs).                    *)
(*                                                                         *)
(* Attempts run one after another: the job's lease keeps them apart        *)
(* (JobLeases).  All identifiers of the job are one hostname and its       *)
(* wildcard, so they share a record name and a record is its value.  The   *)
(* CA hands out its latest authorization of an identifier until that one   *)
(* fails.  A request stands for all its tries: it is answered, applied     *)
(* without an answer, or not applied.                                      *)
(***************************************************************************)
EXTENDS Naturals, FiniteSets

CONSTANTS
    Ident,        \* the job's identifiers
    MaxGen,       \* bound: authorizations the CA makes for an identifier
    MaxFaults,    \* bound: requests that fail, crashes and the CA's own failures
    MaxIncidents, \* bound: shutdowns and validations that never finish
    None

ASSUME AcmeAssumption ==
    /\ IsFiniteSet(Ident) /\ Ident # {} /\ None \notin Ident
    /\ MaxGen \in Nat \ {0} /\ {MaxFaults, MaxIncidents} \subseteq Nat

VARIABLES
    \* the CA
    ca,         \* each identifier's latest authorization: its number and its state
    order,      \* the latest order: "none", "open", "processing", "valid", "invalid"
    \* the zone
    zone,       \* the challenge records
    old,        \* those older than DNS_SWEEP_AGE
    \* the process that runs the job
    pc,         \* what its attempt does next
    todo,       \* identifiers or values the current loop has not done yet
    orders,     \* orders this attempt placed
    pending,    \* authorizations to answer
    stale,      \* authorizations to deactivate before the next order
    usable,     \* whether the order can succeed
    records,    \* the records it created or took over
    unsettled,  \* authorizations it answered that reached no final state it saw
    settled,    \* whether each deactivation succeeded
    got,        \* whether it has the certificate
    account,    \* whether the process knows its account
    stopping,   \* whether it shuts down
    leased,     \* whether the job's lease is held
    issued,     \* whether the certificate was recorded
    \* the sweep
    sweep,      \* its place: "off", "list", "delete"
    spare,      \* whether the job's names are in flight, as it read them
    sweepTodo,  \* the old records it listed
    \* history
    faults, stops, stuck,
    takenOver,  \* records that were old when an attempt took them over
    raced       \* records swept although the attempt that took them over had answered, or runs

caVars == <<ca, order>>
zoneVars == <<zone, old>>
choiceVars == <<todo, orders, stale, usable>>
attemptVars == <<choiceVars, pending, records, unsettled, settled, got>>
jobVars == <<account, stopping, leased, issued>>
sweepVars == <<sweep, spare, sweepTodo>>
history == <<faults, stops, stuck, takenOver, raced>>
acmeVars == <<caVars, zoneVars, pc, attemptVars, jobVars, sweepVars, history>>

\* What the CA calls a pending authorization, whatever its challenge's state.
InProgress(i) == ca[i].state \in {"pending", "processing", "stuck"}
\* The record of an authorization: the digest of its token, under the name the identifiers share.
Value(i, n) == <<i, n>>
ValueOf(i) == Value(i, ca[i].number)
ORDERS == 2
Attempting == {"create", "answer", "poll", "finalize", "certificate"}
\* What an attempt starts with, and leaves when it is over.
Fresh(t, o, p, st, u, r, un, se, g) ==
    /\ t = {} /\ o = 0 /\ p = {} /\ st = {} /\ u = TRUE /\ r = {} /\ un = {} /\ se = TRUE /\ g = FALSE
Forget == Fresh(todo', orders', pending', stale', usable', records', unsettled', settled', got')

AcmeInit ==
    /\ ca = [i \in Ident |-> [number |-> 0, state |-> "invalid"]] /\ order = "none"
    /\ zone = {} /\ old = {}
    /\ pc = "idle" /\ Fresh(todo, orders, pending, stale, usable, records, unsettled, settled, got)
    /\ account = FALSE /\ stopping = FALSE /\ leased = FALSE /\ issued = FALSE
    /\ sweep = "off" /\ spare = FALSE /\ sweepTodo = {}
    /\ faults = 0 /\ stops = 0 /\ stuck = 0 /\ takenOver = {} /\ raced = {}

Spend == faults < MaxFaults /\ faults' = faults + 1
Fault == Spend /\ UNCHANGED <<stops, stuck, takenOver, raced>>
\* How a request to the CA ends once the session has repeated what it may repeat.
Request(outcome) == IF outcome = "ok" THEN UNCHANGED history ELSE Fault
Applied(outcome) == outcome \in {"ok", "lost"}
\* The loops go through lists, one element after another.
Now(x) == todo # {} /\ x = CHOOSE y \in todo : TRUE
Outcomes == {"ok", "lost", "failed"}

-----------------------------------------------------------------------------
(* Placing an order.                                                       *)

\* The attempt starts, unless the server's issuer was stopped.
Begin ==
    /\ pc = "idle" /\ ~leased /\ ~stopping /\ ~issued
    /\ leased' = TRUE /\ pc' = (IF account THEN "order" ELSE "account")
    /\ UNCHANGED <<caVars, zoneVars, attemptVars, account, stopping, issued, sweepVars, history>>

\* The attempt ended: its lease is released, and what it got recorded.
End ==
    /\ pc' = "idle" /\ leased' = FALSE /\ issued' = (issued \/ got)
    /\ Forget /\ UNCHANGED <<account, stopping>>

\* It fails before it published anything.
Abandon == End

\* Registers the account, which later attempts of this process use again.
Register(outcome) ==
    /\ pc = "account" /\ Request(outcome)
    /\ IF outcome = "ok"
       THEN /\ account' = TRUE /\ pc' = "order"
            /\ UNCHANGED <<attemptVars, stopping, leased, issued>>
       ELSE Abandon
    /\ UNCHANGED <<caVars, zoneVars, sweepVars>>

\* The CA's part (external): it hands out the authorizations it has, and new ones for those that
\* failed, or an order that was finalized before.  Handing out a failed one (again) is its fault.
NewOrder(again) ==
    /\ \A i \in Ident \ again : ca[i].state = "invalid" => ca[i].number < MaxGen
    /\ ca' = [i \in Ident |-> IF ca[i].state = "invalid" /\ i \notin again
                              THEN [number |-> ca[i].number + 1, state |-> "pending"] ELSE ca[i]]
    /\ order' \in {"open"} \cup (IF \A i \in Ident : ca[i].state = "valid"
                                 THEN {order} \cap {"processing", "valid"} ELSE {})

PlaceOrder(outcome, again) ==
    /\ pc = "order" /\ again \subseteq {i \in Ident : ca[i].state = "invalid" /\ ca[i].number > 0}
    /\ IF Applied(outcome) THEN NewOrder(again) ELSE UNCHANGED caVars
    /\ IF again # {} THEN outcome = "ok" /\ Fault ELSE Request(outcome)
    /\ IF outcome = "ok"
       THEN /\ pc' = "read" /\ todo' = Ident /\ orders' = orders + 1
            /\ pending' = {} /\ stale' = {} /\ usable' = TRUE
            /\ UNCHANGED <<records, unsettled, settled, got, jobVars>>
       ELSE Abandon
    /\ UNCHANGED <<zoneVars, sweepVars>>

\* What a read authorization is good for.
Judge(i) ==
    /\ pending' = pending \cup ({i} \cap {j \in Ident : ca[j].state = "pending"})
    /\ stale' = stale \cup ({i} \cap {j \in Ident : ca[j].state \in {"processing", "stuck"}})
    /\ usable' = (usable /\ ca[i].state \in {"valid", "pending"})

\* Reads one authorization of the order.
ReadAuthorization(i, outcome) ==
    /\ pc = "read" /\ Now(i) /\ Request(outcome)
    /\ IF outcome = "ok"
       THEN /\ Judge(i) /\ todo' = todo \ {i}
            /\ UNCHANGED <<pc, orders, records, unsettled, settled, got, jobVars>>
       ELSE Abandon
    /\ UNCHANGED <<caVars, zoneVars, sweepVars>>

\* Mutant: an authorization left in progress is not deactivated.
ChooseKeepingStale ==
    /\ pc = "read" /\ todo = {} /\ pc' = (IF usable THEN "challenge" ELSE "stale") /\ todo' = {}
    /\ UNCHANGED <<orders, stale, usable, pending, records, unsettled, settled, got, jobVars,
                   caVars, zoneVars, sweepVars, history>>

\* All authorizations are read: the order is used, or its stuck authorizations go.
Choose ==
    /\ pc = "read" /\ todo = {}
    /\ pc' = (IF usable THEN "challenge" ELSE "stale")
    /\ todo' = (IF usable THEN {} ELSE stale)
    /\ UNCHANGED <<orders, stale, usable, pending, records, unsettled, settled, got, jobVars,
                   caVars, zoneVars, sweepVars, history>>

\* Asks the CA to deactivate an authorization.  "dark": not applied, and reading it fails as well.
Deactivate(i, outcome) ==
    /\ Request(outcome)
    /\ ca' = [ca EXCEPT ![i].state = IF Applied(outcome) /\ InProgress(i) THEN "invalid" ELSE @]
    /\ UNCHANGED order

\* Whether deactivating returns Ok: the CA did it, or the authorization reads as no longer pending.
Deactivated(i, outcome) == Applied(outcome) \/ (outcome = "failed" /\ ~InProgress(i))

DeactivateStale(i, outcome) ==
    /\ pc = "stale" /\ Now(i) /\ Deactivate(i, outcome)
    /\ IF Deactivated(i, outcome)
       THEN /\ todo' = todo \ {i}
            /\ UNCHANGED <<pc, orders, stale, usable, pending, records, unsettled, settled, got, jobVars>>
       ELSE Abandon
    /\ UNCHANGED <<zoneVars, sweepVars>>

\* A second order, or none: the CA kept handing out what cannot succeed.
OrderAgain ==
    /\ pc = "stale" /\ todo = {}
    /\ IF orders < ORDERS
       THEN pc' = "order" /\ UNCHANGED <<attemptVars, jobVars>>
       ELSE Abandon
    /\ UNCHANGED <<caVars, zoneVars, sweepVars, history>>

\* The challenge is recorded with the certificate, if there is one to answer.
OnChallenge(outcome) ==
    /\ pc = "challenge" /\ Request(outcome) /\ (pending = {} => outcome = "ok")
    /\ IF outcome = "ok"
       THEN /\ pc' = "create" /\ todo' = {ValueOf(i) : i \in pending}
            /\ UNCHANGED <<orders, stale, usable, pending, records, unsettled, settled, got, jobVars>>
       ELSE Abandon
    /\ UNCHANGED <<caVars, zoneVars, sweepVars>>

-----------------------------------------------------------------------------
(* Answering it.                                                           *)

\* The attempt is over; what it answered is deactivated next.
Clean(left) ==
    /\ pc' = "clean" /\ todo' = left /\ unsettled' = left
    /\ UNCHANGED <<orders, stale, usable, pending, settled, jobVars>>

Publish(v) == zone' = zone \cup {v} /\ UNCHANGED old

\* Creates a record, or takes over one that is there.  A creation without an answer ends the attempt.
CreateTxt(v, outcome) ==
    /\ pc = "create" /\ Now(v)
    /\ IF outcome = "ok" THEN UNCHANGED faults ELSE Spend
    /\ takenOver' = takenOver \cup ({v} \cap old) /\ UNCHANGED <<stops, stuck, raced>>
    /\ IF Applied(outcome) THEN Publish(v) ELSE UNCHANGED zoneVars
    /\ IF outcome = "ok"
       THEN /\ records' = records \cup {v} /\ todo' = todo \ {v}
            /\ UNCHANGED <<pc, orders, stale, usable, pending, unsettled, settled, got, jobVars>>
       ELSE Clean(unsettled) /\ UNCHANGED <<records, got>>
    /\ UNCHANGED <<caVars, sweepVars>>

\* The records are there, and were waited for (not longer than dns_propagation_timeout).
Propagated ==
    /\ pc = "create" /\ todo = {} /\ pc' = "answer" /\ todo' = pending
    /\ UNCHANGED <<orders, stale, usable, pending, records, unsettled, settled, got, jobVars,
                   caVars, zoneVars, sweepVars, history>>

\* The CA begins to check an authorization whose challenge was not answered before.
Answered(i) ==
    ca' = [ca EXCEPT ![i].state = IF @ = "pending" THEN "processing" ELSE @] /\ UNCHANGED order

\* Answers a challenge; from before the request on its authorization counts as unsettled.
Answer(i, outcome) ==
    /\ pc = "answer" /\ Now(i) /\ Request(outcome)
    /\ IF Applied(outcome) THEN Answered(i) ELSE UNCHANGED caVars
    /\ IF outcome = "ok"
       THEN /\ unsettled' = unsettled \cup {i} /\ todo' = todo \ {i}
            /\ UNCHANGED <<pc, orders, stale, usable, pending, records, settled, got, jobVars>>
       ELSE Clean(unsettled \cup {i}) /\ UNCHANGED <<records, got>>
    /\ UNCHANGED <<zoneVars, sweepVars>>

Poll ==
    /\ pc = "answer" /\ todo = {} /\ pc' = "poll"
    /\ UNCHANGED <<attemptVars, jobVars, caVars, zoneVars, sweepVars, history>>

\* Reads an unsettled authorization: valid ones are done, and one that failed ends the attempt.
PollAuthorization(i, outcome) ==
    /\ pc = "poll" /\ i \in unsettled /\ (outcome = "ok" => ~InProgress(i)) /\ Request(outcome)
    /\ IF outcome = "ok" /\ ca[i].state = "valid"
       THEN /\ unsettled' = unsettled \ {i}
            /\ UNCHANGED <<pc, choiceVars, pending, records, settled, got, jobVars>>
       ELSE /\ Clean(IF outcome = "ok" THEN unsettled \ {i} ELSE unsettled)
            /\ UNCHANGED <<records, got>>
    /\ UNCHANGED <<caVars, zoneVars, sweepVars>>

\* After AUTHORIZATION_POLLS reads: a stuck validation, or a slow CA.
PollsExhausted ==
    /\ pc = "poll" /\ \E i \in unsettled : InProgress(i)
    /\ IF \E i \in unsettled : ca[i].state = "stuck" THEN UNCHANGED history ELSE Fault
    /\ Clean(unsettled) /\ UNCHANGED <<records, got, caVars, zoneVars, sweepVars>>

Authorized ==
    /\ pc = "poll" /\ unsettled = {} /\ pc' = "finalize"
    /\ UNCHANGED <<attemptVars, jobVars, caVars, zoneVars, sweepVars, history>>

\* Finalizes a ready order; one finalized by an earlier attempt is not finalized again.
Finalize(outcome) ==
    /\ pc = "finalize" /\ Request(outcome)
    /\ order' = (IF Applied(outcome) /\ order = "open" /\ \A i \in Ident : ca[i].state = "valid"
                 THEN "processing" ELSE order)
    /\ IF outcome = "ok"
       THEN pc' = "certificate" /\ UNCHANGED <<attemptVars, jobVars>>
       ELSE Clean(unsettled) /\ UNCHANGED <<records, got>>
    /\ UNCHANGED <<ca, zoneVars, sweepVars>>

\* Reads the order, for a while, and the certificate of a valid one.
Certificate(outcome) ==
    /\ pc = "certificate" /\ (outcome = "ok" => order # "processing") /\ Request(outcome)
    /\ Clean(unsettled) /\ got' = (outcome = "ok" /\ order = "valid")
    /\ UNCHANGED <<records, caVars, zoneVars, sweepVars>>

Stop ==
    /\ ~stopping /\ stops + stuck < MaxIncidents /\ stops' = stops + 1 /\ stopping' = TRUE
    /\ UNCHANGED <<caVars, zoneVars, pc, attemptVars, account, leased, issued, sweepVars,
                   faults, stuck, takenOver, raced>>

\* A request that is given up may have been applied.
CutOff(cut) ==
    \/ pc = "create" /\ Now(cut) /\ Publish(cut) /\ UNCHANGED caVars
    \/ pc = "answer" /\ Now(cut) /\ Answered(cut) /\ UNCHANGED zoneVars
    \/ cut = None /\ UNCHANGED <<caVars, zoneVars>>

\* A shutdown ends the attempt where it stands, in the middle of a request.
Interrupt(cut) ==
    /\ stopping /\ pc \in Attempting /\ CutOff(cut)
    /\ Clean(unsettled \cup ({cut} \cap Ident))
    /\ UNCHANGED <<records, got, sweepVars, faults, stops, stuck, takenOver, raced>>

-----------------------------------------------------------------------------
(* Cleaning up.                                                            *)

\* Deactivates what it answered and did not see settled.
CleanAuthorization(i, outcome) ==
    /\ pc = "clean" /\ Now(i) /\ Deactivate(i, outcome)
    /\ settled' = (settled /\ Deactivated(i, outcome)) /\ todo' = todo \ {i}
    /\ UNCHANGED <<pc, orders, stale, usable, pending, records, unsettled, got, jobVars,
                   zoneVars, sweepVars>>

\* Mutant: the records go although the CA may still be checking.
DeleteAnyway ==
    /\ pc = "clean" /\ todo = {} /\ pc' = "delete" /\ todo' = records
    /\ UNCHANGED <<orders, stale, usable, pending, records, unsettled, settled, got, jobVars,
                   caVars, zoneVars, sweepVars, history>>

\* Records are deleted only if every authorization is settled.
KeepOrDelete ==
    /\ pc = "clean" /\ todo = {}
    /\ IF settled
       THEN /\ pc' = "delete" /\ todo' = records
            /\ UNCHANGED <<orders, stale, usable, pending, records, unsettled, settled, got, jobVars>>
       ELSE End
    /\ UNCHANGED <<caVars, zoneVars, sweepVars, history>>

Unpublish(v) == zone' = zone \ {v} /\ old' = old \ {v}

\* Deletes a record; one that cannot be deleted, or not found again, is left.
DeleteTxt(v, outcome) ==
    /\ pc = "delete" /\ Now(v) /\ Request(outcome)
    /\ IF Applied(outcome) THEN Unpublish(v) ELSE UNCHANGED zoneVars
    /\ todo' = todo \ {v}
    /\ UNCHANGED <<pc, orders, stale, usable, pending, records, unsettled, settled, got, jobVars,
                   caVars, sweepVars>>

Finish ==
    /\ pc = "delete" /\ todo = {} /\ End
    /\ UNCHANGED <<caVars, zoneVars, sweepVars, history>>

\* The process dies, with its request applied or not, and starts again; its job's lease stays.
Crash(cut) ==
    /\ Fault /\ pc # "idle"
    /\ CutOff(cut)
    /\ pc' = "idle" /\ account' = FALSE /\ stopping' = FALSE
    /\ Forget /\ UNCHANGED <<leased, issued, sweepVars>>

\* The lease of a process that died runs out.
LeaseExpires ==
    /\ pc = "idle" /\ leased /\ leased' = FALSE
    /\ UNCHANGED <<caVars, zoneVars, pc, attemptVars, account, stopping, issued, sweepVars, history>>

Restart ==
    /\ pc = "idle" /\ stopping /\ stopping' = FALSE /\ account' = FALSE
    /\ UNCHANGED <<caVars, zoneVars, pc, attemptVars, leased, issued, sweepVars, history>>

-----------------------------------------------------------------------------
(* The CA's own steps (external): how it checks, as issue() sees it.       *)

CaStep == UNCHANGED <<zoneVars, pc, attemptVars, jobVars, sweepVars>>

\* It looks for the record of an answered authorization.
Check(i) ==
    /\ ca[i].state = "processing" /\ UNCHANGED <<order, history>> /\ CaStep
    /\ ca' = [ca EXCEPT ![i].state = IF ValueOf(i) \in zone THEN "valid" ELSE "invalid"]

\* It never finishes.
CheckSticks(i) ==
    /\ ca[i].state = "processing" /\ stops + stuck < MaxIncidents /\ stuck' = stuck + 1
    /\ ca' = [ca EXCEPT ![i].state = "stuck"]
    /\ UNCHANGED <<order, faults, stops, takenOver, raced>> /\ CaStep

\* It finds nothing although the record is there, or the authorization expires.
CheckFails(i) ==
    /\ ca[i].state \in {"processing", "pending"} /\ Fault /\ UNCHANGED order /\ CaStep
    /\ ca' = [ca EXCEPT ![i].state = "invalid"]

CaIssues ==
    /\ order = "processing" /\ UNCHANGED ca /\ CaStep
    /\ \/ order' = "valid" /\ UNCHANGED history
       \/ order' = "invalid" /\ Fault

-----------------------------------------------------------------------------
(* The sweep.                                                              *)

\* A record grows old: an hour is longer than an attempt takes, and than the CA checks (external).
Age(v) ==
    /\ v \in zone \ (old \cup records) /\ \A i \in Ident : ca[i].state = "processing" => ValueOf(i) # v
    /\ old' = old \cup {v}
    /\ UNCHANGED <<zone, caVars, pc, attemptVars, jobVars, sweepVars, history>>

\* Mutant: the names of every pending job count as in flight, leased or not.
SweepBeginSparing ==
    /\ sweep = "off" /\ sweep' = "list" /\ spare' = TRUE
    /\ UNCHANGED <<caVars, zoneVars, pc, attemptVars, jobVars, sweepTodo, history>>

\* A machine takes the sweeper's lease (2 * DNS_SWEEP_EVERY_MS), which outlives its sweep: no other
\* machine sweeps meanwhile, and any machine may once it has run out.  It reads the names in flight.
SweepBegin ==
    /\ sweep = "off" /\ sweep' = "list" /\ spare' = leased
    /\ UNCHANGED <<caVars, zoneVars, pc, attemptVars, jobVars, sweepTodo, history>>

SweepOver == sweep' = "off" /\ spare' = FALSE

\* Lists the records, and keeps the old ones no name in flight has.
SweepList ==
    /\ sweep = "list" /\ sweepTodo' = (IF spare THEN {} ELSE old)
    /\ IF sweepTodo' = {} THEN SweepOver ELSE sweep' = "delete" /\ UNCHANGED spare
    /\ UNCHANGED <<caVars, zoneVars, pc, attemptVars, jobVars, history>>

\* Deletes one of them; the first that fails ends the sweep.
SweepDelete(v, outcome) ==
    /\ sweep = "delete" /\ v \in sweepTodo
    /\ IF Applied(outcome) THEN Unpublish(v) ELSE UNCHANGED zoneVars
    /\ raced' = raced \cup {w \in zone \ zone' : IF leased THEN ~spare ELSE w \in takenOver}
    /\ IF outcome = "ok"
       THEN sweepTodo' = sweepTodo \ {v} /\ UNCHANGED faults
       ELSE sweepTodo' = {} /\ Spend
    /\ IF sweepTodo' = {} THEN SweepOver ELSE UNCHANGED <<sweep, spare>>
    /\ UNCHANGED <<caVars, pc, attemptVars, jobVars, stops, stuck, takenOver>>

-----------------------------------------------------------------------------
\* The attempt's own steps when nothing fails.
Work ==
    \/ Begin \/ Register("ok") \/ PlaceOrder("ok", {}) \/ Choose \/ OrderAgain \/ OnChallenge("ok")
    \/ Propagated \/ Poll \/ PollsExhausted \/ Authorized \/ Finalize("ok") \/ Certificate("ok")
    \/ Interrupt(None) \/ KeepOrDelete \/ Finish
    \/ \E i \in Ident : \/ ReadAuthorization(i, "ok") \/ DeactivateStale(i, "ok") \/ Answer(i, "ok")
                         \/ PollAuthorization(i, "ok") \/ CleanAuthorization(i, "ok")
    \/ \E v \in todo : CreateTxt(v, "ok") \/ DeleteTxt(v, "ok")

Trouble ==
    \/ Stop \/ \E again \in SUBSET Ident : again # {} /\ PlaceOrder("ok", again)
    \/ \E cut \in todo : Interrupt(cut)
    \/ \E cut \in todo \cup {None} : Crash(cut)
    \/ \E outcome \in Outcomes \ {"ok"} :
           \/ Register(outcome) \/ PlaceOrder(outcome, {}) \/ OnChallenge(outcome)
           \/ Finalize(outcome) \/ Certificate(outcome)
           \/ \E i \in Ident : \/ ReadAuthorization(i, outcome) \/ Answer(i, outcome)
                                \/ PollAuthorization(i, outcome)
           \/ \E v \in todo : CreateTxt(v, outcome) \/ DeleteTxt(v, outcome)
    \/ \E i \in Ident, outcome \in {"lost", "failed", "dark"} :
           DeactivateStale(i, outcome) \/ CleanAuthorization(i, outcome)
    \/ \E i \in Ident : CheckFails(i) \/ CheckSticks(i)

Sweep ==
    \/ SweepBegin \/ SweepList \/ \E v \in sweepTodo : SweepDelete(v, "ok")

AcmeNext ==
    \/ Work \/ Trouble \/ Sweep \/ LeaseExpires \/ Restart \/ CaIssues
    \/ \E i \in Ident : Check(i)
    \/ \E v \in zone : Age(v)
    \/ \E v \in sweepTodo : SweepDelete(v, "lost") \/ SweepDelete(v, "failed")

AcmeSpec == AcmeInit /\ [][AcmeNext]_acmeVars

-----------------------------------------------------------------------------
\* A record the CA looks for is there: whatever fails, is cut off or left behind, an authorization the
\* CA is checking has its record published, unless a sweep took it that read the leases before the
\* attempt (which took the record over) had its own.
Published ==
    \A i \in Ident : ca[i].state = "processing" => ValueOf(i) \in zone \cup raced

=============================================================================
