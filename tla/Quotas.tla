------------------------------- MODULE Quotas -------------------------------
(***************************************************************************)
(* One rate limit's budget, kept in the database for every machine         *)
(* (limits.rs, take_rate and prune_rate_limits of store.rs).  A row holds  *)
(* when the budget is full again.  Every statement is a step; a machine's  *)
(* request keeps the time it began with.                                   *)
(***************************************************************************)
EXTENDS Integers

CONSTANTS
    Requester,       \* requests that run at the same time
    COUNT, PERIOD,   \* the rate: COUNT in PERIOD
    BURST,           \* at once
    MaxClock,        \* bound: the time runs to
    NoRow

ASSUME QuotaAssumption ==
    /\ {COUNT, PERIOD} \subseteq Nat \ {0} /\ {BURST, MaxClock} \subseteq Nat /\ NoRow \notin Int

VARIABLES
    now,        \* the machines' clock
    tat,        \* the row: when the budget is full again
    taking,     \* each request: its next statement, the time it began at, its round
    allowed,    \* history: requests let through
    gone,       \* history: the latest value a pruned row had
    saved       \* history: what requests that began before a pruned row's time took too little

quotaVars == <<now, tat, taking, allowed, gone, saved>>

Maximum(a, b) == IF a > b THEN a ELSE b

\* Rate::new.
Interval == Maximum(PERIOD \div COUNT, 1)
Tolerance == Interval * (Maximum(BURST, 1) - 1)

Resting == [at |-> "rest", now |-> 0, round |-> 0]

QuotaInit ==
    /\ now = 0 /\ tat = NoRow /\ allowed = 0 /\ gone = 0 /\ saved = 0
    /\ taking = [r \in Requester |-> Resting]

Pass(r) == taking' = [taking EXCEPT ![r] = Resting]
Go(r, at) == taking' = [taking EXCEPT ![r].at = at]

\* Limits::take: the request reads the clock.
Take(r) ==
    /\ taking[r].at = "rest"
    /\ taking' = [taking EXCEPT ![r] = [at |-> "update", now |-> now, round |-> 1]]
    /\ UNCHANGED <<now, tat, allowed, gone, saved>>

\* Mutant: one request more than the burst.
WithinAlmost(t) == tat # NoRow /\ Maximum(tat, t) <= t + Tolerance + Interval

Within(t) == tat # NoRow /\ Maximum(tat, t) <= t + Tolerance

\* The conditional update.
Update(r) ==
    /\ taking[r].at = "update"
    /\ IF Within(taking[r].now)
       THEN /\ tat' = Maximum(tat, taking[r].now) + Interval /\ allowed' = allowed + 1 /\ Pass(r)
       ELSE Go(r, "insert") /\ UNCHANGED <<tat, allowed>>
    /\ UNCHANGED <<now, gone, saved>>

\* A key not seen before is inserted; one that is there now is tried once more.
Insert(r) ==
    /\ taking[r].at = "insert"
    /\ IF tat = NoRow
       THEN /\ tat' = taking[r].now + Interval /\ allowed' = allowed + 1 /\ Pass(r)
            /\ saved' = saved + Maximum(gone - taking[r].now, 0)
       ELSE /\ taking' = [taking EXCEPT ![r].at = IF taking[r].round = 1 THEN "update" ELSE "limited",
                                        ![r].round = 2]
            /\ UNCHANGED <<tat, allowed, saved>>
    /\ UNCHANGED <<now, gone>>

\* The wait a limited request is told.
RetryAfter(t) == IF tat = NoRow THEN 1 ELSE Maximum(tat - Tolerance - t, 1)

Limited(r) == taking[r].at = "limited" /\ Pass(r) /\ UNCHANGED <<now, tat, allowed, gone, saved>>

\* prune_rate_limits.
Prune == tat # NoRow /\ tat < now /\ tat' = NoRow /\ gone' = Maximum(gone, tat)
         /\ UNCHANGED <<now, taking, allowed, saved>>

Tick == now < MaxClock /\ now' = now + 1 /\ UNCHANGED <<tat, taking, allowed, gone, saved>>

QuotaNext ==
    \/ Prune \/ Tick
    \/ \E r \in Requester : Take(r) \/ Update(r) \/ Insert(r) \/ Limited(r)

QuotaSpec == QuotaInit /\ [][QuotaNext]_quotaVars

-----------------------------------------------------------------------------
\* GCRA across machines: whatever requests race for the row, its first insertion and its deletion,
\* no more get through than the burst and one for each interval since; only a request that began
\* before the time of a row pruned meanwhile takes less than it should, and by no more than that.
AtMostRate == Interval * (allowed - Maximum(BURST, 1)) <= now + saved

\* The wait is exact: after it, and not before, a limited request is within the budget as it stands.
RetryExact ==
    \A r \in Requester : taking[r].at = "limited" /\ tat # NoRow =>
        LET t == taking[r].now  d == RetryAfter(t)
        IN Within(t + d) /\ (d > 1 => ~Within(t + d - 1))

\* The rate holds across machines, and who is refused is told when it would be let through.
WithinRate == AtMostRate /\ RetryExact

=============================================================================
