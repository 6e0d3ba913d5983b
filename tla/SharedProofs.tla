---------------------------- MODULE SharedProofs ----------------------------
(***************************************************************************)
(* Proofs about what machines share, in the database, at the CA and in the *)
(* DNS zone: the rate limits of Quotas, the alarms of Renewals and the     *)
(* attempts of AcmeOrder, for any number of machines, tunnels, identifiers *)
(* and faults.                                                             *)
(***************************************************************************)
EXTENDS Quotas, Renewals, AcmeOrder, TLAPS

-----------------------------------------------------------------------------
(* Quotas. *)

Bursts == Maximum(BURST, 1)

QuotaTypeOK ==
    /\ now \in Nat /\ allowed \in Nat /\ gone \in Nat /\ saved \in Nat
    /\ tat \in Int \union {NoRow}
    /\ taking \in [Requester -> [at : {"rest", "update", "insert", "limited"}, now : Nat, round : Nat]]

\* No request began later than now.
Began == \A r \in Requester : taking[r].now <= now

\* The row is never further ahead than a full burst; every request let through moved it, or the row
\* before it, by an interval.
Paid ==
    /\ gone <= now
    /\ tat # NoRow => tat <= now + Interval * Bursts /\ Interval * allowed <= tat + saved
    /\ tat = NoRow => Interval * allowed <= gone + saved

QuotaInv == QuotaTypeOK /\ Began /\ Paid

\* What Rate::new makes of the configured rate.
LEMMA RateType ==
    /\ Interval \in Nat \ {0} /\ Bursts \in Nat \ {0} /\ Tolerance \in Nat
    /\ Tolerance + Interval = Interval * Bursts
  <1>1. COUNT \in Nat \ {0} /\ PERIOD \in Nat \ {0} /\ BURST \in Nat
    BY QuotaAssumption
  <1>2. PERIOD \div COUNT \in Int
    BY <1>1
  <1>3. Interval \in Nat \ {0} /\ Bursts \in Nat \ {0}
    BY <1>1, <1>2 DEF Interval, Bursts, Maximum
  <1>4. \A i, b \in Nat \ {0} : i * (b - 1) \in Nat /\ i * (b - 1) + i = i * b
    OBVIOUS
  <1> QED
    BY <1>3, <1>4 DEF Tolerance, Bursts

\* One more request costs one interval.
LEMMA OneMore == \A n \in Nat : Interval * (n + 1) = Interval * n + Interval /\ Interval * n \in Nat
  <1>1. \A i \in Nat \ {0}, n \in Nat : i * (n + 1) = i * n + i /\ i * n \in Nat
    OBVIOUS
  <1> QED
    BY <1>1, RateType

\* At the start no row and no request is there.
LEMMA QuotaStarts == QuotaInit => QuotaInv
  <1>1. Interval * 0 = 0
    BY RateType
  <1> QED
    BY <1>1, QuotaAssumption DEF QuotaInit, QuotaInv, QuotaTypeOK, Began, Paid, Resting

\* Every statement of take_rate, the pruning and the clock keep what was paid.
LEMMA QuotaStep ==
    ASSUME QuotaInv, QuotaNext
    PROVE  QuotaInv'
  <1> USE DEF QuotaInv, QuotaTypeOK, Began, Paid
  <1>i. Interval \in Nat \ {0} /\ Tolerance \in Nat /\ Interval * Bursts \in Nat
        /\ Tolerance + Interval = Interval * Bursts
    BY RateType
  <1>o. Interval * (allowed + 1) = Interval * allowed + Interval /\ Interval * allowed \in Nat
    BY OneMore
  <1>1. CASE Prune
    BY <1>1, <1>i, <1>o, QuotaAssumption DEF Prune, Maximum
  <1>2. CASE Tick
    BY <1>2, <1>i, <1>o DEF Tick
  <1>3. ASSUME NEW r \in Requester, Take(r)
        PROVE  QuotaInv'
    BY <1>3 DEF Take
  <1>4. ASSUME NEW r \in Requester, Update(r)
        PROVE  QuotaInv'
    <2> DEFINE t == taking[r].now
    <2>1. t \in Nat /\ t <= now
      OBVIOUS
    <2>2. CASE Within(t)
      BY <1>4, <1>i, <1>o, <2>1, <2>2, QuotaAssumption DEF Update, Within, Maximum, Pass, Resting
    <2>3. CASE ~Within(t)
      BY <1>4, <2>3 DEF Update, Go
    <2> QED
      BY <2>2, <2>3
  <1>5. ASSUME NEW r \in Requester, Insert(r)
        PROVE  QuotaInv'
    <2> DEFINE t == taking[r].now
    <2>1. t \in Nat /\ t <= now
      OBVIOUS
    <2>2. CASE tat = NoRow
      BY <1>5, <1>i, <1>o, <2>1, <2>2, QuotaAssumption DEF Insert, Maximum, Pass, Resting
    <2>3. CASE tat # NoRow
      BY <1>5, <2>3 DEF Insert
    <2> QED
      BY <2>2, <2>3
  <1>6. ASSUME NEW r \in Requester, Limited(r)
        PROVE  QuotaInv'
    BY <1>6 DEF Limited, Pass, Resting
  <1> QED
    BY <1>1, <1>2, <1>3, <1>4, <1>5, <1>6 DEF QuotaNext

\* The rate: what was paid and how far the row may be ahead bound what was let through.
LEMMA PaidIsRate == QuotaInv => AtMostRate
  <1> SUFFICES ASSUME QuotaInv PROVE AtMostRate
    OBVIOUS
  <1>1. Interval \in Nat /\ Bursts \in Nat /\ allowed \in Nat
    BY RateType DEF QuotaInv, QuotaTypeOK
  <1>2. \A i, n, b \in Nat : i * (n - b) = i * n - i * b /\ i * n \in Nat /\ i * b \in Nat
    OBVIOUS
  <1>3. Interval * (allowed - Bursts) = Interval * allowed - Interval * Bursts
        /\ Interval * allowed \in Nat /\ Interval * Bursts \in Nat
    BY <1>1, <1>2
  <1>4. Interval * allowed <= now + Interval * Bursts + saved
    BY <1>3 DEF QuotaInv, QuotaTypeOK, Paid
  <1> QED
    BY <1>3, <1>4 DEF AtMostRate, Bursts, QuotaInv, QuotaTypeOK

\* The wait take_rate answers, from the row as it is.
LEMMA WaitIsExact == QuotaInv => RetryExact
  <1> SUFFICES ASSUME QuotaInv, NEW r \in Requester, tat # NoRow
               PROVE  LET t == taking[r].now  d == RetryAfter(t)
                      IN Within(t + d) /\ (d > 1 => ~Within(t + d - 1))
    BY DEF RetryExact
  <1>1. tat \in Int /\ taking[r].now \in Nat /\ Tolerance \in Nat
    BY RateType DEF QuotaInv, QuotaTypeOK
  <1> QED
    BY <1>1 DEF RetryAfter, Within, Maximum

\* Any number of requests on any number of machines, at any rate and burst: no more get through than
\* the burst and one for each interval (take_rate, prune_rate_limits), and a refusal's wait is exact.
THEOREM RateHolds == QuotaSpec => []WithinRate
  <1>1. QuotaInit => QuotaInv
    BY QuotaStarts
  <1>2. QuotaInv /\ [QuotaNext]_quotaVars => QuotaInv'
    <2>1. ASSUME QuotaInv, UNCHANGED quotaVars PROVE QuotaInv'
      BY <2>1 DEF quotaVars, QuotaInv, QuotaTypeOK, Began, Paid
    <2> QED
      BY <2>1, QuotaStep
  <1>3. QuotaInv => WithinRate
    BY PaidIsRate, WaitIsExact DEF WithinRate
  <1> QED
    BY <1>1, <1>2, <1>3, PTL DEF QuotaSpec

-----------------------------------------------------------------------------
(* Renewals. *)

RenewalTypeOK ==
    /\ renewal \subseteq Tunnel /\ active \subseteq Tunnel
    /\ alarm \in [Tunnel -> {"none", "set", "due"}]
    /\ taken \in [Server -> SUBSET Tunnel]
    /\ losses \in Nat

RenewalInv == RenewalTypeOK /\ Covered

\* An alarm that is set, unless the setting is lost, covers its tunnel and uncovers none.
LEMMA SetAlarmCovers ==
    ASSUME RenewalInv, NEW t \in Tunnel, NEW made \in BOOLEAN, SetAlarm(t, made)
    PROVE  /\ alarm' \in [Tunnel -> {"none", "set", "due"}] /\ losses' \in Nat
           /\ losses' = 0 => alarm'[t] # "none"
           /\ losses' = 0 => losses = 0
           /\ \A u \in Tunnel : alarm[u] # "none" => alarm'[u] # "none"
  BY RenewalAssumption DEF RenewalInv, RenewalTypeOK, SetAlarm, Loss, alarmVars

\* Starting a renewal covers its tunnel.
LEMMA StartRenewalCovers ==
    ASSUME RenewalInv, NEW t \in Tunnel, NEW queued \in BOOLEAN, NEW made \in BOOLEAN,
           StartRenewal(t, queued, made)
    PROVE  /\ alarm' \in [Tunnel -> {"none", "set", "due"}] /\ losses' \in Nat
           /\ renewal' \subseteq Tunnel /\ renewal \subseteq renewal'
           /\ losses' = 0 => alarm'[t] # "none" \/ t \in renewal'
           /\ losses' = 0 => losses = 0
           /\ \A u \in Tunnel : alarm[u] # "none" => alarm'[u] # "none"
  <1>1. CASE queued
    BY <1>1 DEF StartRenewal, RenewalInv, RenewalTypeOK, alarmVars
  <1>2. CASE ~queued
    BY <1>2, SetAlarmCovers DEF StartRenewal, RenewalInv, RenewalTypeOK
  <1> QED
    BY <1>1, <1>2

\* So does an alarm that rings for an active tunnel.
LEMMA RingCovers ==
    ASSUME RenewalInv, NEW t \in Tunnel, NEW queued \in BOOLEAN, NEW made \in BOOLEAN,
           Ring(t, queued, made)
    PROVE  /\ alarm' \in [Tunnel -> {"none", "set", "due"}] /\ losses' \in Nat
           /\ renewal' \subseteq Tunnel /\ renewal \subseteq renewal'
           /\ losses' = 0 /\ t \in active => alarm'[t] # "none" \/ t \in renewal'
           /\ losses' = 0 => losses = 0
           /\ \A u \in Tunnel : alarm[u] # "none" => alarm'[u] # "none"
  <1>1. CASE t \notin renewal /\ t \notin due /\ SetAlarm(t, made) /\ UNCHANGED renewal
    BY <1>1, SetAlarmCovers DEF RenewalInv, RenewalTypeOK
  <1>2. CASE StartRenewal(t, queued, made)
    BY <1>2, StartRenewalCovers
  <1>3. CASE (t \in renewal \/ t \notin active) /\ UNCHANGED <<renewal, alarmVars, losses>>
    BY <1>3 DEF RenewalInv, RenewalTypeOK, alarmVars
  <1> QED
    BY <1>1, <1>2, <1>3, Zenon DEF Ring

\* A machine's alarm loop keeps every active tunnel covered.
LEMMA LoopsCover ==
    ASSUME RenewalInv, NEW m \in Server,
           \/ Loops(m) \/ LoopFails(m)
           \/ \E t \in Tunnel : \/ FireFails(m, t)
                                \/ \E made \in BOOLEAN : Fire(m, t, FALSE, made)
                                \/ Fire(m, t, TRUE, FALSE)
    PROVE  RenewalInv'
  <1> USE DEF RenewalInv, RenewalTypeOK, Covered
  <1>1. CASE ReadDue(m)
    BY <1>1 DEF ReadDue
  <1>2. CASE Cleared(m) \/ Fired(m)
    BY <1>2 DEF Cleared, Fired, alarmVars
  <1>3. ASSUME NEW t \in Tunnel, Clear(m, t)
        PROVE  RenewalInv'
    BY <1>3 DEF Clear, alarmVars
  <1>4. ASSUME NEW t \in Tunnel, NEW queued \in BOOLEAN, NEW made \in BOOLEAN, Fire(m, t, queued, made)
        PROVE  RenewalInv'
    <2>1. Ring(t, queued, made) /\ UNCHANGED active /\ taken' = [taken EXCEPT ![m] = @ \ {t}]
      BY <1>4 DEF Fire
    <2>2. taken' \in [Server -> SUBSET Tunnel]
          /\ \A u \in Tunnel : u # t => \A n \in Server : u \in taken[n] => u \in taken'[n]
      BY <2>1
    <2> HIDE DEF RenewalInv
    <2>3. /\ alarm' \in [Tunnel -> {"none", "set", "due"}] /\ losses' \in Nat
          /\ renewal' \subseteq Tunnel /\ renewal \subseteq renewal'
          /\ losses' = 0 /\ t \in active => alarm'[t] # "none" \/ t \in renewal'
          /\ losses' = 0 => losses = 0
          /\ \A u \in Tunnel : alarm[u] # "none" => alarm'[u] # "none"
      BY <2>1, RingCovers
    <2> QED
      BY <2>1, <2>2, <2>3 DEF RenewalInv
  <1>5. ASSUME NEW t \in Tunnel, FireFails(m, t)
        PROVE  RenewalInv'
    BY <1>5, RenewalAssumption DEF FireFails, Loss
  <1>6. CASE LoopFails(m)
    BY <1>6, RenewalAssumption DEF LoopFails, Loss
  <1> QED
    BY <1>1, <1>2, <1>3, <1>4, <1>5, <1>6 DEF Loops

\* So do certificates that become due, renewals that end, and tunnels that come and go.
LEMMA TunnelsCover ==
    ASSUME RenewalInv, NEW t \in Tunnel,
           \/ BecomesDue(t) \/ Rings(t) \/ GoesIdle(t)
           \/ \E queued, made \in BOOLEAN : Attach(t, queued, made)
           \/ \E made \in BOOLEAN : Renewed(t, made) \/ RenewalFails(t, made)
    PROVE  RenewalInv'
  <1> USE DEF RenewalInv, RenewalTypeOK, Covered
  <1>1. CASE BecomesDue(t)
    BY <1>1 DEF BecomesDue, alarmVars, loopVars
  <1>2. CASE Rings(t)
    BY <1>2 DEF Rings, loopVars
  <1>3. CASE GoesIdle(t)
    BY <1>3 DEF GoesIdle, alarmVars, loopVars
  <1>4. ASSUME NEW queued \in BOOLEAN, NEW made \in BOOLEAN, Attach(t, queued, made)
        PROVE  RenewalInv'
    <2>1. active' = active \union {t} /\ UNCHANGED taken
      BY <1>4 DEF Attach, loopVars
    <2>2. CASE StartRenewal(t, queued, made)
      BY <2>1, <2>2, StartRenewalCovers
    <2>3. CASE SetAlarm(t, made) /\ UNCHANGED renewal
      BY <2>1, <2>3, SetAlarmCovers
    <2>4. CASE (t \in renewal \/ alarm[t] # "none") /\ UNCHANGED <<renewal, alarmVars, losses>>
      BY <2>1, <2>4 DEF alarmVars
    <2> QED
      BY <1>4, <2>2, <2>3, <2>4, Zenon DEF Attach
  <1>5. ASSUME NEW made \in BOOLEAN, Renewed(t, made)
        PROVE  RenewalInv'
    <2>1. renewal' = renewal \ {t} /\ SetAlarm(t, made) /\ UNCHANGED <<active, taken>>
      BY <1>5 DEF Renewed, loopVars
    <2> QED
      BY <2>1, SetAlarmCovers
  <1>6. ASSUME NEW made \in BOOLEAN, RenewalFails(t, made)
        PROVE  RenewalInv'
    BY <1>6, RenewalAssumption DEF RenewalFails, Loss, alarmVars, loopVars
  <1> QED
    BY <1>1, <1>2, <1>3, <1>4, <1>5, <1>6

\* For any number of machines and tunnels: as long as no statement fails and no process dies, an active
\* tunnel's renewal is on its way, though machines race to clear the alarms they read (fire_due_alarms).
THEOREM RenewalsAreCovered == RenewalSpec => []Covered
  <1>1. RenewalInit => RenewalInv
    BY DEF RenewalInit, RenewalInv, RenewalTypeOK, Covered
  <1>2. RenewalInv /\ [RenewalNext]_renewalVars => RenewalInv'
    <2>1. ASSUME RenewalInv, UNCHANGED renewalVars PROVE RenewalInv'
      BY <2>1 DEF renewalVars, alarmVars, loopVars, RenewalInv, RenewalTypeOK, Covered
    <2>2. ASSUME RenewalInv, RenewalNext PROVE RenewalInv'
      BY <2>2, LoopsCover, TunnelsCover DEF RenewalNext
    <2> QED
      BY <2>1, <2>2
  <1> QED
    BY <1>1, <1>2, PTL DEF RenewalSpec, RenewalInv

-----------------------------------------------------------------------------
(* Attempts at the CA: a record the CA looks for is published.  Published  *)
(* is about the CA's state and the zone, and neither says whose a record   *)
(* is.  The invariant adds what the attempt knows: it creates records only *)
(* for authorizations it is to answer, answers none whose record it did    *)
(* not see created, and counts as unsettled every one of them the CA may   *)
(* be checking, until it saw it settled; and what the sweep has listed was *)
(* old, or was taken over since.                                           *)

States == {"pending", "processing", "stuck", "valid", "invalid"}
\* Before anything is published.
Choosing == {"idle", "account", "order", "read", "stale", "challenge"}
Places == Choosing \cup Attempting \cup {"clean", "delete"}

AcmeTypeOK ==
    /\ ca \in [Ident -> [number : Nat, state : States]]
    /\ pc \in Places /\ pending \subseteq Ident /\ unsettled \subseteq Ident
    /\ settled \in BOOLEAN /\ leased \in BOOLEAN /\ spare \in BOOLEAN

\* An attempt runs under the job's lease, and begins without records.
Leased ==
    /\ pc # "idle" => leased
    /\ pc \in Choosing => records = {} /\ unsettled = {}
    /\ pc = "idle" => pending = {}

\* An authorization the attempt is to answer is being checked only if it answered it, and before it
\* deletes records it has seen that none is.
Unsettled ==
    \A i \in pending : ca[i].state = "processing" =>
        /\ pc \notin {"clean", "delete"} => i \in unsettled
        /\ pc = "clean" => i \in todo \/ ~settled
        /\ pc # "delete"

\* The records are those of the authorizations to answer.
Answerable ==
    /\ \A i \in Ident : ValueOf(i) \in records => i \in pending
    /\ pc = "create" => \A v \in todo : \E i \in pending : v = ValueOf(i)
    /\ pc = "answer" => todo \subseteq pending
    /\ pc = "delete" => todo \subseteq records

\* What is answered was created, and is there unless a sweep took it.
Shown ==
    pc \in {"create", "answer"} =>
        \A i \in pending : ~(pc = "create" /\ ValueOf(i) \in todo) =>
            ValueOf(i) \in records /\ ValueOf(i) \in zone \cup raced

\* The sweep does not spare what it deletes; that was old when it was listed, and so was a record the
\* CA looks for, or the attempt's, only if it was taken over.
Swept ==
    /\ sweep = "delete" => ~spare
    /\ old \cap records \subseteq takenOver
    /\ sweepTodo \subseteq old \cup takenOver
    /\ \A i \in Ident : ca[i].state = "processing" /\ ValueOf(i) \in old => ValueOf(i) \in takenOver

AcmeInv == AcmeTypeOK /\ Leased /\ Unsettled /\ Answerable /\ Shown /\ Swept /\ Published

-----------------------------------------------------------------------------
(* What steps have in common. *)

\* A record is of one authorization.
LEMMA ValueIs ==
    ASSUME NEW i, NEW j, NEW n, NEW k, Value(i, n) = Value(j, k)
    PROVE  i = j /\ n = k
  BY DEF Value

\* The CA begins no check, and an authorization it is checking keeps its number.
Settles ==
    /\ ca' \in [Ident -> [number : Nat, state : States]]
    /\ \A i \in Ident : ca'[i].state = "processing" => ca[i].state = "processing" /\ ca'[i].number = ca[i].number

\* The same, but for an authorization whose record the attempt created.
Checks ==
    /\ ca' \in [Ident -> [number : Nat, state : States]]
    /\ \A i \in Ident : ca'[i].state = "processing" =>
         /\ ca'[i].number = ca[i].number
         /\ ca[i].state = "processing" \/ (ValueOf(i) \in records /\ ValueOf(i) \in zone \cup raced)

Outside == <<zone, old, sweep, spare, sweepTodo, takenOver, raced>>
\* The zone gains records, and nothing grows old or is swept.
Grows ==
    /\ zone \subseteq zone' /\ takenOver \subseteq takenOver' /\ raced \subseteq raced'
    /\ UNCHANGED <<old, sweep, spare, sweepTodo>>

\* A zone that is left alone loses nothing.
LEMMA OutsideGrows ==
    ASSUME UNCHANGED Outside
    PROVE  Grows
  BY DEF Outside, Grows

\* A CA that begins no check begins none without a record.
LEMMA SettlesChecks ==
    ASSUME Settles
    PROVE  Checks
  BY DEF Settles, Checks

\* Then what the CA looks for is there, as before.
LEMMA ChecksKeep ==
    ASSUME AcmeInv, Checks, Grows, records' \subseteq records
    PROVE  Swept' /\ Published'
  <1>1. \A i \in Ident : ca'[i].state = "processing" => ValueOf(i)' = ValueOf(i) /\ ValueOf(i) \in zone \cup raced
    BY DEF AcmeInv, Published, Checks, ValueOf
  <1>2. Published'
    BY <1>1 DEF Published, Grows
  <1>3. \A i \in Ident : ca'[i].state = "processing" /\ ValueOf(i)' \in old => ValueOf(i) \in takenOver
    BY <1>1 DEF AcmeInv, Swept, Checks
  <1>4. Swept'
    BY <1>1, <1>3 DEF AcmeInv, Swept, Grows
  <1> QED
    BY <1>2, <1>4

\* An attempt that ends, in order or with its process, leaves nothing but records.
LEMMA EndKeeps ==
    ASSUME AcmeInv, Checks, Grows, pc' = "idle", Forget, leased' \in BOOLEAN
    PROVE  AcmeInv'
  <1>1. records' = {} /\ unsettled' = {} /\ pending' = {} /\ settled' = TRUE
    BY DEF Forget, Fresh
  <1>2. AcmeTypeOK'
    BY <1>1 DEF AcmeInv, AcmeTypeOK, Checks, Places, Choosing, Grows
  <1>3. Leased' /\ Unsettled' /\ Answerable' /\ Shown'
    BY <1>1 DEF Leased, Unsettled, Answerable, Shown
  <1>4. Swept' /\ Published'
    BY <1>1, ChecksKeep
  <1> QED
    BY <1>2, <1>3, <1>4 DEF AcmeInv

\* An attempt that is over goes on to deactivate what it answered.
LEMMA CleanKeeps ==
    ASSUME AcmeInv, Checks, \A i \in Ident : ca'[i].number = ca[i].number, Grows, pc \in Attempting,
           NEW remains \in SUBSET Ident, Clean(remains), UNCHANGED records,
           \A i \in pending : ca'[i].state = "processing" => i \in remains
    PROVE  AcmeInv'
  <1>1. pc' = "clean" /\ todo' = remains /\ unsettled' = remains /\ UNCHANGED <<pending, settled, leased>>
    BY DEF Clean, jobVars
  <1>2. AcmeTypeOK'
    BY <1>1 DEF AcmeInv, AcmeTypeOK, Checks, Places, Grows
  <1>3. Leased'
    BY <1>1 DEF AcmeInv, Leased, Choosing, Attempting
  <1>4. Unsettled'
    BY <1>1 DEF Unsettled
  <1>5. Answerable'
    BY <1>1 DEF AcmeInv, Answerable, ValueOf
  <1>6. Shown'
    BY <1>1 DEF Shown
  <1>7. Swept' /\ Published'
    BY ChecksKeep
  <1> QED
    BY <1>2, <1>3, <1>4, <1>5, <1>6, <1>7 DEF AcmeInv

\* Until it published something, an attempt can do as it likes, but answer.
LEMMA ChoosingKeeps ==
    ASSUME AcmeInv, Settles, UNCHANGED <<zone, old, sweep, spare, sweepTodo, takenOver, raced>>,
           pc \in Choosing, pc' \in Choosing \ {"idle"}, leased', leased' \in BOOLEAN, UNCHANGED <<records, unsettled, settled>>,
           pending' \subseteq Ident, \A i \in pending' : ca'[i].state # "processing"
    PROVE  AcmeInv'
  <1>1. records' = {} /\ unsettled' = {}
    BY DEF AcmeInv, Leased
  <1>2. AcmeTypeOK'
    BY <1>1 DEF AcmeInv, AcmeTypeOK, Settles, Places
  <1>3. Leased' /\ Unsettled' /\ Answerable' /\ Shown'
    BY <1>1 DEF Leased, Unsettled, Answerable, Shown, Choosing
  <1>4. Swept' /\ Published'
    BY <1>1, SettlesChecks, OutsideGrows, ChecksKeep DEF Outside
  <1> QED
    BY <1>2, <1>3, <1>4 DEF AcmeInv

\* The CA's own steps, and those of the process that change nothing of the attempt.
LEMMA CaKeeps ==
    ASSUME AcmeInv, Settles, \A i \in Ident : ca'[i].number = ca[i].number,
           UNCHANGED Outside, UNCHANGED <<pc, todo, pending, records, unsettled, settled>>,
           leased' \in BOOLEAN, pc # "idle" => leased'
    PROVE  AcmeInv'
  <1>1. AcmeTypeOK' /\ Leased'
    BY DEF AcmeInv, AcmeTypeOK, Leased, Settles, Outside
  <1>2. Unsettled'
    BY DEF AcmeInv, AcmeTypeOK, Unsettled, Settles
  <1>3. Answerable' /\ Shown'
    BY DEF AcmeInv, AcmeTypeOK, Answerable, Shown, ValueOf, Outside
  <1>4. Swept' /\ Published'
    BY SettlesChecks, OutsideGrows, ChecksKeep
  <1> QED
    BY <1>1, <1>2, <1>3, <1>4 DEF AcmeInv

\* Nothing happens at the CA.
LEMMA SameSettles ==
    ASSUME AcmeInv, UNCHANGED ca
    PROVE  Settles /\ \A i \in Ident : ca'[i].number = ca[i].number
  BY DEF AcmeInv, AcmeTypeOK, Settles

\* A request leaves the records that were taken over, and those swept, as they are.
LEMMA RequestKeeps ==
    ASSUME NEW outcome, Request(outcome)
    PROVE  UNCHANGED <<takenOver, raced>>
  BY DEF Request, Fault, history

-----------------------------------------------------------------------------
(* Placing an order. *)

\* The attempt has answered nothing yet.
LEMMA NoneProcessing ==
    ASSUME AcmeInv, pc \in Choosing
    PROVE  \A i \in pending : ca[i].state # "processing"
  BY DEF AcmeInv, Leased, Unsettled, Choosing

\* An attempt that fails before it published anything.
LEMMA AbandonKeeps ==
    ASSUME AcmeInv, Settles, UNCHANGED <<zone, old, sweep, spare, sweepTodo, takenOver, raced>>, Abandon
    PROVE  AcmeInv'
  <1>1. leased' = FALSE /\ pc' = "idle" /\ Forget
    BY DEF Abandon, End
  <1> QED
    BY <1>1, SettlesChecks, OutsideGrows, EndKeeps DEF Outside

\* Starting, and the account.
LEMMA BeginKeeps ==
    ASSUME AcmeInv, NEW outcome, Begin \/ Register(outcome)
    PROVE  AcmeInv'
  <1>1. Settles
    BY SameSettles DEF Begin, Register, caVars
  <1>2. UNCHANGED <<zone, old, sweep, spare, sweepTodo, takenOver, raced>>
    BY RequestKeeps DEF Begin, Register, zoneVars, sweepVars, history
  <1>3. UNCHANGED ca
    BY DEF Begin, Register, caVars
  <1>4. CASE Begin
    <2>1. /\ pc \in Choosing /\ pc' \in Choosing \ {"idle"} /\ leased' = TRUE
          /\ UNCHANGED <<records, unsettled, settled, pending>>
      BY <1>4 DEF Begin, attemptVars, choiceVars, Choosing
    <2> QED
      BY <1>1, <1>2, <1>3, <2>1, NoneProcessing, ChoosingKeeps DEF AcmeInv, AcmeTypeOK
  <1>5. CASE Register(outcome) /\ ~Abandon
    <2>1. /\ pc = "account" /\ pc' = "order" /\ UNCHANGED <<leased, records, unsettled, settled, pending>>
      BY <1>5 DEF Register, attemptVars, choiceVars
    <2>2. pc \in Choosing /\ pc' \in Choosing \ {"idle"} /\ leased
      BY <2>1 DEF Choosing, AcmeInv, Leased
    <2> QED
      BY <1>1, <1>2, <1>3, <2>1, <2>2, NoneProcessing, ChoosingKeeps DEF AcmeInv, AcmeTypeOK
  <1> QED
    BY <1>1, <1>2, <1>4, <1>5, AbandonKeeps

\* The CA's part: a new authorization is pending.
LEMMA NewOrderSettles ==
    ASSUME AcmeInv, NEW again, NewOrder(again)
    PROVE  Settles
  BY DEF AcmeInv, AcmeTypeOK, NewOrder, Settles, States

\* An order, and reading its authorizations.
LEMMA OrderKeeps ==
    ASSUME AcmeInv, NEW outcome, NEW again, NEW i \in Ident,
           PlaceOrder(outcome, again) \/ ReadAuthorization(i, outcome)
    PROVE  AcmeInv'
  <1>1. Settles
    BY SameSettles, NewOrderSettles DEF PlaceOrder, ReadAuthorization, caVars
  <1>2. UNCHANGED <<zone, old, sweep, spare, sweepTodo, takenOver, raced>>
    BY RequestKeeps DEF PlaceOrder, ReadAuthorization, zoneVars, sweepVars, Fault
  <1>3. pc \in {"order", "read"} /\ pc \in Choosing /\ leased /\ leased \in BOOLEAN
    BY DEF PlaceOrder, ReadAuthorization, Choosing, AcmeInv, Leased, AcmeTypeOK
  <1>4. CASE PlaceOrder(outcome, again) /\ ~Abandon
    <2>1. pc' = "read" /\ pending' = {} /\ UNCHANGED <<leased, records, unsettled, settled>>
      BY <1>4 DEF PlaceOrder, jobVars
    <2>2. pc' \in Choosing \ {"idle"}
      BY <2>1 DEF Choosing
    <2> QED
      BY <1>1, <1>2, <1>3, <2>1, <2>2, ChoosingKeeps
  <1>5. CASE ReadAuthorization(i, outcome) /\ ~Abandon
    <2>1. /\ pc' = "read" /\ UNCHANGED <<ca, leased, records, unsettled, settled>>
          /\ pending' = pending \cup ({i} \cap {j \in Ident : ca[j].state = "pending"})
      BY <1>5 DEF ReadAuthorization, Judge, jobVars, caVars
    <2>2. pc' \in Choosing \ {"idle"}
      BY <2>1 DEF Choosing
    <2>3. pending' \subseteq Ident /\ \A j \in pending' : ca'[j].state # "processing"
      BY <1>3, <2>1, NoneProcessing DEF AcmeInv, AcmeTypeOK
    <2> QED
      BY <1>1, <1>2, <1>3, <2>1, <2>2, <2>3, ChoosingKeeps
  <1> QED
    BY <1>1, <1>2, <1>4, <1>5, AbandonKeeps

\* Deactivating ends a check, and begins none.
LEMMA DeactivateSettles ==
    ASSUME AcmeInv, NEW i \in Ident, NEW outcome, Deactivate(i, outcome)
    PROVE  /\ Settles /\ (\A j \in Ident : ca'[j].number = ca[j].number)
           /\ Deactivated(i, outcome) => ca'[i].state # "processing"
           /\ UNCHANGED <<takenOver, raced>>
  <1>1. UNCHANGED <<takenOver, raced>>
    BY RequestKeeps DEF Deactivate
  <1>2. PICK x : x = IF Applied(outcome) /\ InProgress(i) THEN "invalid" ELSE ca[i].state
    OBVIOUS
  <1>3. ca' = [ca EXCEPT ![i].state = x] /\ x \in States
    BY <1>2 DEF Deactivate, AcmeInv, AcmeTypeOK, States
  <1>4. Settles /\ (\A j \in Ident : ca'[j].number = ca[j].number) /\ ca'[i].state = x
    BY <1>2, <1>3 DEF Settles, AcmeInv, AcmeTypeOK
  <1>5. Deactivated(i, outcome) => x # "processing"
    BY <1>2 DEF Deactivated, InProgress
  <1> QED
    BY <1>1, <1>4, <1>5

\* Choosing the order, or making room for another one.
LEMMA ChooseKeeps ==
    ASSUME AcmeInv, NEW outcome, NEW i \in Ident, Choose \/ DeactivateStale(i, outcome) \/ OrderAgain
    PROVE  AcmeInv'
  <1>1. Settles
    BY SameSettles, DeactivateSettles DEF Choose, DeactivateStale, OrderAgain, caVars
  <1>2. UNCHANGED <<zone, old, sweep, spare, sweepTodo, takenOver, raced>>
    BY DeactivateSettles DEF Choose, DeactivateStale, OrderAgain, zoneVars, sweepVars, history
  <1>3. pc \in Choosing /\ leased /\ leased \in BOOLEAN
    BY DEF Choose, DeactivateStale, OrderAgain, Choosing, AcmeInv, Leased, AcmeTypeOK
  <1>4. CASE ~Abandon
    <2>1. /\ pc' \in {"challenge", "stale", "order"} /\ UNCHANGED <<leased, records, unsettled, settled, pending>>
      BY <1>4 DEF Choose, DeactivateStale, OrderAgain, jobVars, attemptVars, choiceVars
    <2>2. pc' \in Choosing \ {"idle"}
      BY <2>1 DEF Choosing
    <2>3. pending' \subseteq Ident /\ \A j \in pending' : ca'[j].state # "processing"
      BY <1>1, <1>3, <2>1, NoneProcessing DEF AcmeInv, AcmeTypeOK, Settles
    <2> QED
      BY <1>1, <1>2, <1>3, <2>1, <2>2, <2>3, ChoosingKeeps
  <1> QED
    BY <1>1, <1>2, <1>4, AbandonKeeps

\* The challenge is recorded; then records are created for the authorizations to answer.
LEMMA OnChallengeKeeps ==
    ASSUME AcmeInv, NEW outcome, OnChallenge(outcome)
    PROVE  AcmeInv'
  <1>1. Settles /\ UNCHANGED ca
    BY SameSettles DEF OnChallenge, caVars
  <1>2. UNCHANGED <<zone, old, sweep, spare, sweepTodo, takenOver, raced>>
    BY RequestKeeps DEF OnChallenge, zoneVars, sweepVars
  <1>3. pc \in Choosing /\ leased
    BY DEF OnChallenge, Choosing, AcmeInv, Leased
  <1>4. CASE ~Abandon
    <2>1. /\ pc' = "create" /\ todo' = {ValueOf(i) : i \in pending}
          /\ UNCHANGED <<leased, records, unsettled, settled, pending>>
      BY <1>4 DEF OnChallenge, jobVars
    <2>2. AcmeTypeOK' /\ Leased'
      BY <1>1, <1>2, <1>3, <2>1 DEF AcmeInv, AcmeTypeOK, Leased, Places, Attempting, Choosing
    <2>3. Unsettled'
      BY <1>1, <1>3, <2>1, NoneProcessing DEF Unsettled
    <2>4. records = {}
      BY <1>3 DEF AcmeInv, Leased
    <2>5. Answerable' /\ Shown'
      BY <1>1, <2>1, <2>4 DEF Answerable, Shown, ValueOf
    <2>6. Swept' /\ Published'
      BY <1>1, <1>2, <2>1, SettlesChecks, OutsideGrows, ChecksKeep DEF Outside
    <2> QED
      BY <2>2, <2>3, <2>5, <2>6 DEF AcmeInv
  <1> QED
    BY <1>1, <1>2, <1>4, AbandonKeeps

-----------------------------------------------------------------------------
(* Answering it. *)

\* While it creates records and answers, an attempt has answered what the CA is checking.
LEMMA AttemptingIs ==
    ASSUME AcmeInv, pc \in Attempting
    PROVE  /\ \A i \in pending : ca[i].state = "processing" => i \in unsettled
           /\ leased /\ pc # "idle" /\ pc \notin {"clean", "delete"}
  BY DEF AcmeInv, Unsettled, Leased, Attempting

\* A record is created, or taken over.
LEMMA CreateKeeps ==
    ASSUME AcmeInv, NEW v, NEW outcome \in Outcomes, CreateTxt(v, outcome)
    PROVE  AcmeInv'
  <1>1. /\ pc = "create" /\ v \in todo /\ takenOver' = takenOver \cup ({v} \cap old)
        /\ UNCHANGED <<ca, old, sweep, spare, sweepTodo, raced>>
        /\ (zone' = zone \/ zone' = zone \cup {v}) /\ (outcome = "ok" => zone' = zone \cup {v})
    BY DEF CreateTxt, Now, Publish, zoneVars, sweepVars, caVars, Applied
  <1>2. Settles /\ Checks /\ Grows /\ (\A i \in Ident : ca'[i].number = ca[i].number) /\ pc \in Attempting
    BY <1>1, SameSettles, SettlesChecks DEF Grows, Attempting
  <1>3. CASE outcome # "ok"
    <2>1. Clean(unsettled) /\ UNCHANGED records /\ unsettled \in SUBSET Ident
      BY <1>3 DEF CreateTxt, AcmeInv, AcmeTypeOK
    <2> QED
      BY <1>1, <1>2, <2>1, AttemptingIs, CleanKeeps
  <1>4. CASE outcome = "ok"
    <2>1. /\ records' = records \cup {v} /\ todo' = todo \ {v} /\ zone' = zone \cup {v}
          /\ UNCHANGED <<pc, pending, unsettled, settled, leased>>
      BY <1>1, <1>4 DEF CreateTxt, jobVars
    <2>2. AcmeTypeOK' /\ Leased'
      BY <1>1, <2>1 DEF AcmeInv, AcmeTypeOK, Leased, Choosing
    <2>3. Unsettled'
      BY <1>1, <2>1 DEF AcmeInv, Unsettled
    <2>4. PICK j \in pending : v = ValueOf(j)
      BY <1>1 DEF AcmeInv, Answerable
    <2>5. \A i \in Ident : ValueOf(i)' = ValueOf(i) /\ (ValueOf(i) = v => i \in pending)
      BY <1>1, <2>4, ValueIs DEF ValueOf
    <2>6. Answerable'
      BY <1>1, <2>1, <2>5 DEF AcmeInv, AcmeTypeOK, Answerable
    <2>7. Shown'
      BY <1>1, <2>1, <2>5 DEF AcmeInv, AcmeTypeOK, Shown
    <2>8. Swept'
      BY <1>1, <2>1, <2>5 DEF AcmeInv, Swept
    <2>9. Published'
      BY <1>1, <2>1, <2>5 DEF AcmeInv, Published
    <2> QED
      BY <2>2, <2>3, <2>6, <2>7, <2>8, <2>9 DEF AcmeInv
  <1> QED
    BY <1>3, <1>4

\* The CA begins to check only what has its record.
LEMMA AnsweredChecks ==
    ASSUME AcmeInv, pc = "answer", NEW i \in todo, Answered(i)
    PROVE  /\ Checks /\ i \in Ident /\ (\A j \in Ident : ca'[j].number = ca[j].number)
           /\ \A j \in Ident \ {i} : ca'[j] = ca[j]
  <1>1. i \in pending /\ i \in Ident /\ ValueOf(i) \in records /\ ValueOf(i) \in zone \cup raced
    BY DEF AcmeInv, AcmeTypeOK, Answerable, Shown
  <1>2. PICK x : x = IF ca[i].state = "pending" THEN "processing" ELSE ca[i].state
    OBVIOUS
  <1>3. ca' = [ca EXCEPT ![i].state = x] /\ x \in States
    BY <1>1, <1>2 DEF Answered, AcmeInv, AcmeTypeOK, States
  <1> QED
    BY <1>1, <1>3 DEF AcmeInv, AcmeTypeOK, Checks

\* A challenge is answered.
LEMMA AnswerKeeps ==
    ASSUME AcmeInv, NEW i \in Ident, NEW outcome, Answer(i, outcome)
    PROVE  AcmeInv'
  <1>1. pc = "answer" /\ pc \in Attempting /\ i \in todo /\ UNCHANGED Outside
    BY RequestKeeps DEF Answer, Now, Outside, zoneVars, sweepVars, Attempting
  <1>2. /\ Checks /\ (\A j \in Ident : ca'[j].number = ca[j].number)
        /\ \A j \in Ident \ {i} : ca'[j] = ca[j]
    <2>1. CASE Answered(i)
      BY <1>1, <2>1, AnsweredChecks
    <2>2. CASE UNCHANGED ca
      BY <2>2, SameSettles, SettlesChecks
    <2> QED
      BY <2>1, <2>2 DEF Answer, caVars
  <1>3. CASE outcome # "ok"
    <2>1. Clean(unsettled \cup {i}) /\ UNCHANGED records /\ unsettled \cup {i} \in SUBSET Ident
      BY <1>3 DEF Answer, AcmeInv, AcmeTypeOK
    <2>2. \A j \in pending : ca'[j].state = "processing" => j \in unsettled \cup {i}
      BY <1>1, <1>2, AttemptingIs DEF AcmeInv, AcmeTypeOK
    <2> QED
      BY <1>1, <1>2, <2>1, <2>2, OutsideGrows, CleanKeeps
  <1>4. CASE outcome = "ok"
    <2>1. unsettled' = unsettled \cup {i} /\ todo' = todo \ {i} /\ UNCHANGED <<pc, pending, records, settled, leased>>
      BY <1>4 DEF Answer, jobVars
    <2>2. AcmeTypeOK' /\ Leased'
      BY <1>1, <1>2, <2>1 DEF AcmeInv, AcmeTypeOK, Leased, Checks, Choosing, Outside
    <2>3. Unsettled'
      BY <1>1, <1>2, <2>1, AttemptingIs DEF Unsettled, AcmeInv, AcmeTypeOK
    <2>4. \A j \in Ident : ValueOf(j)' = ValueOf(j)
      BY <1>2 DEF ValueOf
    <2>5. Answerable' /\ Shown'
      BY <1>1, <2>1, <2>4 DEF AcmeInv, AcmeTypeOK, Answerable, Shown, Outside
    <2>6. Swept' /\ Published'
      BY <1>1, <1>2, <2>1, OutsideGrows, ChecksKeep
    <2> QED
      BY <2>2, <2>3, <2>5, <2>6 DEF AcmeInv
  <1> QED
    BY <1>3, <1>4

\* The steps from one loop to the next.
LEMMA LoopsKeep ==
    ASSUME AcmeInv, Propagated \/ Poll \/ Authorized
    PROVE  AcmeInv'
  <1>1. UNCHANGED ca /\ UNCHANGED Outside /\ UNCHANGED <<pending, records, unsettled, settled, leased>>
    BY DEF Propagated, Poll, Authorized, caVars, Outside, zoneVars, sweepVars, history, jobVars, attemptVars, choiceVars
  <1>2. /\ pc \in Attempting /\ pc' \in Attempting /\ pc' # "create"
        /\ pc' = "answer" => pc = "create" /\ todo = {} /\ todo' = pending
    BY DEF Propagated, Poll, Authorized, Attempting
  <1>3. AcmeTypeOK' /\ Leased'
    BY <1>1, <1>2 DEF AcmeInv, AcmeTypeOK, Leased, Choosing, Attempting, Places, Outside
  <1>4. Unsettled'
    BY <1>1, <1>2, AttemptingIs DEF Unsettled, Attempting
  <1>5. Answerable' /\ Shown'
    BY <1>1, <1>2 DEF AcmeInv, Answerable, Shown, ValueOf, Attempting, Outside
  <1>6. Swept' /\ Published'
    BY <1>1, SameSettles, SettlesChecks, OutsideGrows, ChecksKeep
  <1> QED
    BY <1>3, <1>4, <1>5, <1>6 DEF AcmeInv

\* An unsettled authorization is read.
LEMMA PollKeeps ==
    ASSUME AcmeInv, NEW i \in Ident, NEW outcome, PollAuthorization(i, outcome)
    PROVE  AcmeInv'
  <1>1. /\ pc = "poll" /\ pc \in Attempting /\ (outcome = "ok" => ~InProgress(i)) /\ UNCHANGED ca
        /\ UNCHANGED Outside /\ Settles /\ Checks /\ \A j \in Ident : ca'[j].number = ca[j].number
    BY RequestKeeps, SameSettles, SettlesChecks
    DEF PollAuthorization, Outside, caVars, zoneVars, sweepVars, Attempting
  <1>2. CASE outcome = "ok" /\ ca[i].state = "valid"
    <2>1. unsettled' = unsettled \ {i} /\ UNCHANGED <<pc, todo, pending, records, settled, leased>>
      BY <1>2 DEF PollAuthorization, choiceVars, jobVars
    <2>2. AcmeTypeOK' /\ Leased'
      BY <1>1, <2>1 DEF AcmeInv, AcmeTypeOK, Leased, Choosing, Outside
    <2>3. Unsettled'
      BY <1>1, <1>2, <2>1, AttemptingIs DEF Unsettled
    <2>4. Answerable' /\ Shown'
      BY <1>1, <2>1 DEF AcmeInv, Answerable, Shown, ValueOf
    <2>5. Swept' /\ Published'
      BY <1>1, <2>1, OutsideGrows, ChecksKeep
    <2> QED
      BY <2>2, <2>3, <2>4, <2>5 DEF AcmeInv
  <1>3. CASE ~(outcome = "ok" /\ ca[i].state = "valid")
    <2>1. PICK remains : remains = IF outcome = "ok" THEN unsettled \ {i} ELSE unsettled
      OBVIOUS
    <2>2. Clean(remains) /\ UNCHANGED records
      BY <1>3, <2>1 DEF PollAuthorization
    <2>3. remains \in SUBSET Ident
      BY <2>1 DEF AcmeInv, AcmeTypeOK
    <2>4. \A j \in pending : ca'[j].state = "processing" => j \in remains
      BY <1>1, <2>1, AttemptingIs DEF InProgress
    <2> QED
      BY <1>1, <2>2, <2>3, <2>4, OutsideGrows, CleanKeeps
  <1> QED
    BY <1>2, <1>3

\* The ways in which an attempt is over before its clean-up.
LEMMA OverKeeps ==
    ASSUME AcmeInv, NEW outcome, PollsExhausted \/ Finalize(outcome) \/ Certificate(outcome)
    PROVE  AcmeInv'
  <1>1. /\ pc \in Attempting /\ UNCHANGED ca /\ UNCHANGED Outside
        /\ Settles /\ Checks /\ \A j \in Ident : ca'[j].number = ca[j].number
    <2>1. UNCHANGED <<takenOver, raced>>
      BY RequestKeeps DEF PollsExhausted, Finalize, Certificate, Fault, history
    <2>2. pc \in Attempting /\ UNCHANGED ca /\ UNCHANGED Outside
      BY <2>1 DEF PollsExhausted, Finalize, Certificate, caVars, zoneVars, sweepVars, Outside, Attempting
    <2> QED
      BY <2>2, SameSettles, SettlesChecks
  <1>2. CASE Clean(unsettled) /\ UNCHANGED records
    <2>1. unsettled \in SUBSET Ident
      BY DEF AcmeInv, AcmeTypeOK
    <2> QED
      BY <1>1, <1>2, <2>1, AttemptingIs, OutsideGrows, CleanKeeps
  <1>3. CASE pc = "finalize" /\ pc' = "certificate" /\ UNCHANGED <<attemptVars, jobVars>>
    <2>1. UNCHANGED <<todo, pending, records, unsettled, settled, leased>>
      BY <1>3 DEF attemptVars, choiceVars, jobVars
    <2>2. AcmeTypeOK' /\ Leased'
      BY <1>1, <1>3, <2>1 DEF AcmeInv, AcmeTypeOK, Leased, Choosing, Attempting, Places, Outside
    <2>3. Unsettled'
      BY <1>1, <1>3, <2>1, AttemptingIs DEF Unsettled
    <2>4. Answerable' /\ Shown'
      BY <1>1, <1>3, <2>1 DEF AcmeInv, Answerable, Shown, ValueOf
    <2>5. Swept' /\ Published'
      BY <1>1, <2>1, OutsideGrows, ChecksKeep
    <2> QED
      BY <2>2, <2>3, <2>4, <2>5 DEF AcmeInv
  <1> QED
    BY <1>2, <1>3 DEF PollsExhausted, Finalize, Certificate

\* A request that is given up may have created a record, or had one checked that is there.
LEMMA CutOffChecks ==
    ASSUME AcmeInv, NEW cut, CutOff(cut), UNCHANGED <<sweep, spare, sweepTodo, takenOver, raced>>
    PROVE  /\ Checks /\ Grows /\ (\A j \in Ident : ca'[j].number = ca[j].number)
           /\ \A j \in Ident \ {cut} : ca'[j] = ca[j]
           /\ pc # "answer" => UNCHANGED ca
  <1>1. CASE pc = "create" /\ Publish(cut) /\ UNCHANGED caVars
    BY <1>1, SameSettles, SettlesChecks DEF Publish, caVars, Grows
  <1>2. CASE pc = "answer" /\ Now(cut) /\ Answered(cut) /\ UNCHANGED zoneVars
    <2>1. cut \in todo /\ Grows
      BY <1>2 DEF Now, zoneVars, Grows
    <2> QED
      BY <1>2, <2>1, AnsweredChecks
  <1>3. CASE UNCHANGED <<caVars, zoneVars>>
    BY <1>3, SameSettles, SettlesChecks DEF caVars, zoneVars, Grows
  <1> QED
    BY <1>1, <1>2, <1>3 DEF CutOff

\* A shutdown, and the death of the process.
LEMMA CutShort ==
    ASSUME AcmeInv, NEW cut, Interrupt(cut) \/ Crash(cut)
    PROVE  AcmeInv'
  <1>1. CutOff(cut) /\ UNCHANGED <<sweep, spare, sweepTodo, takenOver, raced>>
    BY DEF Interrupt, Crash, Fault, sweepVars
  <1>2. /\ Checks /\ Grows /\ (\A j \in Ident : ca'[j].number = ca[j].number)
        /\ \A j \in Ident \ {cut} : ca'[j] = ca[j]
    BY <1>1, CutOffChecks
  <1>3. CASE Crash(cut)
    <2>1. pc' = "idle" /\ Forget /\ leased' \in BOOLEAN
      BY <1>3 DEF Crash, AcmeInv, AcmeTypeOK
    <2> QED
      BY <1>2, <2>1, EndKeeps
  <1>4. CASE Interrupt(cut)
    <2>1. PICK remains : remains = unsettled \cup ({cut} \cap Ident)
      OBVIOUS
    <2>2. pc \in Attempting /\ Clean(remains) /\ UNCHANGED records
      BY <1>4, <2>1 DEF Interrupt
    <2>3. remains \in SUBSET Ident
      BY <2>1 DEF AcmeInv, AcmeTypeOK
    <2>4. \A j \in pending : ca'[j].state = "processing" => j \in remains
      BY <1>2, <2>1, <2>2, AttemptingIs DEF AcmeInv, AcmeTypeOK
    <2> QED
      BY <1>2, <2>2, <2>3, <2>4, CleanKeeps
  <1> QED
    BY <1>3, <1>4

-----------------------------------------------------------------------------
(* Cleaning up. *)

\* An authorization is deactivated, or the records are kept.
LEMMA CleanAuthorizationKeeps ==
    ASSUME AcmeInv, NEW i \in Ident, NEW outcome, CleanAuthorization(i, outcome)
    PROVE  AcmeInv'
  <1>1. /\ pc = "clean" /\ todo' = todo \ {i} /\ settled' = (settled /\ Deactivated(i, outcome))
        /\ UNCHANGED <<pc, pending, records, unsettled, leased, zone, old, sweep, spare, sweepTodo>>
    BY DEF CleanAuthorization, jobVars, zoneVars, sweepVars
  <1>2. /\ Settles /\ (\A j \in Ident : ca'[j].number = ca[j].number) /\ UNCHANGED <<takenOver, raced>>
        /\ Deactivated(i, outcome) => ca'[i].state # "processing"
    BY DeactivateSettles DEF CleanAuthorization
  <1>3. UNCHANGED Outside
    BY <1>1, <1>2 DEF Outside
  <1>4. AcmeTypeOK'
    <2>1. settled' \in BOOLEAN
      BY <1>1
    <2> QED
      BY <1>1, <1>2, <2>1 DEF AcmeInv, AcmeTypeOK, Settles
  <1>5. Leased'
    BY <1>1 DEF AcmeInv, Leased, Choosing
  <1>6. Unsettled'
    <2> SUFFICES ASSUME NEW j \in pending, ca'[j].state = "processing" PROVE j \in todo' \/ ~settled'
      BY <1>1 DEF Unsettled
    <2>1. j \in todo \/ ~settled
      BY <1>1, <1>2 DEF AcmeInv, AcmeTypeOK, Unsettled, Settles
    <2>2. j = i => ~Deactivated(i, outcome)
      BY <1>2
    <2> QED
      BY <1>1, <2>1, <2>2
  <1>7. Answerable' /\ Shown'
    BY <1>1, <1>2 DEF AcmeInv, Answerable, Shown, ValueOf
  <1>8. Swept' /\ Published'
    BY <1>1, <1>2, <1>3, SettlesChecks, OutsideGrows, ChecksKeep
  <1> QED
    BY <1>4, <1>5, <1>6, <1>7, <1>8 DEF AcmeInv

\* Then the records go, if no check was left, and the attempt ends.
LEMMA FinishKeeps ==
    ASSUME AcmeInv, KeepOrDelete \/ Finish
    PROVE  AcmeInv'
  <1>1. UNCHANGED ca /\ UNCHANGED Outside
    BY DEF KeepOrDelete, Finish, Outside, caVars, zoneVars, sweepVars, history
  <1>2. Settles /\ Checks /\ Grows
    BY <1>1, SameSettles, SettlesChecks, OutsideGrows
  <1>3. CASE End
    BY <1>2, <1>3, EndKeeps DEF End
  <1>4. CASE KeepOrDelete /\ ~End
    <2>1. /\ pc = "clean" /\ todo = {} /\ settled /\ pc' = "delete" /\ todo' = records
          /\ UNCHANGED <<pending, records, unsettled, settled, leased>>
      BY <1>4 DEF KeepOrDelete, jobVars
    <2>2. AcmeTypeOK' /\ Leased'
      BY <1>1, <2>1 DEF AcmeInv, AcmeTypeOK, Leased, Choosing, Places, Outside
    <2>3. Unsettled'
      BY <1>1, <2>1 DEF AcmeInv, Unsettled
    <2>4. Answerable' /\ Shown'
      BY <1>1, <2>1 DEF AcmeInv, Answerable, Shown, ValueOf
    <2>5. Swept' /\ Published'
      BY <1>2, <2>1, ChecksKeep
    <2> QED
      BY <2>2, <2>3, <2>4, <2>5 DEF AcmeInv
  <1> QED
    BY <1>3, <1>4 DEF Finish

\* A record goes: no check looks for it.
LEMMA DeleteKeeps ==
    ASSUME AcmeInv, NEW v, NEW outcome, DeleteTxt(v, outcome)
    PROVE  AcmeInv'
  <1>1. /\ pc = "delete" /\ v \in todo /\ todo' = todo \ {v}
        /\ UNCHANGED <<ca, pc, pending, records, unsettled, settled, leased, sweep, spare, sweepTodo, takenOver, raced>>
        /\ zone \ {v} \subseteq zone' /\ old' \in {old, old \ {v}}
    BY RequestKeeps DEF DeleteTxt, Now, Unpublish, zoneVars, jobVars, caVars, sweepVars
  <1>2. v \in records /\ \A i \in Ident : ca[i].state = "processing" => ValueOf(i) # v
    BY <1>1 DEF AcmeInv, Answerable, Unsettled
  <1>3. AcmeTypeOK' /\ Leased' /\ Unsettled' /\ Answerable' /\ Shown'
    BY <1>1 DEF AcmeInv, AcmeTypeOK, Leased, Unsettled, Answerable, Shown, ValueOf
  <1>4. Published'
    BY <1>1, <1>2 DEF AcmeInv, Published, ValueOf
  <1>5. v \in old => v \in takenOver
    BY <1>2 DEF AcmeInv, Swept
  <1>6. Swept'
    BY <1>1, <1>5 DEF AcmeInv, Swept, ValueOf
  <1> QED
    BY <1>3, <1>4, <1>6 DEF AcmeInv

-----------------------------------------------------------------------------
(* The process, the CA and the sweep. *)

\* What changes nothing of the attempt but its lease, and the CA's checks.
LEMMA AroundKeeps ==
    ASSUME AcmeInv, NEW i \in Ident,
           Stop \/ LeaseExpires \/ Restart \/ Check(i) \/ CheckSticks(i) \/ CheckFails(i) \/ CaIssues
    PROVE  AcmeInv'
  <1>1. UNCHANGED Outside /\ UNCHANGED <<pc, todo, pending, records, unsettled, settled>>
    <2>1. UNCHANGED <<takenOver, raced>>
      BY DEF Stop, LeaseExpires, Restart, Check, CheckSticks, CheckFails, CaIssues, Fault, history
    <2> QED
      BY <2>1 DEF Stop, LeaseExpires, Restart, Check, CheckSticks, CheckFails, CaIssues, CaStep, Outside, zoneVars,
         sweepVars, attemptVars, choiceVars
  <1>2. leased' \in BOOLEAN /\ (pc # "idle" => leased')
    <2>1. leased \in BOOLEAN /\ (pc # "idle" => leased)
      BY DEF AcmeInv, AcmeTypeOK, Leased
    <2> QED
      BY <2>1 DEF Stop, LeaseExpires, Restart, Check, CheckSticks, CheckFails, CaIssues, CaStep, jobVars
  <1>3. CASE UNCHANGED ca
    BY <1>1, <1>2, <1>3, SameSettles, CaKeeps
  <1>4. CASE \E x \in States \ {"processing"} : ca' = [ca EXCEPT ![i].state = x]
    <2>1. Settles /\ \A j \in Ident : ca'[j].number = ca[j].number
      BY <1>4 DEF Settles, AcmeInv, AcmeTypeOK
    <2> QED
      BY <1>1, <1>2, <2>1, CaKeeps
  <1>5. \A x \in {"valid", "invalid", "stuck"} : x \in States \ {"processing"}
    BY DEF States
  <1> QED
    BY <1>3, <1>4, <1>5 DEF Stop, LeaseExpires, Restart, Check, CheckSticks, CheckFails, CaIssues, caVars

\* A record grows old that no attempt has and no check looks for.
LEMMA AgeKeeps ==
    ASSUME AcmeInv, NEW v, Age(v)
    PROVE  AcmeInv'
  <1>1. /\ v \notin records /\ (\A i \in Ident : ca[i].state = "processing" => ValueOf(i) # v)
        /\ old' = old \cup {v}
        /\ UNCHANGED <<ca, pc, todo, pending, records, unsettled, settled, leased, zone, sweep, spare, sweepTodo,
                       takenOver, raced>>
    BY DEF Age, caVars, attemptVars, choiceVars, jobVars, sweepVars, history
  <1>2. AcmeTypeOK' /\ Leased' /\ Unsettled' /\ Answerable' /\ Shown' /\ Published'
    BY <1>1 DEF AcmeInv, AcmeTypeOK, Leased, Unsettled, Answerable, Shown, Published, ValueOf
  <1>3. Swept'
    BY <1>1 DEF AcmeInv, Swept, ValueOf
  <1> QED
    BY <1>2, <1>3 DEF AcmeInv

\* The sweep: what it takes of a running attempt, or of one that took it over, is noted.
LEMMA SweepKeeps ==
    ASSUME AcmeInv, NEW v, NEW outcome, SweepBegin \/ SweepList \/ SweepDelete(v, outcome)
    PROVE  AcmeInv'
  <1>1. UNCHANGED <<ca, pc, todo, pending, records, unsettled, settled, leased, takenOver>>
    BY DEF SweepBegin, SweepList, SweepDelete, caVars, attemptVars, choiceVars, jobVars, history
  <1>2. spare \in BOOLEAN /\ leased \in BOOLEAN /\ \A i \in Ident : ValueOf(i)' = ValueOf(i)
    BY <1>1 DEF AcmeInv, AcmeTypeOK, ValueOf
  <1>3. spare' \in BOOLEAN
    BY <1>2 DEF SweepBegin, SweepList, SweepDelete, SweepOver
  <1>4. AcmeTypeOK' /\ Leased' /\ Unsettled' /\ Answerable'
    BY <1>1, <1>2, <1>3 DEF AcmeInv, AcmeTypeOK, Leased, Unsettled, Answerable
  <1>5. CASE SweepBegin \/ SweepList
    <2>1. UNCHANGED <<zone, old, raced>> /\ (sweep' = "delete" => ~spare')
      BY <1>5 DEF SweepBegin, SweepList, SweepOver, zoneVars, history
    <2>2. sweepTodo' \subseteq old \cup takenOver
      BY <1>5 DEF SweepBegin, SweepList, AcmeInv, Swept
    <2>3. Shown' /\ Published' /\ Swept'
      BY <1>1, <1>2, <2>1, <2>2 DEF AcmeInv, AcmeTypeOK, Shown, Published, Swept
    <2> QED
      BY <1>4, <2>3 DEF AcmeInv
  <1>6. CASE SweepDelete(v, outcome)
    <2>1. /\ sweep = "delete" /\ v \in sweepTodo /\ v \notin sweepTodo' /\ sweepTodo' \subseteq sweepTodo
          /\ zone \ {v} \subseteq zone' /\ old' \in {old, old \ {v}}
          /\ raced' = raced \cup {w \in zone \ zone' : IF leased THEN ~spare ELSE w \in takenOver}
      BY <1>6 DEF SweepDelete, Unpublish, zoneVars
    <2>2. ~spare /\ (sweep' = "delete" => ~spare')
      BY <1>6, <2>1 DEF SweepDelete, SweepOver, AcmeInv, Swept
    <2>3. \A w \in zone : (leased \/ w \in takenOver) => w \in zone' \cup raced'
      BY <2>1, <2>2
    <2>4. raced \subseteq raced'
      BY <2>1
    <2>5. Shown'
      <3>1. pc \in {"create", "answer"} => leased
        BY DEF AcmeInv, Leased
      <3> QED
        BY <1>1, <1>2, <2>3, <2>4, <3>1 DEF AcmeInv, AcmeTypeOK, Shown
    <2>6. Published'
      <3> SUFFICES ASSUME NEW i \in Ident, ca[i].state = "processing" PROVE ValueOf(i) \in zone' \cup raced'
        BY <1>1, <1>2 DEF Published
      <3>1. ValueOf(i) \in zone \cup raced
        BY DEF AcmeInv, Published
      <3>2. CASE ValueOf(i) = v
        <4>1. v \in takenOver
          BY <2>1, <3>2 DEF AcmeInv, Swept
        <4> QED
          BY <2>3, <2>4, <3>1, <3>2, <4>1
      <3>3. CASE ValueOf(i) # v
        BY <2>1, <2>4, <3>1, <3>3
      <3> QED
        BY <3>2, <3>3
    <2>7. Swept'
      BY <1>1, <1>2, <2>1, <2>2 DEF AcmeInv, Swept
    <2> QED
      BY <1>4, <2>5, <2>6, <2>7 DEF AcmeInv
  <1> QED
    BY <1>5, <1>6

\* For any number of identifiers, and whatever fails, is cut off or left behind: an authorization the CA is checking
\* has its record published, unless a sweep that read the leases before took it (Acme::issue and its clean-up of
\* acme.rs, sweep_dns of jobs.rs).
THEOREM CheckedIsPublished == AcmeSpec => []Published
  <1>1. AcmeInit => AcmeInv
    <2> SUFFICES ASSUME AcmeInit PROVE AcmeInv
      OBVIOUS
    <2>1. \A i \in Ident : ca[i].state = "invalid"
      BY DEF AcmeInit
    <2>2. /\ pc = "idle" /\ records = {} /\ pending = {} /\ unsettled = {} /\ settled = TRUE /\ leased = FALSE
          /\ spare = FALSE /\ sweep = "off" /\ sweepTodo = {} /\ old = {} /\ zone = {}
      BY DEF AcmeInit, Fresh
    <2>3. ca \in [Ident -> [number : Nat, state : States]]
      BY DEF AcmeInit, States
    <2>4. AcmeTypeOK
      BY <2>2, <2>3 DEF AcmeTypeOK, Places, Choosing
    <2> QED
      BY <2>1, <2>2, <2>4 DEF AcmeInv, Leased, Unsettled, Answerable, Shown, Swept, Published
  <1>2. AcmeInv /\ [AcmeNext]_acmeVars => AcmeInv'
    <2> SUFFICES ASSUME AcmeInv, [AcmeNext]_acmeVars PROVE AcmeInv'
      OBVIOUS
    <2>1. PICK i0 \in Ident : TRUE
      BY AcmeAssumption
    <2>2. "ok" \in Outcomes /\ Outcomes \ {"ok"} \subseteq Outcomes
      BY DEF Outcomes
    <2>3. ASSUME Work PROVE AcmeInv'
      <3>1. CASE Begin \/ Register("ok") \/ PlaceOrder("ok", {}) \/ Choose \/ OrderAgain \/ OnChallenge("ok")
        BY <2>1, <3>1, BeginKeeps, OrderKeeps, ChooseKeeps, OnChallengeKeeps
      <3>2. CASE Propagated \/ Poll \/ PollsExhausted \/ Authorized \/ Finalize("ok") \/ Certificate("ok")
        BY <3>2, LoopsKeep, OverKeeps
      <3>3. CASE Interrupt(None) \/ KeepOrDelete \/ Finish
        BY <3>3, CutShort, FinishKeeps
      <3>4. ASSUME NEW i \in Ident, \/ ReadAuthorization(i, "ok") \/ DeactivateStale(i, "ok") \/ Answer(i, "ok")
                                    \/ PollAuthorization(i, "ok") \/ CleanAuthorization(i, "ok")
            PROVE  AcmeInv'
        BY <3>4, OrderKeeps, ChooseKeeps, AnswerKeeps, PollKeeps, CleanAuthorizationKeeps
      <3>5. ASSUME NEW v \in todo, CreateTxt(v, "ok") \/ DeleteTxt(v, "ok") PROVE AcmeInv'
        BY <2>2, <3>5, CreateKeeps, DeleteKeeps
      <3> QED
        BY <2>3, <3>1, <3>2, <3>3, <3>4, <3>5 DEF Work
    <2>4. ASSUME Trouble PROVE AcmeInv'
      <3>1. CASE Stop
        BY <2>1, <3>1, AroundKeeps
      <3>2. ASSUME NEW again \in SUBSET Ident, PlaceOrder("ok", again) PROVE AcmeInv'
        BY <2>1, <3>2, OrderKeeps
      <3>3. ASSUME NEW cut, Interrupt(cut) \/ Crash(cut) PROVE AcmeInv'
        BY <3>3, CutShort
      <3>4. ASSUME NEW outcome \in Outcomes,
                   \/ Register(outcome) \/ PlaceOrder(outcome, {}) \/ OnChallenge(outcome)
                   \/ Finalize(outcome) \/ Certificate(outcome)
            PROVE  AcmeInv'
        BY <2>1, <3>4, BeginKeeps, OrderKeeps, OnChallengeKeeps, OverKeeps
      <3>5. ASSUME NEW outcome \in Outcomes, NEW i \in Ident,
                   ReadAuthorization(i, outcome) \/ Answer(i, outcome) \/ PollAuthorization(i, outcome)
            PROVE  AcmeInv'
        BY <3>5, OrderKeeps, AnswerKeeps, PollKeeps
      <3>6. ASSUME NEW outcome \in Outcomes, NEW v \in todo, CreateTxt(v, outcome) \/ DeleteTxt(v, outcome)
            PROVE  AcmeInv'
        BY <3>6, CreateKeeps, DeleteKeeps
      <3>7. ASSUME NEW i \in Ident, NEW outcome, DeactivateStale(i, outcome) \/ CleanAuthorization(i, outcome)
            PROVE  AcmeInv'
        BY <3>7, ChooseKeeps, CleanAuthorizationKeeps
      <3>8. ASSUME NEW i \in Ident, CheckFails(i) \/ CheckSticks(i) PROVE AcmeInv'
        BY <3>8, AroundKeeps
      <3> QED
        BY <2>2, <2>4, <3>1, <3>2, <3>3, <3>4, <3>5, <3>6, <3>7, <3>8 DEF Trouble
    <2>5. ASSUME Sweep \/ \E v \in sweepTodo : SweepDelete(v, "lost") \/ SweepDelete(v, "failed") PROVE AcmeInv'
      BY <2>5, SweepKeeps DEF Sweep
    <2>6. ASSUME NEW i \in Ident, LeaseExpires \/ Restart \/ CaIssues \/ Check(i) PROVE AcmeInv'
      BY <2>6, AroundKeeps
    <2>7. ASSUME NEW v \in zone, Age(v) PROVE AcmeInv'
      BY <2>7, AgeKeeps
    <2>8. CASE UNCHANGED acmeVars
      <3>1. /\ UNCHANGED ca /\ UNCHANGED Outside /\ UNCHANGED <<pc, todo, pending, records, unsettled, settled, leased>>
        BY <2>8 DEF acmeVars, caVars, zoneVars, attemptVars, choiceVars, jobVars, sweepVars, history, Outside
      <3>2. leased' \in BOOLEAN /\ (pc # "idle" => leased')
        BY <3>1 DEF AcmeInv, AcmeTypeOK, Leased
      <3> QED
        BY <3>1, <3>2, SameSettles, CaKeeps
    <2> QED
      BY <2>1, <2>3, <2>4, <2>5, <2>6, <2>7, <2>8 DEF AcmeNext
  <1>3. AcmeInv => Published
    BY DEF AcmeInv
  <1> QED
    BY <1>1, <1>2, <1>3, PTL DEF AcmeSpec

=============================================================================
