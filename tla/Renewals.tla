------------------------------ MODULE Renewals ------------------------------
(***************************************************************************)
(* Renewal alarms (take_due_alarms_and_next of store.rs, fire_due_alarms   *)
(* of jobs.rs, alarm, schedule_renewal and on_attached of service.rs).     *)
(*                                                                         *)
(* Every machine reads the alarms that are due, clears each one that is    *)
(* still what it read, and fires those it cleared.  A tunnel's certificate *)
(* is fresh or due; a renewal that started ends (Issuance) in a new        *)
(* certificate or in failure.  A record's operation and the setting of its *)
(* alarm are one step, which may leave the alarm out: the process dies or  *)
(* the statement fails between them.                                       *)
(***************************************************************************)
EXTENDS Naturals, FiniteSets

CONSTANTS Server, Tunnel,
    MaxLosses     \* bound: statements that fail and processes that die

ASSUME RenewalAssumption == IsFiniteSet(Server) /\ IsFiniteSet(Tunnel) /\ MaxLosses \in Nat

VARIABLES
    due,        \* tunnels whose certificate is due for renewal
    renewal,    \* tunnels with a renewal in progress
    active,     \* tunnels connected now or within ACTIVE_WINDOW_MS
    alarm,      \* each tunnel's alarm: "none", "set", or "due"
    loop,       \* each machine's alarm loop: "rest", "clear", "fire"
    batch,      \* the alarms it has read and not come to yet
    same,       \* those that are still the ones it read
    taken,      \* the alarms it cleared and has not fired yet
    losses      \* history

alarmVars == <<alarm, same>>
loopVars == <<loop, batch, taken>>
renewalVars == <<due, renewal, active, alarmVars, loopVars, losses>>

RenewalInit ==
    /\ due = {} /\ renewal = {} /\ active = Tunnel /\ alarm = [t \in Tunnel |-> "set"]
    /\ loop = [m \in Server |-> "rest"] /\ losses = 0
    /\ batch = [m \in Server |-> {}] /\ same = [m \in Server |-> {}] /\ taken = [m \in Server |-> {}]

Loss == losses < MaxLosses /\ losses' = losses + 1
\* A setting that is lost counts; one that is made changes the value every reader has.
SetAlarm(t, made) ==
    IF made
    THEN /\ alarm' = [alarm EXCEPT ![t] = "set"] /\ UNCHANGED losses
         /\ same' = [m \in Server |-> same[m] \ {t}]
    ELSE Loss /\ UNCHANGED alarmVars

-----------------------------------------------------------------------------
(* Certificates.                                                           *)

\* Thirty days before its certificate expires; the alarm rings with it, or a retry's alarm does.
BecomesDue(t) ==
    /\ t \notin due /\ due' = due \cup {t} /\ UNCHANGED <<renewal, active, alarmVars, loopVars, losses>>

Rings(t) ==
    /\ alarm[t] = "set" /\ t \in due /\ alarm' = [alarm EXCEPT ![t] = "due"]
    /\ UNCHANGED <<due, renewal, active, same, loopVars, losses>>

\* Mutant: a renewal that is due is put off.
StartRenewalLater(t, queued, made) == UNCHANGED renewal /\ SetAlarm(t, made)

\* Starting a renewal: it is recorded and queued, or taken back with an alarm to try again.
StartRenewal(t, queued, made) ==
    IF queued
    THEN made /\ renewal' = renewal \cup {t} /\ UNCHANGED <<alarmVars, losses>>
    ELSE UNCHANGED renewal /\ SetAlarm(t, made)

\* Service::alarm, on a tunnel that is not deleted.
Ring(t, queued, made) ==
    \/ /\ t \notin renewal /\ t \notin due /\ queued
       /\ SetAlarm(t, made) /\ UNCHANGED renewal
    \/ /\ t \notin renewal /\ t \in due /\ t \in active /\ StartRenewal(t, queued, made)
    \/ /\ t \in renewal \/ (t \in due /\ t \notin active)
       /\ queued /\ made /\ UNCHANGED <<renewal, alarmVars, losses>>

\* Mutant: no alarm is set for the new certificate.
RenewedSilently(t, made) ==
    /\ t \in renewal /\ renewal' = renewal \ {t} /\ due' = due \ {t} /\ made
    /\ UNCHANGED <<alarmVars, active, loopVars, losses>>

\* The renewal's certificate is recorded, and the next alarm set.
Renewed(t, made) ==
    /\ t \in renewal /\ renewal' = renewal \ {t} /\ due' = due \ {t}
    /\ SetAlarm(t, made) /\ UNCHANGED <<active, loopVars>>

\* Its failure is recorded, and the alarm set to try again.
RenewalFails(t, made) ==
    /\ t \in renewal /\ renewal' = renewal \ {t} /\ Loss
    /\ IF made THEN alarm' = [alarm EXCEPT ![t] = "set"] /\ same' = [m \in Server |-> same[m] \ {t}]
               ELSE UNCHANGED alarmVars
    /\ UNCHANGED <<due, active, loopVars>>

\* A tunnel connects: on_attached renews a certificate that is due, or sets an alarm if there is none.
Attach(t, queued, made) ==
    /\ active' = active \cup {t}
    /\ IF t \in due /\ t \notin renewal THEN StartRenewal(t, queued, made)
       ELSE IF alarm[t] = "none" THEN queued /\ SetAlarm(t, made) /\ UNCHANGED renewal
       ELSE queued /\ made /\ UNCHANGED <<renewal, alarmVars, losses>>
    /\ UNCHANGED <<due, loopVars>>

\* It stays away for ACTIVE_WINDOW_MS.
GoesIdle(t) ==
    /\ t \in active /\ active' = active \ {t}
    /\ UNCHANGED <<due, renewal, alarmVars, loopVars, losses>>

-----------------------------------------------------------------------------
(* A machine's alarm loop.                                                 *)

\* Reads what is due (at most LIMIT of them).
ReadDue(m) ==
    /\ loop[m] = "rest" /\ \E t \in Tunnel : alarm[t] = "due"
    /\ loop' = [loop EXCEPT ![m] = "clear"]
    /\ batch' = [batch EXCEPT ![m] = {t \in Tunnel : alarm[t] = "due"}]
    /\ same' = [same EXCEPT ![m] = {t \in Tunnel : alarm[t] = "due"}]
    /\ UNCHANGED <<due, renewal, active, alarm, taken, losses>>

\* The conditional update: it takes the alarm only if nobody changed it since.
Clear(m, t) ==
    /\ loop[m] = "clear" /\ t \in batch[m] /\ batch' = [batch EXCEPT ![m] = @ \ {t}]
    /\ IF t \in same[m]
       THEN /\ alarm' = [alarm EXCEPT ![t] = "none"]
            /\ taken' = [taken EXCEPT ![m] = @ \cup {t}] /\ same' = [n \in Server |-> same[n] \ {t}]
       ELSE UNCHANGED <<alarmVars, taken>>
    /\ UNCHANGED <<due, renewal, active, loop, losses>>

Cleared(m) ==
    /\ loop[m] = "clear" /\ batch[m] = {} /\ loop' = [loop EXCEPT ![m] = "fire"]
    /\ UNCHANGED <<due, renewal, active, alarmVars, batch, taken, losses>>

\* Fires one.
Fire(m, t, queued, made) ==
    /\ loop[m] = "fire" /\ t \in taken[m] /\ taken' = [taken EXCEPT ![m] = @ \ {t}]
    /\ Ring(t, queued, made) /\ UNCHANGED <<due, active, loop, batch>>

\* Firing it failed (the record could not be read or saved): it is set again, a minute from now.
FireFails(m, t) ==
    /\ loop[m] = "fire" /\ t \in taken[m] /\ taken' = [taken EXCEPT ![m] = @ \ {t}]
    /\ Loss /\ alarm' = [alarm EXCEPT ![t] = "set"] /\ same' = [n \in Server |-> same[n] \ {t}]
    /\ UNCHANGED <<due, renewal, active, loop, batch>>

Fired(m) ==
    /\ loop[m] = "fire" /\ taken[m] = {} /\ loop' = [loop EXCEPT ![m] = "rest"]
    /\ UNCHANGED <<due, renewal, active, alarmVars, batch, taken, losses>>

\* A clearing fails, a setting after a failure does, or the process dies: what it took is dropped.
LoopFails(m) ==
    /\ loop[m] # "rest" /\ Loss /\ loop' = [loop EXCEPT ![m] = "rest"]
    /\ batch' = [batch EXCEPT ![m] = {}] /\ taken' = [taken EXCEPT ![m] = {}]
    /\ same' = [same EXCEPT ![m] = {}] /\ UNCHANGED <<due, renewal, active, alarm>>

-----------------------------------------------------------------------------
Loops(m) ==
    \/ ReadDue(m) \/ Cleared(m) \/ Fired(m) \/ \E t \in Tunnel : Clear(m, t) \/ Fire(m, t, TRUE, TRUE)

RenewalNext ==
    \/ \E m \in Server : \/ Loops(m) \/ LoopFails(m)
                         \/ \E t \in Tunnel : \/ FireFails(m, t)
                                              \/ \E made \in BOOLEAN : Fire(m, t, FALSE, made)
                                              \/ Fire(m, t, TRUE, FALSE)
    \/ \E t \in Tunnel : \/ BecomesDue(t) \/ Rings(t) \/ GoesIdle(t)
                         \/ \E queued, made \in BOOLEAN : Attach(t, queued, made)
                         \/ \E made \in BOOLEAN : Renewed(t, made) \/ RenewalFails(t, made)

RenewalSpec == RenewalInit /\ [][RenewalNext]_renewalVars

-----------------------------------------------------------------------------
\* While nothing was lost, an active tunnel's renewal is always on its way: its alarm is set, a machine
\* has taken it, or the renewal runs.  Two machines that read one alarm do not drop it.
Covered ==
    losses = 0 => \A t \in active :
        alarm[t] # "none" \/ t \in renewal \/ \E m \in Server : t \in taken[m]

\* Whatever is lost, a certificate that is due is renewed while its tunnel stays active.
RenewsInTime == \A t \in Tunnel : (t \in due) ~> (t \notin due \/ t \notin active)
=============================================================================
