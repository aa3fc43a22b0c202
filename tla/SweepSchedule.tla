--------------------------- MODULE SweepSchedule ---------------------------
(***************************************************************************)
(* The nightly sweep of the url-shortener: every worker replica runs its   *)
(* own scheduler, so every replica enqueues the sweep; asynq's Unique lock *)
(* is what refuses the second one.  A worker runs the task, retries it     *)
(* MaxSweepRetry times and then archives it.  The clock is the tick of the *)
(* day: it wraps around, so no bound on time is needed.                    *)
(* Bounds: MaxOutages stops of a replica, MaxErrors failed deletes.        *)
(***************************************************************************)
EXTENDS Integers, FiniteSets

CONSTANTS
    Replicas,       \* worker processes, each with a scheduler and a server
    Links,          \* links with an expiry
    Day,            \* ticks between two firings of the cron entry
    UniqueTTL,      \* ticks the Unique lock lives (10 minutes)
    ClockSkew,      \* ticks between the first replica's 03:17 and the last one's
    MaxSweepRetry,  \* retries before the task is archived (2)
    MaxOutages, MaxErrors

ASSUME SweepAssumption ==
    /\ Day \in Nat \ {0} /\ ClockSkew \in 0..(Day - 1)
    /\ UniqueTTL \in (ClockSkew + 1)..Day
    /\ MaxSweepRetry \in Nat /\ MaxOutages \in Nat /\ MaxErrors \in Nat

VARIABLES
    hour,       \* tick of the day; the cron entry fires from 0 to ClockSkew
    running,    \* the replicas that are up
    fired,      \* the replicas whose scheduler fired this night
    lockLeft,   \* ticks until the Unique lock expires, 0 when it is free
    lockOf,     \* the sweep that holds it, 0 for none
    sweeps,     \* unfinished sweeps: number, retries, who runs it, this night's or an older one's
    expiry,     \* state of each link: live, expired, gone
    outages, errors

sweepVars == <<hour, running, fired, lockLeft, lockOf, sweeps, expiry, outages, errors>>

Queued == {}                \* by: nobody runs it
Sweep  == [no : {1, 2}, tries : 0..MaxSweepRetry, by : SUBSET Replicas, fresh : BOOLEAN]

SweepTypeOK ==
    /\ hour \in 0..(Day - 1) /\ running \in SUBSET Replicas /\ fired \in SUBSET Replicas
    /\ lockLeft \in 0..UniqueTTL /\ lockOf \in 0..2 /\ sweeps \in SUBSET Sweep
    /\ expiry \in [Links -> {"live", "expired", "gone"}]
    /\ outages \in 0..MaxOutages /\ errors \in 0..MaxErrors

SweepInit ==
    /\ hour = Day - 1 /\ running = Replicas /\ fired = {}
    /\ lockLeft = 0 /\ lockOf = 0 /\ sweeps = {}
    /\ expiry = [l \in Links |-> "live"] /\ outages = 0 /\ errors = 0

(***************************************************************************)
(* scheduler.Register("17 3 * * *", NewSweepExpired()): each replica fires *)
(* once in the minute, and the enqueue is refused while the lock is held.  *)
(* Two numbers are enough: a sweep that would be a third at once is the    *)
(* backlog the bound cuts.                                                 *)
(***************************************************************************)
FreeNo == {1, 2} \ {s.no : s \in sweeps}

Enqueue ==
    \E n \in FreeNo :
        /\ n = 1 \/ 1 \notin FreeNo
        /\ sweeps' = sweeps \cup {[no |-> n, tries |-> 0, by |-> Queued, fresh |-> TRUE]}
        /\ lockLeft' = UniqueTTL /\ lockOf' = n
Refused == UNCHANGED <<sweeps, lockLeft, lockOf>>

FireAlways == IF FreeNo # {} THEN Enqueue ELSE Refused
NewSweepExpired == IF lockLeft = 0 /\ FreeNo # {} THEN Enqueue ELSE Refused

Fire(r) ==
    /\ hour <= ClockSkew /\ r \in running \ fired
    /\ fired' = fired \cup {r}
    /\ NewSweepExpired
    /\ UNCHANGED <<hour, running, expiry, outages, errors>>

(***************************************************************************)
(* The asynq server.  A sweep that succeeds frees the lock if it is still  *)
(* its own; one that is archived leaves it to expire.                      *)
(***************************************************************************)
Take(r, s) ==
    /\ r \in running /\ s.by = Queued
    /\ sweeps' = (sweeps \ {s}) \cup {[s EXCEPT !.by = {r}]}
    /\ UNCHANGED <<hour, running, fired, lockLeft, lockOf, expiry, outages, errors>>

Unlock(s) == IF lockOf = s.no THEN lockLeft' = 0 /\ lockOf' = 0 ELSE UNCHANGED <<lockLeft, lockOf>>

DeleteExpiredLinks == expiry' = [l \in Links |-> IF expiry[l] = "expired" THEN "gone" ELSE expiry[l]]

HandleSweepExpired(s) ==
    /\ s.by # Queued
    /\ DeleteExpiredLinks /\ sweeps' = sweeps \ {s} /\ Unlock(s)
    /\ UNCHANGED <<hour, running, fired, outages, errors>>

HandleSweepRetriesOn(s) ==
    /\ s.by # Queued /\ errors < MaxErrors /\ errors' = errors + 1
    /\ sweeps' = (sweeps \ {s}) \cup {[s EXCEPT !.tries = @ + 1, !.by = Queued]}
    /\ UNCHANGED <<hour, running, fired, lockLeft, lockOf, expiry, outages>>

HandleSweepFails(s) ==
    /\ s.by # Queued /\ errors < MaxErrors /\ errors' = errors + 1
    /\ sweeps' = IF s.tries = MaxSweepRetry THEN sweeps \ {s}
                 ELSE (sweeps \ {s}) \cup {[s EXCEPT !.tries = @ + 1, !.by = Queued]}
    /\ UNCHANGED <<hour, running, fired, lockLeft, lockOf, expiry, outages>>

(***************************************************************************)
(* A replica stops: its tasks go back to the queue (Shutdown requeues what *)
(* outlives its timeout, the lease of a crashed one runs out).  A restart  *)
(* during the minute fires again or finds its minute over.                 *)
(***************************************************************************)
StopReplica(r) ==
    /\ r \in running /\ outages < MaxOutages /\ outages' = outages + 1
    /\ running' = running \ {r}
    /\ sweeps' = {[s EXCEPT !.by = @ \ {r}] : s \in sweeps}
    /\ UNCHANGED <<hour, fired, lockLeft, lockOf, expiry, errors>>

StartReplica(r) ==
    /\ r \notin running /\ running' = running \cup {r}
    /\ fired' \in IF hour <= ClockSkew THEN {fired \cup {r}, fired \ {r}} ELSE {fired}
    /\ UNCHANGED <<hour, lockLeft, lockOf, sweeps, expiry, outages, errors>>

Expire(l) ==
    /\ expiry[l] = "live" /\ expiry' = [expiry EXCEPT ![l] = "expired"]
    /\ UNCHANGED <<hour, running, fired, lockLeft, lockOf, sweeps, outages, errors>>

(* Unique's lock expires; the mutant is a TaskID, which refuses for ever.   *)
TaskIDStays == UNCHANGED <<lockLeft, lockOf>>
LockAges ==
    /\ lockLeft' = IF lockLeft = 0 THEN 0 ELSE lockLeft - 1
    /\ lockOf' = IF lockLeft = 1 THEN 0 ELSE lockOf

(* Time passes only when every scheduler that is up has fired its entry.   *)
PassHour ==
    /\ hour = ClockSkew => running \subseteq fired
    /\ hour' = (hour + 1) % Day
    /\ fired' = IF hour = ClockSkew THEN {} ELSE fired
    /\ LockAges
    /\ sweeps' = IF hour < Day - 1 THEN sweeps ELSE {[s EXCEPT !.fresh = FALSE] : s \in sweeps}
    /\ UNCHANGED <<running, expiry, outages, errors>>

WorkerStep == \E s \in sweeps : HandleSweepExpired(s) \/ \E r \in Replicas : Take(r, s)

SweepNext ==
    \/ WorkerStep \/ PassHour
    \/ \E s \in sweeps : HandleSweepFails(s)
    \/ \E r \in Replicas : Fire(r) \/ StopReplica(r) \/ StartReplica(r)
    \/ \E l \in Links : Expire(l)

SweepSpec == SweepInit /\ [][SweepNext]_sweepVars

(***************************************************************************)
(* Replicas that fire one after the other, or a scheduler that fires twice *)
(* because of a restart, enqueue one task: a night never has two sweeps    *)
(* unfinished, though one left from an older night may still wait.         *)
(***************************************************************************)
OneSweepPerNight == Cardinality({s \in sweeps : s.fresh}) <= 1

(***************************************************************************)
(* An expired link is deleted some night, whatever sweep was refused,      *)
(* retried, archived or cut off by a stop on the way.                      *)
(***************************************************************************)
ExpiredLinkGoes == \A l \in Links : []<>(expiry[l] # "expired")
=============================================================================
