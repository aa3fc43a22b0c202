--------------------------- MODULE WebhookDelivery ---------------------------
(***************************************************************************)
(* The deduplicating handler of backend-concepts/webhooks/webhooks.go, in   *)
(* front of a sender that times out and sends again.  Deliveries whose      *)
(* signature is refused end before they reach any state, and are left out.  *)
(***************************************************************************)
EXTENDS Integers, NoValue

CONSTANTS
    Events,
    Deliveries,    \* requests the sender makes, for any event, at any time
    SeenTTL,       \* how long an ID is remembered
    SweepEvery,    \* SeenTTL / 10, which is 0 for a TTL below ten nanoseconds
    MaxHookTime    \* the bound of the clock

ASSUME HookAssumption == SeenTTL \in Nat \ {0} /\ SweepEvery \in 0..SeenTTL /\ None \notin Nat

VARIABLES
    hookNow,
    seen,         \* Deduper.seen: when each ID was recorded, or None
    lastSweep,
    event,        \* of each delivery
    stage,        \* of each delivery: unsent, asking, processing, failing, answered
    asked,        \* when it read the clock, until it is answered
    processed,    \* events whose processing has succeeded
    panicked,     \* events whose ID a panic has left recorded
    outwaited,    \* some delivery has waited for the mutex for SeenTTL
    overran       \* some delivery has taken SeenTTL, from the clock on

hookVars == <<hookNow, seen, lastSweep, event, stage, asked, processed, panicked, outwaited, overran>>

HookInit ==
    /\ hookNow = SweepEvery /\ lastSweep = 0    \* the zero time is long past
    /\ seen = [e \in Events |-> None]
    /\ event = [d \in Deliveries |-> None]
    /\ stage = [d \in Deliveries |-> "unsent"]
    /\ asked = [d \in Deliveries |-> None]
    /\ processed = {} /\ panicked = {} /\ outwaited = FALSE /\ overran = FALSE

-----------------------------------------------------------------------------
(* The sender's first try of an event, or a retry, with the earlier one     *)
(* still under way or not; Seen reads the clock before it has the mutex.   *)
Deliver(d, e) ==
    /\ stage[d] = "unsent"
    /\ event' = [event EXCEPT ![d] = e]
    /\ stage' = [stage EXCEPT ![d] = "asking"]
    /\ asked' = [asked EXCEPT ![d] = hookNow]
    /\ UNCHANGED <<hookNow, seen, lastSweep, processed, panicked, outwaited, overran>>

Old(now, at)  == at # None /\ now - at >= SeenTTL
HistoryDue(now) == SweepEvery = 0 \/ now - lastSweep >= SweepEvery

(* Mutant: only IDs that are twice as old are swept. *)
SweptLate(now) ==
    [e \in Events |-> IF HistoryDue(now) /\ seen[e] # None /\ now - seen[e] >= 2 * SeenTTL THEN None ELSE seen[e]]

(* maybeSweep: what it leaves. *)
Swept(now) == [e \in Events |-> IF HistoryDue(now) /\ Old(now, seen[e]) THEN None ELSE seen[e]]

(* Mutant: an ID counts once its work is done. *)
KnownAfterWork(now, e) == seen[e] # None /\ ~Old(now, seen[e]) /\ e \in processed

Known(now, e) == seen[e] # None /\ ~Old(now, seen[e])

(* The rest of Seen, under the mutex and by the clock that was read before  *)
(* it: sweep, look, record.  A duplicate is answered 200.                  *)
Seen(d) ==
    /\ stage[d] = "asking"
    /\ lastSweep' = IF HistoryDue(asked[d]) THEN asked[d] ELSE lastSweep
    /\ LET e == event[d] IN
       IF Known(asked[d], e)
       THEN /\ stage' = [stage EXCEPT ![d] = "answered"]
            /\ asked' = [asked EXCEPT ![d] = None]
            /\ seen' = Swept(asked[d])
            /\ UNCHANGED panicked
       ELSE /\ stage' = [stage EXCEPT ![d] = "processing"]
            /\ seen' = [Swept(asked[d]) EXCEPT ![e] = asked[d]]
            /\ panicked' = panicked \ {e}
            /\ UNCHANGED asked
    /\ UNCHANGED <<hookNow, event, processed, outwaited, overran>>

(* process succeeds, returns an error, or panics: then net/http recovers,   *)
(* the connection is closed, and nobody calls Forget.                      *)
Process(d) ==
    /\ stage[d] = "processing"
    /\ \/ /\ stage' = [stage EXCEPT ![d] = "answered"]
          /\ asked' = [asked EXCEPT ![d] = None]
          /\ \/ processed' = processed \cup {event[d]} /\ UNCHANGED panicked
             \/ panicked' = panicked \cup {event[d]} /\ UNCHANGED processed
       \/ /\ stage' = [stage EXCEPT ![d] = "failing"]
          /\ UNCHANGED <<asked, processed, panicked>>
    /\ UNCHANGED <<hookNow, seen, lastSweep, event, outwaited, overran>>

(* Mutant: a failure leaves the ID recorded. *)
FailRemembered(d) ==
    /\ stage[d] = "failing"
    /\ asked' = [asked EXCEPT ![d] = None]
    /\ stage' = [stage EXCEPT ![d] = "answered"]
    /\ UNCHANGED <<hookNow, seen, lastSweep, event, processed, panicked, outwaited, overran>>

(* Processing failed: Forget, and 500. *)
Fail(d) ==
    /\ stage[d] = "failing"
    /\ seen' = [seen EXCEPT ![event[d]] = None]
    /\ panicked' = panicked \ {event[d]}
    /\ asked' = [asked EXCEPT ![d] = None]
    /\ stage' = [stage EXCEPT ![d] = "answered"]
    /\ UNCHANGED <<hookNow, lastSweep, event, processed, outwaited, overran>>

(* The process dies: the IDs are in memory only, and its requests end. *)
CrashHook ==
    /\ seen' = [e \in Events |-> None]
    /\ lastSweep' = 0
    /\ stage' = [d \in Deliveries |-> IF stage[d] = "unsent" THEN "unsent" ELSE "answered"]
    /\ asked' = [d \in Deliveries |-> None]
    /\ panicked' = {}
    /\ UNCHANGED <<hookNow, event, processed, outwaited, overran>>

InProcess(d) == stage[d] \in {"processing", "failing"}

(* Some delivery at these stages has read the clock SeenTTL before now. *)
Late(stages, now) == \E d \in Deliveries : stage[d] \in stages /\ now - asked[d] >= SeenTTL

PassHookTime ==
    /\ hookNow < MaxHookTime
    /\ hookNow' = hookNow + 1
    /\ outwaited' = (outwaited \/ Late({"asking"}, hookNow'))
    /\ overran' = (overran \/ Late({"asking", "processing", "failing"}, hookNow'))
    /\ UNCHANGED <<seen, lastSweep, event, stage, asked, processed, panicked>>

HookNext ==
    \/ \E d \in Deliveries : (\E e \in Events : Deliver(d, e)) \/ Seen(d) \/ Process(d) \/ Fail(d)
    \/ CrashHook \/ PassHookTime

HookSpec == HookInit /\ [][HookNext]_hookVars

-----------------------------------------------------------------------------
(* Properties. *)

(* An ID that is recorded, and so answers "duplicate", stands for work that *)
(* is done, under way, or has panicked: the retry of an event whose         *)
(* processing returned an error is never told that it was handled, whatever *)
(* other deliveries of it came between the error and the retry.  A panic is *)
(* the one case that Forget does not cover.                                *)
DuplicateHasReason ==
    \A e \in Events :
        seen[e] # None => e \in processed \cup panicked \/ \E d \in Deliveries : event[d] = e /\ InProcess(d)

(* While no delivery takes the time an ID is remembered, from the clock it  *)
(* read to the end of its work, an event is never processed twice at once,  *)
(* though the clocks of two calls of Seen and their turns at the mutex may  *)
(* differ in order, and a failing delivery forgets an ID that another may   *)
(* have recorded.                                                          *)
OneAtATime ==
    ~overran => \A c, d \in Deliveries :
        InProcess(c) /\ InProcess(d) /\ event[c] = event[d] => c = d

(* The map does not grow with history: unless a call waits for the mutex as *)
(* long as an ID is remembered, a call of Seen leaves no ID behind that is  *)
(* older than its TTL and one sweep interval.                              *)
HistoryIsSwept ==
    [][\A d \in Deliveries : Seen(d) /\ ~outwaited =>
          \A e \in Events : seen'[e] = None \/ asked[d] - seen'[e] < SeenTTL + SweepEvery]_hookVars

(* The handler around Seen and Forget: a duplicate is refused for a reason, *)
(* and one event is not processed twice at once.                            *)
DuplicatesHaveReason == DuplicateHasReason /\ OneAtATime
=============================================================================
