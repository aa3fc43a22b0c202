----------------------------- MODULE DataLoader -----------------------------
(***************************************************************************)
(* One request's loader (graphql-concepts/dataloader/dataloader.go).       *)
(* Resolvers call Load concurrently; the first key of a batch starts a     *)
(* timer, and the batch runs when the timer's callback or the caller that  *)
(* fills it takes it.  What happens under the mutex is one step.  The      *)
(* counters of Stats are left out.                                         *)
(***************************************************************************)
EXTENDS Integers, FiniteSets, NoValue

CONSTANTS
    Callers,            \* goroutines that call Load once
    Group,              \* those of them that one LoadMany starts
    Keys, Values,
    MaxBatch,
    NoResult, Failed,   \* ErrNoResult; an error of the batch, ErrBatchPanicked too
    Cancelled,          \* ctx.Err()
    Timer               \* the timer's goroutine, as the runner of a batch

Outcomes == Values \cup {NoResult, Failed}

ASSUME ConstantsAssumption ==
    /\ Group \subseteq Callers
    /\ MaxBatch \in Nat \ {0}
    /\ IsFiniteSet(Keys)
    /\ None \notin Outcomes \cup Keys \cup {Cancelled}
    /\ Timer \notin Callers

VARIABLES
    future,      \* the results in the cache: absent, open, done
    outcome,     \* what a result holds
    pending,     \* the keys being collected
    timer,       \* the loader's timer: nil, armed, fired
    callbacks,   \* fired callbacks that wait for the mutex, stale ones too
    batches,     \* batches taken, with the keys still to complete
    pc, key, missed, got   \* of each caller; missed says that it made the future

vars == <<future, outcome, pending, timer, callbacks, batches, pc, key, missed, got>>

Batch  == [by : Callers \cup {Timer}, keys : SUBSET Keys, stage : {"calling", "closing"}]

TypeOK ==
    /\ future \in [Keys -> {"absent", "open", "done"}]
    /\ outcome \in [Keys -> Outcomes \cup {None}]
    /\ pending \in SUBSET Keys
    /\ timer \in {"nil", "armed", "fired"}
    /\ callbacks \in Nat
    /\ batches \in SUBSET Batch
    /\ pc \in [Callers -> {"idle", "calling", "waiting", "running", "done"}]
    /\ key \in [Callers -> Keys \cup {None}]
    /\ missed \in [Callers -> BOOLEAN]
    /\ got \in [Callers -> Outcomes \cup {None, Cancelled}]
    /\ \A k \in Keys : future[k] = "done" => outcome[k] # None

Init ==
    /\ future = [k \in Keys |-> "absent"]
    /\ outcome = [k \in Keys |-> None]
    /\ pending = {}
    /\ timer = "nil"
    /\ callbacks = 0
    /\ batches = {}
    /\ pc = [c \in Callers |-> "idle"]
    /\ key = [c \in Callers |-> None]
    /\ missed = [c \in Callers |-> FALSE]
    /\ got = [c \in Callers |-> None]

-----------------------------------------------------------------------------
(* A batch inside run: the batch function is called, then futures close. *)
Run(by, keys, stage) == [by |-> by, keys |-> keys, stage |-> stage]

(* Mutants: pending is not replaced; the stopped timer is not cleared. *)
TakeShares ==
    /\ pending' = pending
    /\ timer' = "nil"
TakeStops ==
    /\ pending' = {}
    /\ timer' = IF timer = "nil" THEN "nil" ELSE "fired"

(* Stop leaves a callback that has already fired to run. *)
TakePending ==
    /\ pending' = {}
    /\ timer' = "nil"

(* A resolver calls Load. *)
Call(c, k) ==
    /\ c \notin Group /\ pc[c] = "idle"
    /\ pc' = [pc EXCEPT ![c] = "calling"]
    /\ key' = [key EXCEPT ![c] = k]
    /\ UNCHANGED <<future, outcome, pending, timer, callbacks, batches, missed, got>>

(* LoadMany starts a goroutine per key, and waits for them all. *)
LoadMany(ks) ==
    /\ \A c \in Group : pc[c] = "idle"
    /\ pc' = [c \in Callers |-> IF c \in Group THEN "calling" ELSE pc[c]]
    /\ key' = [c \in Callers |-> IF c \in Group THEN ks[c] ELSE key[c]]
    /\ UNCHANGED <<future, outcome, pending, timer, callbacks, batches, missed, got>>

(* The key is in the cache: fetched, or being fetched. *)
Hit(c) ==
    /\ pc[c] = "calling" /\ future[key[c]] # "absent"
    /\ pc' = [pc EXCEPT ![c] = "waiting"]
    /\ UNCHANGED <<future, outcome, pending, timer, callbacks, batches, key, missed, got>>

(* Mutant: only completed results count as cached. *)
MissingUnlessDone(c) == pc[c] = "calling" /\ future[key[c]] # "done"

Missing(c) == pc[c] = "calling" /\ future[key[c]] = "absent"

(* Mutant: one key too many. *)
FillsLate(keys) == Cardinality(keys) > MaxBatch

Fills(keys) == Cardinality(keys) >= MaxBatch

(* A new future joins the batch.  The caller that fills it takes and runs  *)
(* it; another one starts the timer if there is none, and waits.           *)
Miss(c) ==
    /\ Missing(c)
    /\ LET k == key[c]
           full == Fills(pending \cup {k})
       IN
       /\ future' = [future EXCEPT ![k] = "open"]
       /\ pc' = [pc EXCEPT ![c] = IF full THEN "running" ELSE "waiting"]
       /\ missed' = [missed EXCEPT ![c] = TRUE]
       /\ \/ /\ full
             /\ TakePending
             /\ batches' = batches \cup {Run(c, pending \cup {k}, "calling")}
          \/ /\ ~full
             /\ pending' = pending \cup {k}
             /\ timer' = IF timer = "nil" THEN "armed" ELSE timer
             /\ UNCHANGED batches
    /\ UNCHANGED <<outcome, callbacks, key, got>>

(* The window closes: the callback starts, and needs the mutex. *)
Fire ==
    /\ timer = "armed"
    /\ timer' = "fired"
    /\ callbacks' = callbacks + 1
    /\ UNCHANGED <<future, outcome, pending, batches, pc, key, missed, got>>

(* A callback takes what is pending when it gets the mutex, which need not *)
(* be the batch its timer was started for.                                 *)
Callback ==
    /\ callbacks > 0
    /\ callbacks' = callbacks - 1
    /\ TakePending
    /\ batches' = IF pending = {} THEN batches ELSE batches \cup {Run(Timer, pending, "calling")}
    /\ UNCHANGED <<future, outcome, pc, key, missed, got>>

(* Mutant: a key that is not in the map keeps the zero value. *)
AnswersZero(keys) == [keys -> Values \cup {None}] \cup {[k \in keys |-> Failed]}

(* The batch function returns a map, from which keys may be missing, or an *)
(* error, or panics.  Nobody's cancellation reaches it.                    *)
Answers(keys) == [keys -> Values \cup {NoResult}] \cup {[k \in keys |-> Failed]}

(* Mutant: a panic ends run before it closes anything. *)
ReturnUnrecovered(b, answers) ==
    /\ b.stage = "calling"
    /\ outcome' = [k \in Keys |-> IF k \in b.keys THEN answers[k] ELSE outcome[k]]
    /\ batches' = (batches \ {b}) \cup
                  (IF \A k \in b.keys : answers[k] = Failed THEN {} ELSE {Run(b.by, b.keys, "closing")})
    /\ UNCHANGED <<future, pending, timer, callbacks, pc, key, missed, got>>

Return(b, answers) ==
    /\ b.stage = "calling"
    /\ outcome' = [k \in Keys |-> IF k \in b.keys THEN answers[k] ELSE outcome[k]]
    /\ batches' = (batches \ {b}) \cup {Run(b.by, b.keys, "closing")}
    /\ UNCHANGED <<future, pending, timer, callbacks, pc, key, missed, got>>

(* run closes one future after the other; then the caller that ran the     *)
(* batch waits like the others.                                            *)
Close(b, k) ==
    /\ b.stage = "closing" /\ k \in b.keys
    /\ future' = [future EXCEPT ![k] = "done"]
    /\ IF b.keys = {k}
       THEN /\ batches' = batches \ {b}
            /\ pc' = [c \in Callers |-> IF c = b.by THEN "waiting" ELSE pc[c]]
       ELSE /\ batches' = (batches \ {b}) \cup {Run(b.by, b.keys \ {k}, "closing")}
            /\ UNCHANGED pc
    /\ UNCHANGED <<outcome, pending, timer, callbacks, key, missed, got>>

(* The select at the end of Load, which takes either if both are ready.    *)
(* Load looks at its context nowhere else.                                 *)
Ends(c, o) ==
    /\ pc[c] = "waiting"
    /\ pc' = [pc EXCEPT ![c] = "done"]
    /\ got' = [got EXCEPT ![c] = o]
    /\ UNCHANGED <<future, outcome, pending, timer, callbacks, batches, key, missed>>

Settled(c) == key[c] # None /\ future[key[c]] = "done"

Receive(c) == Settled(c) /\ Ends(c, outcome[key[c]])
Leave(c)   == Ends(c, Cancelled)

(* Mutant: a result that is complete is replaced. *)
PrimeReplaces(k, v) ==
    /\ future[k] # "open"
    /\ future' = [future EXCEPT ![k] = "done"]
    /\ outcome' = [outcome EXCEPT ![k] = v]
    /\ UNCHANGED <<pending, timer, callbacks, batches, pc, key, missed, got>>

(* A value that is already there, or on its way, stays. *)
Prime(k, v) ==
    /\ future[k] = "absent"
    /\ future' = [future EXCEPT ![k] = "done"]
    /\ outcome' = [outcome EXCEPT ![k] = v]
    /\ UNCHANGED <<pending, timer, callbacks, batches, pc, key, missed, got>>

RunsBatch == \E b \in batches : (\E a \in Answers(b.keys) : Return(b, a)) \/ \E k \in b.keys : Close(b, k)

Next ==
    \/ \E c \in Callers, k \in Keys : Call(c, k)
    \/ \E ks \in [Group -> Keys] : LoadMany(ks)
    \/ \E c \in Callers : Hit(c) \/ Miss(c) \/ Receive(c) \/ Leave(c)
    \/ Fire \/ Callback \/ RunsBatch
    \/ \E k \in Keys, v \in Values : Prime(k, v)

Spec == Init /\ [][Next]_vars

(* Goroutines run, the timer fires and the batch function returns.  Nobody *)
(* need call, leave or prime.                                              *)
LoaderStep == Fire \/ Callback \/ RunsBatch \/ \E c \in Callers : Hit(c) \/ Miss(c) \/ Receive(c)

LoaderFairness == WF_vars(LoaderStep)

-----------------------------------------------------------------------------
(* Properties. *)

(* A future that is not complete is in the pending batch or in one batch   *)
(* that was taken, never in two, and a complete one in none: no key is     *)
(* forgotten, and none is closed twice (a panic in run).                   *)
TakenIn(k) == {b \in batches : k \in b.keys}
OnePlace ==
    \A k \in Keys :
        /\ \A b, d \in TakenIn(k) : b = d
        /\ k \in pending => TakenIn(k) = {}
        /\ future[k] = "open" <=> k \in pending \/ TakenIn(k) # {}

(* Within a request a key is fetched once: two callers do not both miss it.*)
FetchedOnce ==
    \A c, d \in Callers :
        missed[c] /\ missed[d] /\ key[c] = key[d] => c = d

(* While keys are collected, a timer will fire or a callback is waiting:   *)
(* a batch that nobody fills is run all the same.                          *)
PendingIsTimed == pending # {} => timer = "armed" \/ callbacks > 0

(* No batch is larger than maxBatch, however callers and callbacks meet.   *)
BatchFits ==
    /\ \A b \in batches : Cardinality(b.keys) <= MaxBatch
    /\ Cardinality(pending) < MaxBatch

(* Every future completes, if its callers left and if the batch failed,    *)
(* and every Load ends, without being cancelled: once no more calls come,  *)
(* nobody waits and nothing is open.                                       *)
LoaderOver ==
    /\ \A k \in Keys : future[k] # "open"
    /\ \A c \in Callers : pc[c] \in {"idle", "done"}

(* The loader implements its promise: all callers of a key get the outcome *)
(* it was settled with, once, or their own cancellation.                   *)
Memo == [k \in Keys |-> IF future[k] = "done" THEN outcome[k] ELSE None]
Promise == INSTANCE ReadOnce WITH
    asked <- key,
    memo <- Memo
SettledOnce == Promise!Spec

(* The batching of Load: a key is fetched once, in one batch that fits and  *)
(* that something will run.                                                 *)
BatchesCarryAll == OnePlace /\ FetchedOnce /\ PendingIsTimed /\ BatchFits
=============================================================================
