---------------------------- MODULE ResultProofs ----------------------------
(***************************************************************************)
(* What is owed to whoever waits for results: the callers of a loader, for *)
(* any number of callers, keys and batches, and the readers of pipelines,  *)
(* fan-outs, pools and streams, for any number of values, sources, jobs    *)
(* and messages. Every argument says where the thing waited for is: an     *)
(* open future is collected or in one batch, a value or a job is with one  *)
(* goroutine, in one channel, or among the results.                        *)
(***************************************************************************)
EXTENDS DataLoader, WorkerPools, FiniteSetTheorems, TLAPS

-----------------------------------------------------------------------------
(* The loader: the inductive invariant, by parts. *)

(* What a caller's progress says of its key: past the mutex it is cached,  *)
(* and a Load has an answer when it is done and not before.                *)
CallersAgree ==
    \A c \in Callers :
        /\ pc[c] = "idle" <=> key[c] = None
        /\ missed[c] \/ pc[c] \in {"waiting", "running", "done"} =>
              key[c] \in Keys /\ future[key[c]] # "absent"
        /\ pc[c] = "done" <=> got[c] # None

(* A caller that runs a batch is inside run, and runs one. *)
RunnersRun ==
    /\ \A b \in batches : b.by \in Callers => pc[b.by] = "running"
    /\ \A b, d \in batches : b.by \in Callers /\ b.by = d.by => b = d

(* A batch that closes its futures has an outcome for each. *)
ClosingHasOutcome ==
    \A b \in batches : b.stage = "closing" => \A k \in b.keys : outcome[k] # None

(* A timer that has fired has a callback waiting. *)
FiredWaits == timer = "fired" => callbacks > 0

IInv ==
    /\ TypeOK /\ CallersAgree /\ RunnersRun /\ ClosingHasOutcome /\ FiredWaits
    /\ OnePlace /\ FetchedOnce /\ PendingIsTimed /\ BatchFits

-----------------------------------------------------------------------------
(* What each step of Next is, with its batch, keys and callers. *)
LEMMA Steps ==
    ASSUME [Next]_vars
    PROVE  \/ \E c \in Callers, k \in Keys : Call(c, k)
           \/ \E ks \in [Group -> Keys] : LoadMany(ks)
           \/ \E c \in Callers : Hit(c)
           \/ \E c \in Callers : Miss(c)
           \/ \E c \in Callers : Receive(c) \/ Leave(c)
           \/ Fire \/ Callback
           \/ \E b \in batches : \E a \in Answers(b.keys) : Return(b, a)
           \/ \E b \in batches : \E k \in b.keys : Close(b, k)
           \/ \E k \in Keys, v \in Values : Prime(k, v)
           \/ UNCHANGED vars
BY DEF Next, RunsBatch

(* The map that the batch function returns has an outcome for each key. *)
LEMMA AnswersTyped ==
    ASSUME NEW keys, NEW a \in Answers(keys), NEW k \in keys
    PROVE  a[k] \in Outcomes /\ a[k] # None
BY ConstantsAssumption DEF Answers, Outcomes

(* The batches after a Miss, a Callback, a Return or a Close are typed. *)
LEMMA RunTyped ==
    ASSUME NEW by \in Callers \cup {Timer}, NEW keys \in SUBSET Keys, NEW stage \in {"calling", "closing"}
    PROVE  /\ Run(by, keys, stage) \in Batch
           /\ Run(by, keys, stage).by = by
           /\ Run(by, keys, stage).keys = keys
           /\ Run(by, keys, stage).stage = stage
BY DEF Run, Batch

(* A Miss that fills its batch, and one that does not. *)
LEMMA MissSteps ==
    ASSUME TypeOK, CallersAgree, NEW c \in Callers, Miss(c)
    PROVE  /\ pc[c] = "calling" /\ key[c] \in Keys /\ future[key[c]] = "absent"
           /\ future' = [future EXCEPT ![key[c]] = "open"]
           /\ missed' = [missed EXCEPT ![c] = TRUE]
           /\ outcome' = outcome /\ callbacks' = callbacks /\ key' = key /\ got' = got
           /\ \/ /\ Fills(pending \cup {key[c]})
                 /\ pending' = {}
                 /\ batches' = batches \cup {Run(c, pending \cup {key[c]}, "calling")}
                 /\ pc' = [pc EXCEPT ![c] = "running"]
              \/ /\ ~Fills(pending \cup {key[c]})
                 /\ pending' = pending \cup {key[c]}
                 /\ batches' = batches
                 /\ pc' = [pc EXCEPT ![c] = "waiting"]
<1>1. pc[c] = "calling" /\ key[c] \in Keys /\ future[key[c]] = "absent"
  BY ConstantsAssumption DEF Miss, Missing, TypeOK, CallersAgree
<1>2. CASE Fills(pending \cup {key[c]})
  BY <1>1, <1>2 DEF Miss, TakePending
<1>3. CASE ~Fills(pending \cup {key[c]})
  BY <1>1, <1>3 DEF Miss
<1> QED BY <1>2, <1>3

(* Types survive every step; a future is complete only with an outcome. *)
LEMMA TypeStep == IInv /\ [Next]_vars => TypeOK'
<1> SUFFICES ASSUME IInv, [Next]_vars PROVE TypeOK'
  OBVIOUS
<1> USE ConstantsAssumption
<1>0. TypeOK /\ CallersAgree /\ ClosingHasOutcome
  BY DEF IInv
<1>1. ASSUME NEW c \in Callers, NEW k \in Keys, Call(c, k) PROVE TypeOK'
  BY <1>0, <1>1 DEF Call, TypeOK
<1>2. ASSUME NEW ks \in [Group -> Keys], LoadMany(ks) PROVE TypeOK'
  BY <1>0, <1>2 DEF LoadMany, TypeOK
<1>3. ASSUME NEW c \in Callers, Hit(c) PROVE TypeOK'
  BY <1>0, <1>3 DEF Hit, TypeOK
<1>4. ASSUME NEW c \in Callers, Miss(c) PROVE TypeOK'
  <2>1. key[c] \in Keys
    BY <1>0, <1>4 DEF Miss, Missing, TypeOK, CallersAgree
  <2>2. Run(c, pending \cup {key[c]}, "calling") \in Batch
    BY <1>0, <2>1, RunTyped DEF TypeOK
  <2> QED BY <1>0, <1>4, <2>1, <2>2 DEF Miss, TakePending, TypeOK
<1>5. ASSUME NEW c \in Callers, Receive(c) \/ Leave(c) PROVE TypeOK'
  <2>1. key[c] \in Keys
    BY <1>0, <1>5 DEF Receive, Leave, Ends, TypeOK, CallersAgree
  <2> QED BY <1>0, <1>5, <2>1 DEF Receive, Leave, Ends, TypeOK
<1>6. ASSUME Fire PROVE TypeOK'
  BY <1>0, <1>6 DEF Fire, TypeOK
<1>7. ASSUME Callback PROVE TypeOK'
  <2>1. Run(Timer, pending, "calling") \in Batch
    BY <1>0, RunTyped DEF TypeOK
  <2> QED BY <1>0, <1>7, <2>1 DEF Callback, TakePending, TypeOK
<1>8. ASSUME NEW b \in batches, NEW a \in Answers(b.keys), Return(b, a) PROVE TypeOK'
  <2>1. \A k \in b.keys : a[k] \in Outcomes /\ a[k] # None
    BY AnswersTyped
  <2>2. Run(b.by, b.keys, "closing") \in Batch
    BY <1>0, RunTyped DEF TypeOK, Batch
  <2> QED BY <1>0, <1>8, <2>1, <2>2 DEF Return, TypeOK
<1>9. ASSUME NEW b \in batches, NEW k \in b.keys, Close(b, k) PROVE TypeOK'
  <2>1. k \in Keys /\ outcome[k] # None
    BY <1>0, <1>9 DEF Close, TypeOK, Batch, ClosingHasOutcome
  <2>2. Run(b.by, b.keys \ {k}, "closing") \in Batch
    BY <1>0, RunTyped DEF TypeOK, Batch
  <2> QED BY <1>0, <1>9, <2>1, <2>2 DEF Close, TypeOK
<1>10. ASSUME NEW k \in Keys, NEW v \in Values, Prime(k, v) PROVE TypeOK'
  BY <1>0, <1>10 DEF Prime, TypeOK, Outcomes
<1>11. CASE UNCHANGED vars
  BY <1>0, <1>11 DEF vars, TypeOK
<1> QED
  BY <1>1, <1>2, <1>3, <1>4, <1>5, <1>6, <1>7, <1>8, <1>9, <1>10, <1>11, Steps

(* Callers, futures and misses stay in agreement. *)
LEMMA CallerStep == IInv /\ TypeOK' /\ [Next]_vars => CallersAgree' /\ FetchedOnce'
<1> SUFFICES ASSUME IInv, TypeOK', [Next]_vars PROVE CallersAgree' /\ FetchedOnce'
  OBVIOUS
<1> USE ConstantsAssumption
<1>0. TypeOK /\ CallersAgree /\ RunnersRun /\ FetchedOnce
  BY DEF IInv
<1>1. ASSUME NEW c \in Callers, NEW k \in Keys, Call(c, k) PROVE CallersAgree' /\ FetchedOnce'
  BY <1>0, <1>1 DEF Call, TypeOK, CallersAgree, FetchedOnce
<1>2. ASSUME NEW ks \in [Group -> Keys], LoadMany(ks) PROVE CallersAgree' /\ FetchedOnce'
  BY <1>0, <1>2 DEF LoadMany, TypeOK, CallersAgree, FetchedOnce
<1>3. ASSUME NEW c \in Callers, Hit(c) PROVE CallersAgree' /\ FetchedOnce'
  BY <1>0, <1>3 DEF Hit, TypeOK, CallersAgree, FetchedOnce
<1>4. ASSUME NEW c \in Callers, Miss(c) PROVE CallersAgree' /\ FetchedOnce'
  <2>1. /\ key[c] \in Keys /\ pc[c] = "calling" /\ future[key[c]] = "absent"
        /\ future' = [future EXCEPT ![key[c]] = "open"]
        /\ pc' = [pc EXCEPT ![c] = "running"] \/ pc' = [pc EXCEPT ![c] = "waiting"]
        /\ missed' = [missed EXCEPT ![c] = TRUE] /\ key' = key /\ got' = got
    BY <1>0, <1>4, MissSteps
  <2>2. CallersAgree'
    BY <1>0, <2>1 DEF TypeOK, CallersAgree
  <2>3. \A d \in Callers : missed[d] => key[d] # key[c]
    BY <1>0, <2>1 DEF CallersAgree
  <2>4. FetchedOnce'
    BY <1>0, <2>1, <2>3 DEF TypeOK, FetchedOnce
  <2> QED BY <2>2, <2>4
<1>5. ASSUME NEW c \in Callers, Receive(c) \/ Leave(c) PROVE CallersAgree' /\ FetchedOnce'
  <2>1. PICK o : pc[c] = "waiting" /\ o # None /\ Ends(c, o)
    BY <1>0, <1>5 DEF Receive, Leave, Ends, Settled, TypeOK, CallersAgree
  <2> QED BY <1>0, <2>1 DEF Ends, TypeOK, CallersAgree, FetchedOnce
<1>6. ASSUME NEW b \in batches, NEW k \in b.keys, Close(b, k) PROVE CallersAgree' /\ FetchedOnce'
  <2>1. k \in Keys
    BY <1>0 DEF TypeOK, Batch
  <2>2. \A c \in Callers : pc'[c] = pc[c] \/ (pc[c] = "running" /\ pc'[c] = "waiting")
    <3>1. CASE b.keys = {k}
      BY <1>0, <1>6, <3>1 DEF Close, RunnersRun
    <3>2. CASE b.keys # {k}
      BY <1>6, <3>2 DEF Close
    <3> QED BY <3>1, <3>2
  <2> QED BY <1>0, <1>6, <2>1, <2>2 DEF Close, TypeOK, CallersAgree, FetchedOnce
<1>7. ASSUME NEW k \in Keys, NEW v \in Values, Prime(k, v) PROVE CallersAgree' /\ FetchedOnce'
  BY <1>0, <1>7 DEF Prime, TypeOK, CallersAgree, FetchedOnce
<1>8. CASE UNCHANGED <<future, pc, key, missed, got>>
  BY <1>0, <1>8 DEF CallersAgree, FetchedOnce
<1> QED
  BY <1>1, <1>2, <1>3, <1>4, <1>5, <1>6, <1>7, <1>8, Steps DEF Fire, Callback, Return, vars

(* Whoever runs a batch stays inside run until its last future is closed,  *)
(* and a batch that closes keeps an outcome for each of its futures.       *)
LEMMA RunnerStep == IInv /\ TypeOK' /\ [Next]_vars => RunnersRun' /\ ClosingHasOutcome'
<1> SUFFICES ASSUME IInv, TypeOK', [Next]_vars PROVE RunnersRun' /\ ClosingHasOutcome'
  OBVIOUS
<1> USE ConstantsAssumption
<1>0. TypeOK /\ CallersAgree /\ RunnersRun /\ ClosingHasOutcome
  BY DEF IInv
<1>1. ASSUME NEW c \in Callers, NEW k \in Keys, Call(c, k) PROVE RunnersRun' /\ ClosingHasOutcome'
  BY <1>0, <1>1 DEF Call, TypeOK, Batch, RunnersRun, ClosingHasOutcome
<1>2. ASSUME NEW ks \in [Group -> Keys], LoadMany(ks) PROVE RunnersRun' /\ ClosingHasOutcome'
  BY <1>0, <1>2 DEF LoadMany, TypeOK, Batch, RunnersRun, ClosingHasOutcome
<1>3. ASSUME NEW c \in Callers, Hit(c) PROVE RunnersRun' /\ ClosingHasOutcome'
  BY <1>0, <1>3 DEF Hit, TypeOK, Batch, RunnersRun, ClosingHasOutcome
<1>4. ASSUME NEW c \in Callers, Miss(c) PROVE RunnersRun' /\ ClosingHasOutcome'
  <2> DEFINE full == Fills(pending \cup {key[c]})
             r == Run(c, pending \cup {key[c]}, "calling")
  <2>1. /\ pc[c] = "calling" /\ outcome' = outcome /\ key[c] \in Keys
        /\ full => batches' = batches \cup {r} /\ pc' = [pc EXCEPT ![c] = "running"]
        /\ ~full => batches' = batches /\ pc' = [pc EXCEPT ![c] = "waiting"]
    BY <1>0, <1>4, MissSteps
  <2>2. r.by = c /\ r.stage = "calling"
    BY <1>0, <2>1, RunTyped DEF TypeOK
  <2>3. \A b \in batches : b.by # c
    BY <1>0, <2>1 DEF RunnersRun
  <2> HIDE DEF full, r
  <2>4. RunnersRun'
    BY <1>0, <2>1, <2>2, <2>3 DEF TypeOK, Batch, RunnersRun
  <2>5. ClosingHasOutcome'
    BY <1>0, <2>1, <2>2 DEF ClosingHasOutcome
  <2> QED BY <2>4, <2>5
<1>5. ASSUME NEW c \in Callers, Receive(c) \/ Leave(c) PROVE RunnersRun' /\ ClosingHasOutcome'
  BY <1>0, <1>5 DEF Receive, Leave, Ends, TypeOK, Batch, RunnersRun, ClosingHasOutcome
<1>6. ASSUME Callback PROVE RunnersRun' /\ ClosingHasOutcome'
  <2> DEFINE r == Run(Timer, pending, "calling")
  <2>1. r.by = Timer /\ r.stage = "calling"
    BY <1>0, RunTyped DEF TypeOK
  <2>2. batches' \subseteq batches \cup {r} /\ pc' = pc /\ outcome' = outcome
    BY <1>6 DEF Callback
  <2> HIDE DEF r
  <2> QED BY <1>0, <2>1, <2>2 DEF RunnersRun, ClosingHasOutcome
<1>7. ASSUME NEW b \in batches, NEW a \in Answers(b.keys), Return(b, a) PROVE RunnersRun' /\ ClosingHasOutcome'
  <2> DEFINE r == Run(b.by, b.keys, "closing")
  <2>1. r.by = b.by /\ r.keys = b.keys /\ b.keys \subseteq Keys
    BY <1>0, RunTyped DEF TypeOK, Batch
  <2>2. batches' = (batches \ {b}) \cup {r} /\ pc' = pc
    BY <1>7 DEF Return
  <2>3. \A k \in Keys : outcome[k] # None \/ k \in b.keys => outcome'[k] # None
    BY <1>0, <1>7, AnswersTyped DEF Return, TypeOK
  <2>4. \A d \in batches : d.keys \subseteq Keys
    BY <1>0 DEF TypeOK, Batch
  <2> HIDE DEF r
  <2>5. RunnersRun'
    BY <1>0, <2>1, <2>2 DEF RunnersRun
  <2>6. ClosingHasOutcome'
    BY <1>0, <2>1, <2>2, <2>3, <2>4 DEF ClosingHasOutcome
  <2> QED BY <2>5, <2>6
<1>8. ASSUME NEW b \in batches, NEW k \in b.keys, Close(b, k) PROVE RunnersRun' /\ ClosingHasOutcome'
  <2> DEFINE r == Run(b.by, b.keys \ {k}, "closing")
  <2>1. r.by = b.by /\ r.keys = b.keys \ {k} /\ b.by \in Callers \cup {Timer}
    BY <1>0, RunTyped DEF TypeOK, Batch
  <2>2. outcome' = outcome /\ b.stage = "closing"
    BY <1>8 DEF Close
  <2> HIDE DEF r
  <2>3. CASE b.keys = {k}
    <3>1. batches' = batches \ {b} /\ \A c \in Callers : c # b.by => pc'[c] = pc[c]
      BY <1>8, <2>3 DEF Close
    <3> QED BY <1>0, <2>2, <3>1 DEF RunnersRun, ClosingHasOutcome
  <2>4. CASE b.keys # {k}
    <3>1. batches' = (batches \ {b}) \cup {r} /\ pc' = pc
      BY <1>8, <2>4 DEF Close, r
    <3> QED BY <1>0, <2>1, <2>2, <3>1 DEF RunnersRun, ClosingHasOutcome
  <2> QED BY <2>3, <2>4
<1>9. ASSUME NEW k \in Keys, NEW v \in Values, Prime(k, v) PROVE RunnersRun' /\ ClosingHasOutcome'
  BY <1>0, <1>9 DEF Prime, TypeOK, Outcomes, RunnersRun, ClosingHasOutcome, Batch
<1>10. CASE UNCHANGED <<batches, pc, outcome>>
  BY <1>0, <1>10 DEF RunnersRun, ClosingHasOutcome
<1> QED
  BY <1>1, <1>2, <1>3, <1>4, <1>5, <1>6, <1>7, <1>8, <1>9, <1>10, Steps DEF Fire, vars

(* A batch that is collected keeps a timer or a callback. *)
LEMMA TimerStep == IInv /\ [Next]_vars => FiredWaits' /\ PendingIsTimed'
<1> SUFFICES ASSUME IInv, [Next]_vars PROVE FiredWaits' /\ PendingIsTimed'
  OBVIOUS
<1>0. TypeOK /\ FiredWaits /\ PendingIsTimed
  BY DEF IInv
<1>1. ASSUME NEW c \in Callers, Miss(c) PROVE FiredWaits' /\ PendingIsTimed'
  BY <1>0, <1>1 DEF Miss, TakePending, TypeOK, FiredWaits, PendingIsTimed
<1>2. CASE Fire
  BY <1>0, <1>2 DEF Fire, TypeOK, FiredWaits, PendingIsTimed
<1>3. CASE Callback
  BY <1>3 DEF Callback, TakePending, FiredWaits, PendingIsTimed
<1>4. CASE UNCHANGED <<timer, callbacks, pending>>
  BY <1>0, <1>4 DEF FiredWaits, PendingIsTimed
<1> QED
  BY <1>1, <1>2, <1>3, <1>4, Steps
  DEF Call, LoadMany, Hit, Receive, Leave, Ends, Return, Close, Prime, vars

-----------------------------------------------------------------------------
(* An open future is collected or in one batch.  The steps that move keys  *)
(* are a Miss, a Callback, a Return and a Close.                           *)
LEMMA PlaceStep == IInv /\ [Next]_vars => OnePlace'
<1> SUFFICES ASSUME IInv, [Next]_vars PROVE OnePlace'
  OBVIOUS
<1> USE ConstantsAssumption
<1>0. TypeOK /\ CallersAgree /\ OnePlace
  BY DEF IInv
<1>k. \A b \in batches : b.keys \subseteq Keys /\ b.by \in Callers \cup {Timer}
  BY <1>0 DEF TypeOK, Batch
<1>1. ASSUME NEW c \in Callers, Miss(c) PROVE OnePlace'
  <2> DEFINE r == Run(c, pending \cup {key[c]}, "calling")
  <2>1. r.keys = pending \cup {key[c]}
    BY DEF Run
  <2>2. key[c] \in Keys /\ key[c] \notin pending /\ \A b \in batches : key[c] \notin b.keys
    BY <1>0, <1>1, MissSteps DEF OnePlace, TakenIn
  <2>3. future' = [future EXCEPT ![key[c]] = "open"]
    BY <1>0, <1>1, MissSteps
  <2>4. CASE Fills(pending \cup {key[c]})
    <3>1. pending' = {} /\ batches' = batches \cup {r}
      BY <1>0, <1>1, <2>4, MissSteps
    <3> HIDE DEF r
    <3> QED BY <1>0, <2>1, <2>2, <2>3, <3>1 DEF TypeOK, OnePlace, TakenIn
  <2>5. CASE ~Fills(pending \cup {key[c]})
    <3>1. pending' = pending \cup {key[c]} /\ batches' = batches
      BY <1>0, <1>1, <2>5, MissSteps
    <3> QED BY <1>0, <2>2, <2>3, <3>1 DEF TypeOK, OnePlace, TakenIn
  <2> QED BY <2>4, <2>5
<1>2. ASSUME Callback PROVE OnePlace'
  <2> DEFINE r == Run(Timer, pending, "calling")
  <2>1. r.keys = pending
    BY <1>0, RunTyped DEF TypeOK
  <2>2. CASE pending = {}
    BY <1>0, <1>2, <2>2 DEF Callback, TakePending, OnePlace, TakenIn
  <2>3. CASE pending # {}
    <3>1. pending' = {} /\ batches' = batches \cup {r} /\ future' = future
      BY <1>2, <2>3 DEF Callback, TakePending
    <3> HIDE DEF r
    <3> QED BY <1>0, <2>1, <3>1 DEF OnePlace, TakenIn
  <2> QED BY <2>2, <2>3
<1>3. ASSUME NEW b \in batches, NEW a \in Answers(b.keys), Return(b, a) PROVE OnePlace'
  <2> DEFINE r == Run(b.by, b.keys, "closing")
  <2>1. r.keys = b.keys
    BY <1>k, RunTyped
  <2>2. pending' = pending /\ batches' = (batches \ {b}) \cup {r} /\ future' = future
    BY <1>3 DEF Return
  <2> HIDE DEF r
  <2> QED BY <1>0, <2>1, <2>2 DEF OnePlace, TakenIn
<1>4. ASSUME NEW b \in batches, NEW k \in b.keys, Close(b, k) PROVE OnePlace'
  <2> DEFINE r == Run(b.by, b.keys \ {k}, "closing")
  <2>1. r.keys = b.keys \ {k} /\ k \in Keys
    BY <1>k, RunTyped
  <2>2. pending' = pending /\ future' = [future EXCEPT ![k] = "done"]
    BY <1>4 DEF Close
  <2>3. \A d \in batches \ {b} : k \notin d.keys
    BY <1>0, <2>1 DEF OnePlace, TakenIn
  <2>4. k \notin pending
    BY <1>0, <2>1 DEF OnePlace, TakenIn
  <2>5. CASE b.keys = {k}
    <3>1. batches' = batches \ {b}
      BY <1>4, <2>5 DEF Close
    <3> QED BY <1>0, <2>1, <2>2, <2>3, <2>4, <2>5, <3>1 DEF TypeOK, OnePlace, TakenIn
  <2>6. CASE b.keys # {k}
    <3>1. batches' = (batches \ {b}) \cup {r}
      BY <1>4, <2>6 DEF Close
    <3> HIDE DEF r
    <3> QED BY <1>0, <2>1, <2>2, <2>3, <2>4, <3>1 DEF TypeOK, OnePlace, TakenIn
  <2> QED BY <2>5, <2>6
<1>5. ASSUME NEW k \in Keys, NEW v \in Values, Prime(k, v) PROVE OnePlace'
  BY <1>0, <1>5 DEF Prime, TypeOK, OnePlace, TakenIn
<1>6. CASE UNCHANGED <<future, pending, batches>>
  BY <1>0, <1>6 DEF OnePlace, TakenIn
<1> QED
  BY <1>1, <1>2, <1>3, <1>4, <1>5, <1>6, Steps
  DEF Call, LoadMany, Hit, Receive, Leave, Ends, Fire, vars

(* A batch is taken before it could grow past MaxBatch. *)
LEMMA FitStep == IInv /\ [Next]_vars => BatchFits'
<1> SUFFICES ASSUME IInv, [Next]_vars PROVE BatchFits'
  OBVIOUS
<1> USE ConstantsAssumption
<1>0. TypeOK /\ CallersAgree /\ BatchFits
  BY DEF IInv
<1>k. \A b \in batches : b.keys \subseteq Keys /\ b.by \in Callers \cup {Timer}
  BY <1>0 DEF TypeOK, Batch
<1>f. \A S \in SUBSET Keys : IsFiniteSet(S) /\ Cardinality(S) \in Nat
  BY FS_Subset, FS_CardinalityType
<1>1. ASSUME NEW c \in Callers, Miss(c) PROVE BatchFits'
  <2> DEFINE r == Run(c, pending \cup {key[c]}, "calling")
  <2>1. r.keys = pending \cup {key[c]} /\ key[c] \in Keys /\ pending \in SUBSET Keys
    BY <1>0, <1>1, MissSteps DEF TypeOK, Run
  <2>2. /\ Cardinality(pending \cup {key[c]}) \in Nat
        /\ Cardinality(pending \cup {key[c]}) <= MaxBatch
    <3>1. Cardinality(pending \cup {key[c]}) <= Cardinality(pending) + 1
      <4>1. IsFiniteSet(pending) /\ Cardinality(pending) \in Nat
        BY <1>f, <2>1
      <4>2. Cardinality(pending \cup {key[c]}) =
              IF key[c] \in pending THEN Cardinality(pending) ELSE Cardinality(pending) + 1
        BY <4>1, FS_AddElement, Zenon
      <4> QED BY <4>1, <4>2
    <3>2. Cardinality(pending) \in Nat /\ Cardinality(pending) < MaxBatch
      BY <1>0, <1>f, <2>1 DEF BatchFits
    <3>3. pending \cup {key[c]} \in SUBSET Keys
      BY <2>1
    <3> QED BY <1>f, <3>1, <3>2, <3>3
  <2>3. CASE Fills(pending \cup {key[c]})
    <3>1. pending' = {} /\ batches' = batches \cup {r}
      BY <1>0, <1>1, <2>3, MissSteps
    <3>2. Cardinality(r.keys) <= MaxBatch /\ Cardinality({}) = 0
      BY <2>1, <2>2, FS_EmptySet
    <3> HIDE DEF r
    <3> QED BY <1>0, <3>1, <3>2 DEF BatchFits
  <2>4. CASE ~Fills(pending \cup {key[c]})
    <3>1. pending' = pending \cup {key[c]} /\ batches' = batches
      BY <1>0, <1>1, <2>4, MissSteps
    <3> QED BY <1>0, <2>2, <2>4, <3>1 DEF BatchFits, Fills
  <2> QED BY <2>3, <2>4
<1>2. ASSUME Callback PROVE BatchFits'
  <2> DEFINE r == Run(Timer, pending, "calling")
  <2>1. r.keys = pending /\ Cardinality(pending) \in Nat
    BY <1>0, <1>f, RunTyped DEF TypeOK
  <2>2. pending' = {} /\ batches' \subseteq batches \cup {r}
    BY <1>2 DEF Callback, TakePending
  <2> HIDE DEF r
  <2> QED BY <1>0, <2>1, <2>2, FS_EmptySet DEF BatchFits
<1>3. ASSUME NEW b \in batches, NEW a \in Answers(b.keys), Return(b, a) PROVE BatchFits'
  <2> DEFINE r == Run(b.by, b.keys, "closing")
  <2>1. r.keys = b.keys
    BY <1>k, RunTyped
  <2>2. pending' = pending /\ batches' \subseteq batches \cup {r}
    BY <1>3 DEF Return
  <2> HIDE DEF r
  <2> QED BY <1>0, <2>1, <2>2 DEF BatchFits
<1>4. ASSUME NEW b \in batches, NEW k \in b.keys, Close(b, k) PROVE BatchFits'
  <2> DEFINE r == Run(b.by, b.keys \ {k}, "closing")
  <2>1. r.keys = b.keys \ {k}
    BY <1>k, RunTyped
  <2>2. Cardinality(b.keys \ {k}) <= MaxBatch
    <3>1. b.keys \in SUBSET Keys /\ b.keys \ {k} \in SUBSET b.keys
      BY <1>k
    <3>2. Cardinality(b.keys \ {k}) <= Cardinality(b.keys)
      BY <1>f, <3>1, FS_Subset
    <3>3. b.keys \ {k} \in SUBSET Keys
      BY <3>1
    <3> QED BY <1>0, <1>f, <3>1, <3>2, <3>3 DEF BatchFits
  <2>3. pending' = pending /\ batches' \subseteq batches \cup {r}
    BY <1>4 DEF Close
  <2> HIDE DEF r
  <2> QED BY <1>0, <2>1, <2>2, <2>3 DEF BatchFits
<1>5. CASE UNCHANGED <<pending, batches>>
  BY <1>0, <1>5 DEF BatchFits
<1> QED
  BY <1>1, <1>2, <1>3, <1>4, <1>5, Steps
  DEF Call, LoadMany, Hit, Receive, Leave, Ends, Fire, Prime, vars

-----------------------------------------------------------------------------
(* The results. *)

(* The inductive invariant holds in every reachable state. *)
THEOREM Invariant == Spec => []IInv
<1>1. Init => IInv
  BY ConstantsAssumption, FS_EmptySet
  DEF Init, IInv, TypeOK, CallersAgree, RunnersRun, ClosingHasOutcome, FiredWaits, OnePlace,
      TakenIn, FetchedOnce, PendingIsTimed, BatchFits
<1>2. IInv /\ [Next]_vars => IInv'
  BY TypeStep, CallerStep, RunnerStep, TimerStep, PlaceStep, FitStep DEF IInv
<1> QED BY <1>1, <1>2, PTL DEF Spec

(* The loader's state is well typed, and nobody reads a future that is     *)
(* complete and empty.                                                     *)
THEOREM Typed == Spec => []TypeOK
BY Invariant, PTL DEF IInv

(* No key is forgotten, and none is closed twice. *)
THEOREM KeysHaveOnePlace == Spec => []OnePlace
BY Invariant, PTL DEF IInv

(* A key is fetched once in a request, whoever asks for it and when. *)
THEOREM KeysAreFetchedOnce == Spec => []FetchedOnce
BY Invariant, PTL DEF IInv

(* What is collected will be run, if the timer and its callbacks run. *)
THEOREM CollectedIsTimed == Spec => []PendingIsTimed
BY Invariant, PTL DEF IInv

(* The batch function is never called with more than maxBatch keys. *)
THEOREM BatchesFit == Spec => []BatchFits
BY Invariant, PTL DEF IInv

-----------------------------------------------------------------------------
(* The loader implements ReadOnce. *)

(* A step of the loader settles one key, answers one caller, lets some     *)
(* ask, or is not seen by the promise.                                     *)
LEMMA PromiseStep ==
    ASSUME IInv, TypeOK', [Next]_vars
    PROVE  [Promise!Next]_(Promise!vars)
<1> USE ConstantsAssumption
<1>0. TypeOK /\ TypeOK' /\ CallersAgree /\ ClosingHasOutcome /\ OnePlace
  BY DEF IInv
<1>m. ASSUME UNCHANGED <<future, outcome>> PROVE Memo' = Memo
  BY <1>m DEF Memo
<1>1. ASSUME NEW c \in Callers, NEW k \in Keys, Call(c, k) PROVE Promise!Next
  <2>1. Memo' = Memo
    BY <1>1, <1>m DEF Call
  <2>2. Promise!Ask
    BY <1>0, <1>1, <2>1 DEF Call, TypeOK, CallersAgree, Promise!Ask
  <2> QED BY <2>2 DEF Promise!Next
<1>2. ASSUME NEW ks \in [Group -> Keys], LoadMany(ks) PROVE Promise!Next
  <2>1. Memo' = Memo
    BY <1>2, <1>m DEF LoadMany
  <2>2. Promise!Ask
    BY <1>0, <1>2, <2>1 DEF LoadMany, TypeOK, CallersAgree, Promise!Ask
  <2> QED BY <2>2 DEF Promise!Next
<1>3. ASSUME NEW c \in Callers, Miss(c) PROVE UNCHANGED Promise!vars
  <2>1. /\ key[c] \in Keys /\ future[key[c]] = "absent" /\ outcome' = outcome
        /\ future' = [future EXCEPT ![key[c]] = "open"] /\ key' = key /\ got' = got
    BY <1>0, <1>3, MissSteps
  <2>2. Memo' = Memo
    BY <1>0, <2>1 DEF Memo, TypeOK
  <2> QED BY <2>1, <2>2 DEF Promise!vars
<1>4. ASSUME NEW c \in Callers, Receive(c) PROVE Promise!Next
  <2>1. /\ key[c] \in Keys /\ key[c] # None /\ got[c] = None /\ future[key[c]] = "done"
        /\ got' = [got EXCEPT ![c] = outcome[key[c]]]
        /\ UNCHANGED <<future, outcome, key>>
    BY <1>0, <1>4 DEF Receive, Settled, Ends, TypeOK, CallersAgree
  <2>2. Memo[key[c]] = outcome[key[c]] /\ Memo[key[c]] # None
    BY <1>0, <2>1 DEF Memo, TypeOK
  <2>3. Memo' = Memo
    BY <2>1, <1>m
  <2>4. Promise!Answer(c)
    BY <2>1, <2>2, <2>3 DEF Promise!Answer
  <2> QED BY <2>4 DEF Promise!Next
<1>5. ASSUME NEW c \in Callers, Leave(c) PROVE Promise!Next
  <2>1. /\ key[c] # None /\ got[c] = None /\ got' = [got EXCEPT ![c] = Cancelled]
        /\ UNCHANGED <<future, outcome, key>>
    BY <1>0, <1>5 DEF Leave, Ends, TypeOK, CallersAgree
  <2>2. Memo' = Memo
    BY <2>1, <1>m
  <2>3. Promise!GiveUp(c)
    BY <2>1, <2>2 DEF Promise!GiveUp
  <2> QED BY <2>3 DEF Promise!Next
<1>6. ASSUME NEW b \in batches, NEW a \in Answers(b.keys), Return(b, a) PROVE UNCHANGED Promise!vars
  <2>1. \A k \in Keys : k \in b.keys => future[k] = "open"
    BY <1>0 DEF OnePlace, TakenIn
  <2>2. /\ outcome' = [k \in Keys |-> IF k \in b.keys THEN a[k] ELSE outcome[k]]
        /\ UNCHANGED <<future, key, got>>
    BY <1>6 DEF Return
  <2>3. Memo' = Memo
    BY <2>1, <2>2 DEF Memo
  <2> QED BY <2>2, <2>3 DEF Promise!vars
<1>7. ASSUME NEW b \in batches, NEW k \in b.keys, Close(b, k) PROVE Promise!Next
  <2>1. k \in Keys
    BY <1>0 DEF TypeOK, Batch
  <2>2. future[k] = "open" /\ outcome[k] \in Outcomes
    BY <1>0, <1>7, <2>1 DEF OnePlace, TakenIn, ClosingHasOutcome, Close, TypeOK
  <2>3. future' = [future EXCEPT ![k] = "done"] /\ UNCHANGED <<outcome, key, got>>
    BY <1>7 DEF Close
  <2>4. Memo[k] = None /\ Memo' = [Memo EXCEPT ![k] = outcome[k]]
    BY <1>0, <2>1, <2>2, <2>3 DEF Memo, TypeOK
  <2>5. Promise!Settle(k, outcome[k])
    BY <2>3, <2>4 DEF Promise!Settle
  <2> QED BY <2>1, <2>2, <2>5 DEF Promise!Next
<1>8. ASSUME NEW k \in Keys, NEW v \in Values, Prime(k, v) PROVE Promise!Next
  <2>1. /\ future[k] = "absent" /\ future' = [future EXCEPT ![k] = "done"]
        /\ outcome' = [outcome EXCEPT ![k] = v] /\ UNCHANGED <<key, got>>
    BY <1>8 DEF Prime
  <2>2. Memo[k] = None /\ Memo' = [Memo EXCEPT ![k] = v]
    BY <1>0, <2>1 DEF Memo, TypeOK
  <2>3. Promise!Settle(k, v) /\ v \in Outcomes
    BY <2>1, <2>2 DEF Promise!Settle, Outcomes
  <2> QED BY <2>3 DEF Promise!Next
<1>9. CASE UNCHANGED <<future, outcome, key, got>>
  BY <1>9, <1>m DEF Promise!vars
<1> QED
  BY <1>1, <1>2, <1>3, <1>4, <1>5, <1>6, <1>7, <1>8, <1>9, Steps DEF Hit, Fire, Callback, vars

(* Every caller of a key gets the one outcome it was settled with, or      *)
(* leaves: the loader with its batches, timers and failures is, to its     *)
(* callers, a map that is written once per key.                            *)
THEOREM KeepsPromise == Spec => SettledOnce
<1>1. Init => Promise!Init
  BY DEF Init, Promise!Init, Memo
<1>2. IInv /\ IInv' /\ [Next]_vars => [Promise!Next]_(Promise!vars)
  BY PromiseStep DEF IInv
<1> QED BY <1>1, <1>2, Invariant, PTL DEF Spec, SettledOnce, Promise!Spec

(* The batching as a whole. *)
THEOREM BatchesCarry == Spec => []BatchesCarryAll
<1>1. IInv => BatchesCarryAll
  BY DEF IInv, BatchesCarryAll
<1> QED BY <1>1, Invariant, PTL

-----------------------------------------------------------------------------
(* A pipeline. *)

SentValues == 1..Items
Begun  == Items - Len(left)      \* the values that the source has taken up

(* What a goroutine holds of a value, and what the consumer gets of it. *)
FormOf(p, v) ==
    CASE p \in Squares \cup Mergers -> v * v
      [] p = "transform" -> [record |-> v, failed |-> v \in Refused]
      [] OTHER -> v
FinalOf(v) == IF job = Numbers THEN v * v ELSE [record |-> v, failed |-> v \in Refused]

Carries(p, v) == holding[p] # None /\ holding[p] = FormOf(p, v)
Dropped(v)    == job = Numbers /\ v \in Refused

PipeTypeOK ==
    /\ job \in {Numbers, Rows} /\ running \subseteq job /\ cut \subseteq job
    /\ cancelled \in BOOLEAN /\ verdict \in {None, "complete", "cut", "left"}
    /\ left \in Seq(Nat) /\ Len(left) <= Items /\ \A i \in 1..Len(left) : left[i] = Begun + i
    /\ holding = [p \in Numbers \cup Rows |-> holding[p]]

(* A value that has begun is in one place: with a goroutine, at the        *)
(* consumer, or dropped.                                                   *)
OneHolder ==
    /\ \A p \in Numbers \cup Rows : holding[p] # None =>
          /\ p \in job \ (Sinks \cup {"closer"})
          /\ \E v \in SentValues : v <= Begun /\ Carries(p, v) /\ (Dropped(v) => p = "generate")
    /\ \A p, q \in job : \A v \in SentValues : Carries(p, v) /\ Carries(q, v) => p = q

DeliveredOnce ==
    /\ result = SetToBag(DOMAIN result)
    /\ \A x \in DOMAIN result : \E v \in SentValues : v <= Begun /\ x = FinalOf(v) /\ ~Dropped(v)
    /\ \A p \in job : \A v \in SentValues : Carries(p, v) => FinalOf(v) \notin DOMAIN result

NothingLost ==
    \A v \in SentValues : v <= Begun =>
        (\E p \in job : Carries(p, v)) \/ FinalOf(v) \in DOMAIN result \/ Dropped(v)

(* Who returned, and not because of the context, has nothing left to send  *)
(* or to receive.                                                          *)
EndedInOrder ==
    /\ \A q \in job \ Sinks : q \notin running /\ q \notin cut => holding[q] = None /\ Drained(q)
    /\ verdict = "complete" => \A q \in job \cap Sinks : Drained(q)

PipeInv == PipeTypeOK /\ OneHolder /\ DeliveredOnce /\ NothingLost /\ EndedInOrder

(* A square has one root. *)
LEMMA SquaresDiffer == ASSUME NEW v \in Nat, NEW w \in Nat, v * v = w * w PROVE v = w
<1>1. ASSUME NEW a \in Nat, NEW b \in Nat, a < b PROVE a * a < b * b
  <2>1. a * a <= a * b /\ a * b < b * b
    BY <1>1, SMT
  <2> QED  BY <2>1, SMT
<1> QED  BY <1>1, SMT

(* The places of the two pipelines. *)
LEMMA PlaceFacts ==
    /\ Numbers # Rows
    /\ \A p \in Numbers \cup Rows : Feeders(p) \subseteq Numbers \cup Rows /\ p \notin Feeders(p)
    /\ \A p \in Numbers : Feeders(p) \subseteq Numbers
    /\ \A p \in Rows : Feeders(p) \subseteq Rows
    /\ "generate" \in Numbers /\ "load" \in Rows /\ "load" \notin Numbers /\ "collect" \notin Rows
<1>1. "load" \in Rows /\ "load" \notin Numbers /\ "collect" \notin Rows /\ "generate" \in Numbers
  BY DEF Rows, Numbers, Squares, Mergers
<1>2. \A p \in Numbers : Feeders(p) \subseteq Numbers /\ p \notin Feeders(p)
  BY DEF Numbers, Squares, Mergers, Feeders
<1>3. \A p \in Rows : Feeders(p) \subseteq Rows /\ p \notin Feeders(p)
  BY DEF Rows, Squares, Mergers, Feeders
<1> QED  BY <1>1, <1>2, <1>3

(* The form of a value tells which value it is. *)
LEMMA FormsDiffer ==
    ASSUME NEW p, NEW v \in Nat, NEW w \in Nat
    PROVE  /\ FormOf(p, v) = FormOf(p, w) => v = w
           /\ FinalOf(v) = FinalOf(w) => v = w
           /\ FormOf(p, v) # None /\ FinalOf(v) # None
<1> DEFINE rec(x) == [record |-> x, failed |-> x \in Refused]
<1>1. rec(v) \in [record : Nat, failed : BOOLEAN] /\ (rec(v) = rec(w) => v = w)
  <2>1. rec(v).record = v /\ rec(w).record = w
    OBVIOUS
  <2> QED  BY <2>1
<1>2. v * v \in Nat /\ (v * v = w * w => v = w)
  BY SquaresDiffer, SMT
<1>3. rec(v) # None /\ v * v # None /\ v # None
  BY <1>1, <1>2, PipeAssumption
<1> QED  BY <1>1, <1>2, <1>3 DEF FormOf, FinalOf

(* A goroutine passes on what it gets, in the form that the next one sends. *)
LEMMA StageForms ==
    ASSUME NEW q \in (Numbers \cup Rows) \ Sinks, NEW p \in Feeders(q), NEW v
    PROVE  /\ q = "filter" /\ v \in Refused => StageOf(q, FormOf(p, v)) = None
           /\ ~(q = "filter" /\ v \in Refused) => StageOf(q, FormOf(p, v)) = FormOf(q, v)
  BY DEF Numbers, Rows, Sinks, Squares, Mergers, Feeders, FormOf, StageOf

(* The consumer's feeders hold values in their last form. *)
LEMMA LastForms ==
    ASSUME NEW q \in Sinks, q \in job, job \in {Numbers, Rows}, NEW p \in Feeders(q), NEW v
    PROVE  FormOf(p, v) = FinalOf(v) /\ p # "generate"
<1>1. CASE q = "collect"
  <2>1. job = Numbers
    BY <1>1, PlaceFacts
  <2> QED  BY <1>1, <2>1 DEF Squares, Mergers, Feeders, FormOf, FinalOf
<1>2. CASE q = "load"
  <2>1. job # Numbers /\ p = "transform"
    BY <1>2, PlaceFacts DEF Feeders, Squares, Mergers
  <2> QED  BY <1>2, <2>1 DEF Squares, Mergers, FormOf, FinalOf
<1> QED  BY <1>1, <1>2 DEF Sinks

(* A bag of one copy each, and one more. *)
LEMMA OneMoreCopy ==
    ASSUME NEW S, NEW x, x \notin S
    PROVE  SetToBag(S) (+) SetToBag({x}) = SetToBag(S \cup {x})
<1>1. DOMAIN SetToBag(S) = S /\ DOMAIN SetToBag({x}) = {x}
  BY DEF SetToBag
<1>2. \A e \in S : SetToBag(S)[e] = 1
  BY DEF SetToBag
<1>3. SetToBag({x})[x] = 1
  BY DEF SetToBag
<1> DEFINE count(e) == (IF e \in S THEN SetToBag(S)[e] ELSE 0) + (IF e \in {x} THEN SetToBag({x})[e] ELSE 0)
<1>4. \A e \in S \cup {x} : count(e) = 1
  BY <1>2, <1>3
<1>5. SetToBag(S) (+) SetToBag({x}) = [e \in S \cup {x} |-> count(e)]
  BY <1>1 DEF (+)
<1>6. [e \in S \cup {x} |-> count(e)] = [e \in S \cup {x} |-> 1]
  BY <1>4
<1> QED  BY <1>5, <1>6 DEF SetToBag

(* What the proofs use of the types. *)
LEMMA PipeFacts ==
    ASSUME PipeTypeOK
    PROVE  /\ Len(left) \in Nat /\ Begun \in 0..Items /\ SentValues \subseteq Nat /\ (left = <<>> <=> Len(left) = 0)
           /\ job \subseteq Numbers \cup Rows
  BY PipeAssumption DEF PipeTypeOK, Begun, SentValues

(* What a step that changes one goroutine's value leaves of the others'. *)
LEMMA OthersCarry ==
    ASSUME NEW p, NEW v, job' = job, holding'[p] = holding[p]
    PROVE  Carries(p, v)' <=> Carries(p, v)
  BY DEF Carries, FormOf

(* What a goroutine waits for. *)
LEMMA RoleFacts ==
    /\ \A q \in Sources : Drained(q) <=> left = <<>>
    /\ Drained("closer") <=> Mergers \cap running = {}
    /\ Drained("collect") <=> "closer" \notin running
    /\ \A q : q \notin Sources \cup {"closer", "collect"} => (Drained(q) <=> Feeders(q) \cap running = {})
  BY DEF Drained, Sources

(* Nothing has been sent. *)
LEMMA PipeStarts == PipeInit => PipeInv
<1> SUFFICES ASSUME PipeInit PROVE PipeInv
  OBVIOUS
<1>1. left \in Seq(Nat) /\ Len(left) = Items /\ \A i \in 1..Items : left[i] = i
  BY PipeAssumption DEF PipeInit
<1>2. Begun = 0
  BY <1>1, PipeAssumption DEF Begun
<1>3. \A p \in Numbers \cup Rows : holding[p] = None
  BY DEF PipeInit
<1>4. result = SetToBag({}) /\ DOMAIN result = {}
  BY DEF PipeInit, EmptyBag, SetToBag
<1>5. PipeTypeOK
  <2>1. Len(left) <= Items
    BY <1>1, PipeAssumption
  <2>2. \A i \in 1..Len(left) : left[i] = Begun + i
    BY <1>1, <1>2
  <2>3. holding = [p \in Numbers \cup Rows |-> holding[p]]
    BY DEF PipeInit
  <2>4. cut = {} /\ verdict = None /\ cancelled = FALSE /\ running = job /\ job \in {Numbers, Rows}
    BY DEF PipeInit
  <2> QED  BY <1>1, <2>1, <2>2, <2>3, <2>4 DEF PipeTypeOK
<1>6. job \subseteq Numbers \cup Rows /\ running = job /\ verdict # "complete"
  BY PipeAssumption DEF PipeInit
<1>7. OneHolder
  BY <1>3, <1>6 DEF OneHolder, Carries
<1>8. DeliveredOnce
  BY <1>3, <1>4, <1>6 DEF DeliveredOnce, Carries
<1>9. NothingLost
  BY <1>2, PipeAssumption DEF NothingLost, SentValues
<1>10. EndedInOrder
  BY <1>6 DEF EndedInOrder
<1> QED  BY <1>5, <1>7, <1>8, <1>9, <1>10 DEF PipeInv

(* The source takes up its next value. *)
LEMMA SourceKeeps == ASSUME PipeInv, NEW p \in running, NextValue(p) PROVE PipeInv'
<1> USE DEF PipeInv
<1>1. /\ p \in Sources /\ p \in job /\ holding[p] = None /\ left # <<>>
      /\ holding' = [holding EXCEPT ![p] = Head(left)] /\ left' = Tail(left)
      /\ UNCHANGED <<job, running, cancelled, cut, result, verdict>>
  BY DEF NextValue, PipeTypeOK
<1>2. PICK k : k = Begun + 1
  OBVIOUS
<1>3. /\ Head(left) = k /\ k \in SentValues /\ Begun' = k /\ left' \in Seq(Nat) /\ Len(left') = Len(left) - 1
      /\ \A i \in 1..Len(left') : left'[i] = Begun' + i
  <2>1. left \in Seq(Nat) /\ Len(left) \in Nat /\ Len(left) # 0 /\ Len(left) <= Items
    BY <1>1, PipeFacts DEF PipeTypeOK
  <2>2. /\ Head(left) = left[1] /\ Tail(left) \in Seq(Nat) /\ Len(Tail(left)) = Len(left) - 1
        /\ \A i \in 1..(Len(left) - 1) : Tail(left)[i] = left[i + 1]
    BY <2>1, <1>1
  <2>3. Begun' = k /\ k \in SentValues
    BY <1>1, <1>2, <2>1, <2>2, PipeAssumption DEF Begun, SentValues
  <2>4. \A i \in 1..(Len(left) - 1) : i + 1 \in 1..Len(left) /\ Begun + (i + 1) = k + i
    BY <1>2, <2>1, PipeFacts
  <2>5. \A i \in 1..Len(left') : left'[i] = Begun' + i
    BY <1>1, <2>1, <2>2, <2>3, <2>4 DEF PipeTypeOK
  <2>6. Head(left) = k
    BY <1>2, <2>1, <2>2 DEF PipeTypeOK
  <2> QED  BY <1>1, <2>2, <2>3, <2>5, <2>6
<1>4. p \in Numbers \cup Rows /\ p \notin Sinks \cup {"closer"} /\ \A v : FormOf(p, v) = v
  BY <1>1, PipeFacts DEF Sources, Sinks, Squares, Mergers, FormOf
<1>5. holding'[p] = k /\ \A q \in Numbers \cup Rows : q # p => holding'[q] = holding[q]
  BY <1>1, <1>3, <1>4 DEF PipeTypeOK
<1>6. k \in Nat /\ k # None
  BY <1>3, PipeFacts, PipeAssumption
<1>7. /\ Carries(p, k)' /\ \A v : (Carries(p, v)' => v = k) /\ ~Carries(p, v)
      /\ \A q \in Numbers \cup Rows : \A v : q # p => (Carries(q, v)' <=> Carries(q, v))
  <2>1. \A v : (Carries(p, v)' <=> v = k) /\ ~Carries(p, v)
    BY <1>1, <1>4, <1>5, <1>6 DEF Carries, FormOf
  <2> QED  BY <2>1, <1>1, <1>5, OthersCarry
<1>8. \A v \in SentValues : (v <= Begun' <=> v <= Begun \/ v = k) /\ (v <= Begun => v # k)
  BY <1>2, <1>3, PipeFacts
<1>9. \A v : (Dropped(v)' <=> Dropped(v)) /\ FinalOf(v)' = FinalOf(v)
  BY <1>1 DEF Dropped, FinalOf
<1>10. PipeTypeOK'
  <2>1. holding' = [q \in Numbers \cup Rows |-> holding'[q]]
    BY <1>1 DEF PipeTypeOK
  <2>2. Len(left') <= Items
    BY <1>3, PipeFacts, PipeAssumption DEF PipeTypeOK
  <2> QED  BY <2>1, <2>2, <1>1, <1>3 DEF PipeTypeOK
<1>11. \A q \in job : \A v \in SentValues : Carries(q, v) => v <= Begun
  <2> SUFFICES ASSUME NEW q \in job, NEW v \in SentValues, Carries(q, v) PROVE v <= Begun
    OBVIOUS
  <2>1. PICK w \in SentValues : w <= Begun /\ Carries(q, w)
    BY PipeFacts DEF OneHolder, Carries
  <2> QED  BY <2>1, FormsDiffer, PipeFacts DEF Carries
<1>12. OneHolder'
  <2>1. p = "generate" \/ ~Dropped(k)
    <3>1. p = "generate" \/ (p = "records" /\ job # Numbers)
      BY <1>1, PlaceFacts DEF Sources, PipeTypeOK, Numbers, Squares, Mergers
    <3> QED  BY <3>1 DEF Dropped
  <2>2. ASSUME NEW q \in Numbers \cup Rows, holding'[q] # None
        PROVE  /\ q \in job \ (Sinks \cup {"closer"})
               /\ \E v \in SentValues : v <= Begun' /\ Carries(q, v)' /\ (Dropped(v) => q = "generate")
    <3>1. CASE q = p
      BY <3>1, <2>1, <1>1, <1>3, <1>4, <1>7, <1>8
    <3>2. CASE q # p
      BY <3>2, <2>2, <1>5, <1>7, <1>8 DEF OneHolder
    <3> QED  BY <3>1, <3>2
  <2>3. ASSUME NEW q \in job, NEW r \in job, NEW v \in SentValues, Carries(q, v)', Carries(r, v)' PROVE q = r
    <3>1. \A s \in job : Carries(s, v)' <=> (s = p /\ v = k) \/ (s # p /\ Carries(s, v))
      BY <1>7, PipeFacts
    <3>2. \A s \in job : ~Carries(s, k)
      BY <1>3, <1>8, <1>11
    <3> QED  BY <2>3, <3>1, <3>2 DEF OneHolder
  <2> QED  BY <2>2, <2>3, <1>1, <1>9 DEF OneHolder
<1>13. DeliveredOnce'
  <2>1. \A x \in DOMAIN result : \E v \in SentValues : v <= Begun' /\ x = FinalOf(v) /\ ~Dropped(v)
    BY <1>8 DEF DeliveredOnce
  <2>2. FinalOf(k) \notin DOMAIN result
    <3> SUFFICES ASSUME FinalOf(k) \in DOMAIN result PROVE FALSE
      OBVIOUS
    <3>1. PICK v \in SentValues : v <= Begun /\ FinalOf(k) = FinalOf(v)
      BY DEF DeliveredOnce
    <3> QED  BY <3>1, <1>6, <1>8, FormsDiffer, PipeFacts
  <2>3. \A q \in job : \A v \in SentValues : Carries(q, v)' => FinalOf(v) \notin DOMAIN result
    BY <2>2, <1>7, PipeFacts DEF DeliveredOnce
  <2> QED  BY <2>1, <2>3, <1>1, <1>9 DEF DeliveredOnce
<1>14. NothingLost'
  <2> SUFFICES ASSUME NEW v \in SentValues, v <= Begun'
               PROVE  (\E q \in job : Carries(q, v)') \/ FinalOf(v) \in DOMAIN result \/ Dropped(v)
    BY <1>1, <1>9 DEF NothingLost
  <2>1. CASE v = k
    BY <2>1, <1>1, <1>7
  <2>2. CASE v # k
    BY <2>2, <1>7, <1>8, PipeFacts DEF NothingLost
  <2> QED  BY <2>1, <2>2
<1>15. EndedInOrder'
  <2>2. ASSUME NEW q \in job, Drained(q) PROVE Drained(q)'
    <3>1. q \notin Sources
      BY <2>2, <1>1, RoleFacts
    <3> QED  BY <3>1, <2>2, <1>1 DEF Drained
  <2>3. \A q \in job : q # p => holding'[q] = holding[q]
    BY <1>5, PipeFacts
  <2> QED  BY <2>2, <2>3, <1>1 DEF EndedInOrder
<1> QED  BY <1>10, <1>12, <1>13, <1>14, <1>15

(* A send that meets a receive. *)
LEMMA HandKeeps == ASSUME PipeInv, NEW p \in running, NEW q \in running, Hand(p, q) PROVE PipeInv'
<1> USE DEF PipeInv
<1>1. /\ q \notin Sinks /\ p \in Feeders(q) /\ holding[p] # None /\ holding[q] = None
      /\ holding' = [holding EXCEPT ![p] = None, ![q] = StageOf(q, holding[p])]
      /\ UNCHANGED <<job, left, running, cancelled, cut, result, verdict>>
  BY DEF Hand
<1>2. p \in job /\ q \in job /\ p \in Numbers \cup Rows /\ q \in Numbers \cup Rows /\ p # q
  BY <1>1, PipeFacts, PlaceFacts DEF PipeTypeOK
<1>3. PICK k \in SentValues : k <= Begun /\ Carries(p, k) /\ (Dropped(k) => p = "generate")
  BY <1>1, <1>2 DEF OneHolder
<1>4. holding[p] = FormOf(p, k) /\ \A v \in SentValues : Carries(p, v) <=> v = k
  <2>1. k \in Nat /\ SentValues \subseteq Nat
    BY PipeFacts
  <2> QED  BY <2>1, <1>3, FormsDiffer DEF Carries
<1>5. /\ holding'[p] = None /\ holding'[q] = StageOf(q, FormOf(p, k))
      /\ \A r \in Numbers \cup Rows : r # p /\ r # q => holding'[r] = holding[r]
  <2>1. holding = [r \in Numbers \cup Rows |-> holding[r]]
    BY DEF PipeTypeOK
  <2> QED  BY <2>1, <1>1, <1>2, <1>4
<1>6. holding' = [r \in Numbers \cup Rows |-> holding'[r]]
  BY <1>1 DEF PipeTypeOK
<1>7. /\ \A v : ~Carries(p, v)' /\ ~Carries(q, v)
      /\ \A r \in job : \A v : r # p /\ r # q => (Carries(r, v)' <=> Carries(r, v))
  BY <1>1, <1>5, PipeFacts, OthersCarry DEF Carries
<1>8. \A v : (Dropped(v)' <=> Dropped(v)) /\ FinalOf(v)' = FinalOf(v)
  BY <1>1 DEF Dropped, FinalOf
<1>9. q # "closer"
  BY <1>1 DEF Feeders, Squares, Mergers
<1>10. Begun' = Begun
  BY <1>1 DEF Begun
<1>11. PipeTypeOK'
  BY <1>1, <1>6, <1>10 DEF PipeTypeOK
<1>12. EndedInOrder'
  <2>1. \A r \in job : Drained(r)' <=> Drained(r)
    BY <1>1 DEF Drained
  <2>2. \A r \in job : r \notin running => holding'[r] = holding[r]
    BY <1>5, PipeFacts
  <2> QED  BY <2>1, <2>2, <1>1 DEF EndedInOrder
<1>13. CASE q = "filter" /\ k \in Refused
  <2>1. holding'[q] = None /\ \A v : ~Carries(q, v)'
    BY <1>1, <1>2, <1>5, <1>13, StageForms DEF Carries
  <2>2. Dropped(k)
    <3>1. job = Numbers
      BY <1>2, <1>13, PipeFacts DEF PipeTypeOK, Rows
    <3> QED  BY <3>1, <1>13 DEF Dropped
  <2>3. \A r \in job : \A v \in SentValues : Carries(r, v)' <=> Carries(r, v) /\ v # k
    <3>1. ASSUME NEW r \in job, r # p PROVE ~Carries(r, k)
      BY <3>1, <1>2, <1>3 DEF OneHolder
    <3> QED  BY <3>1, <2>1, <1>4, <1>7
  <2>4. OneHolder'
    <3>1. ASSUME NEW r \in Numbers \cup Rows, holding'[r] # None
          PROVE  /\ r \in job \ (Sinks \cup {"closer"})
                 /\ \E v \in SentValues : v <= Begun /\ Carries(r, v)' /\ (Dropped(v) => r = "generate")
      <4>1. r # p /\ r # q /\ holding[r] # None
        BY <3>1, <2>1, <1>5
      <4> QED  BY <4>1, <1>7 DEF OneHolder
    <3>2. \A r, s \in job : \A v \in SentValues : Carries(r, v)' /\ Carries(s, v)' => r = s
      BY <2>3 DEF OneHolder
    <3> QED  BY <3>1, <3>2, <1>1, <1>8, <1>10 DEF OneHolder
  <2>5. DeliveredOnce'
    BY <2>3, <1>1, <1>8, <1>10 DEF DeliveredOnce
  <2>6. NothingLost'
    <3> SUFFICES ASSUME NEW v \in SentValues, v <= Begun
                 PROVE  (\E r \in job : Carries(r, v)') \/ FinalOf(v) \in DOMAIN result \/ Dropped(v)
      BY <1>1, <1>8, <1>10 DEF NothingLost
    <3> QED  BY <2>2, <2>3 DEF NothingLost
  <2> QED  BY <2>4, <2>5, <2>6, <1>11, <1>12
<1>14. CASE ~(q = "filter" /\ k \in Refused)
  <2>1. holding'[q] = FormOf(q, k) /\ FormOf(q, k) # None
    <3>1. k \in Nat
      BY PipeFacts
    <3>2. StageOf(q, FormOf(p, k)) = FormOf(q, k)
      BY <1>1, <1>2, <1>14, StageForms
    <3> QED  BY <3>1, <3>2, <1>5, FormsDiffer
  <2>2. \A v \in SentValues : Carries(q, v)' <=> v = k
    <3>1. \A v \in SentValues : v \in Nat
      BY PipeFacts
    <3>2. \A v \in SentValues : Carries(q, v)' <=> holding'[q] # None /\ holding'[q] = FormOf(q, v)
      BY DEF Carries, FormOf
    <3> QED  BY <3>1, <3>2, <2>1, FormsDiffer
  <2>3. ~Dropped(k)
    <3> SUFFICES ASSUME Dropped(k) PROVE FALSE
      OBVIOUS
    <3>1. p = "generate" /\ k \in Refused
      BY <1>3 DEF Dropped
    <3>2. q = "filter"
      BY <3>1, <1>1 DEF Feeders, Squares, Mergers
    <3> QED  BY <3>1, <3>2, <1>14
  <2>4. \A r \in job : \A v \in SentValues : Carries(r, v)' <=> (IF v = k THEN r = q ELSE Carries(r, v))
    <3>1. ASSUME NEW r \in job, r # p PROVE ~Carries(r, k)
      BY <3>1, <1>2, <1>3 DEF OneHolder
    <3> QED  BY <3>1, <2>2, <1>2, <1>4, <1>7
  <2>5. OneHolder'
    <3>1. ASSUME NEW r \in Numbers \cup Rows, holding'[r] # None
          PROVE  /\ r \in job \ (Sinks \cup {"closer"})
                 /\ \E v \in SentValues : v <= Begun /\ Carries(r, v)' /\ (Dropped(v) => r = "generate")
      <4>1. CASE r = q
        BY <4>1, <2>2, <2>3, <1>1, <1>2, <1>3, <1>9
      <4>2. CASE r # q
        <5>1. r # p /\ holding[r] # None
          BY <3>1, <4>2, <1>5
        <5> QED  BY <5>1, <4>2, <1>7 DEF OneHolder
      <4> QED  BY <4>1, <4>2
    <3>2. \A r, s \in job : \A v \in SentValues : Carries(r, v)' /\ Carries(s, v)' => r = s
      BY <2>4 DEF OneHolder
    <3> QED  BY <3>1, <3>2, <1>1, <1>8, <1>10 DEF OneHolder
  <2>6. DeliveredOnce'
    <3>1. FinalOf(k) \notin DOMAIN result
      BY <1>2, <1>3 DEF DeliveredOnce
    <3>2. \A r \in job : \A v \in SentValues : Carries(r, v)' => FinalOf(v) \notin DOMAIN result
      BY <3>1, <2>4 DEF DeliveredOnce
    <3> QED  BY <3>2, <1>1, <1>8, <1>10 DEF DeliveredOnce
  <2>7. NothingLost'
    <3> SUFFICES ASSUME NEW v \in SentValues, v <= Begun
                 PROVE  (\E r \in job : Carries(r, v)') \/ FinalOf(v) \in DOMAIN result \/ Dropped(v)
      BY <1>1, <1>8, <1>10 DEF NothingLost
    <3>1. CASE v = k
      BY <3>1, <2>4, <1>2
    <3>2. CASE v # k
      BY <3>2, <2>4 DEF NothingLost
    <3> QED  BY <3>1, <3>2
  <2> QED  BY <2>5, <2>6, <2>7, <1>11, <1>12
<1> QED  BY <1>13, <1>14

(* The consumer takes a value. *)
LEMMA ConsumeKeeps == ASSUME PipeInv, NEW p \in running, NEW q \in running, Consume(p, q) PROVE PipeInv'
<1> USE DEF PipeInv
<1>1. /\ q \in Sinks /\ p \in Feeders(q) /\ holding[p] # None
      /\ holding' = [holding EXCEPT ![p] = None] /\ result' = result (+) SetToBag({holding[p]})
      /\ UNCHANGED <<job, left, running, cancelled, cut, verdict>>
  BY DEF Consume
<1>2. p \in job /\ q \in job /\ p \in Numbers \cup Rows
  BY <1>1, PipeFacts DEF PipeTypeOK
<1>3. PICK k \in SentValues : k <= Begun /\ Carries(p, k) /\ (Dropped(k) => p = "generate")
  BY <1>1, <1>2 DEF OneHolder
<1>4. /\ holding[p] = FinalOf(k) /\ ~Dropped(k) /\ FinalOf(k) \notin DOMAIN result
      /\ \A v \in SentValues : (Carries(p, v) <=> v = k) /\ (FinalOf(v) = FinalOf(k) <=> v = k)
  <2>1. FormOf(p, k) = FinalOf(k) /\ p # "generate"
    BY <1>1, <1>2, LastForms DEF PipeTypeOK
  <2>2. k \in Nat /\ SentValues \subseteq Nat
    BY PipeFacts
  <2>3. \A v \in SentValues : (Carries(p, v) <=> v = k) /\ (FinalOf(v) = FinalOf(k) <=> v = k)
    BY <2>2, <1>3, FormsDiffer DEF Carries
  <2> QED  BY <2>1, <2>3, <1>2, <1>3 DEF Carries, DeliveredOnce
<1>5. holding'[p] = None /\ \A r \in Numbers \cup Rows : r # p => holding'[r] = holding[r]
  <2>1. holding = [r \in Numbers \cup Rows |-> holding[r]]
    BY DEF PipeTypeOK
  <2> QED  BY <2>1, <1>1, <1>2
<1>6. \A r \in job : \A v \in SentValues : Carries(r, v)' <=> Carries(r, v) /\ v # k
  <2>1. ASSUME NEW r \in job, r # p PROVE ~Carries(r, k)
    BY <2>1, <1>2, <1>3 DEF OneHolder
  <2>2. \A r \in job : \A v : r # p => (Carries(r, v)' <=> Carries(r, v))
    BY <1>1, <1>5, PipeFacts, OthersCarry
  <2>3. \A v : ~Carries(p, v)'
    BY <1>5 DEF Carries
  <2> QED  BY <2>1, <2>2, <2>3, <1>4
<1>7. result' = SetToBag(DOMAIN result \cup {FinalOf(k)}) /\ DOMAIN result' = DOMAIN result \cup {FinalOf(k)}
  <2>1. result' = SetToBag(DOMAIN result) (+) SetToBag({FinalOf(k)})
    BY <1>1, <1>4 DEF DeliveredOnce
  <2>2. result' = SetToBag(DOMAIN result \cup {FinalOf(k)})
    BY <2>1, <1>4, OneMoreCopy
  <2> QED  BY <2>2 DEF SetToBag
<1>8. \A v : (Dropped(v)' <=> Dropped(v)) /\ FinalOf(v)' = FinalOf(v)
  BY <1>1 DEF Dropped, FinalOf
<1>9. Begun' = Begun
  BY <1>1 DEF Begun
<1>10. PipeTypeOK'
  BY <1>1, <1>9 DEF PipeTypeOK
<1>11. OneHolder'
  <2>1. ASSUME NEW r \in Numbers \cup Rows, holding'[r] # None
        PROVE  /\ r \in job \ (Sinks \cup {"closer"})
               /\ \E v \in SentValues : v <= Begun /\ Carries(r, v)' /\ (Dropped(v) => r = "generate")
    <3>1. r # p /\ holding'[r] = holding[r]
      BY <2>1, <1>5
    <3>2. r \in job \ (Sinks \cup {"closer"})
      BY <2>1, <3>1 DEF OneHolder
    <3>3. PICK v \in SentValues : v <= Begun /\ Carries(r, v) /\ (Dropped(v) => r = "generate")
      BY <2>1, <3>1 DEF OneHolder
    <3>4. Carries(r, v)'
      BY <3>1, <3>3, <1>1, OthersCarry
    <3> QED  BY <3>2, <3>3, <3>4
  <2>2. \A r, s \in job : \A v \in SentValues : Carries(r, v)' /\ Carries(s, v)' => r = s
    BY <1>6 DEF OneHolder
  <2> QED  BY <2>1, <2>2, <1>1, <1>8, <1>9 DEF OneHolder
<1>12. DeliveredOnce'
  <2>1. result' = SetToBag(DOMAIN result')
    BY <1>7
  <2>2. \A x \in DOMAIN result' : \E v \in SentValues : v <= Begun /\ x = FinalOf(v) /\ ~Dropped(v)
    BY <1>3, <1>4, <1>7 DEF DeliveredOnce
  <2>3. \A r \in job : \A v \in SentValues : Carries(r, v)' => FinalOf(v) \notin DOMAIN result'
    BY <1>4, <1>6, <1>7 DEF DeliveredOnce
  <2> QED  BY <2>1, <2>2, <2>3, <1>1, <1>8, <1>9 DEF DeliveredOnce
<1>13. NothingLost'
  <2> SUFFICES ASSUME NEW v \in SentValues, v <= Begun
               PROVE  (\E r \in job : Carries(r, v)') \/ FinalOf(v) \in DOMAIN result' \/ Dropped(v)
    BY <1>1, <1>8, <1>9 DEF NothingLost
  <2> QED  BY <1>6, <1>7 DEF NothingLost
<1>14. EndedInOrder'
  <2>1. \A r \in job : Drained(r)' <=> Drained(r)
    BY <1>1 DEF Drained
  <2>2. \A r \in job : r \notin running => holding'[r] = holding[r]
    BY <1>5, PipeFacts
  <2> QED  BY <2>1, <2>2, <1>1 DEF EndedInOrder
<1> QED  BY <1>10, <1>11, <1>12, <1>13, <1>14

(* A goroutine or the consumer returns; the context ends. *)
LEMMA ReturnKeeps ==
    ASSUME PipeInv,
           \/ \E q \in running : CloseQueue(q) \/ LeaveByContext(q) \/ Finish(q)
           \/ Cancel \/ (\E q \in Sinks : StopReading(q)) \/ UNCHANGED pipeVars
    PROVE  PipeInv'
<1> USE DEF PipeInv
<1>1. UNCHANGED <<job, left, holding, result>> /\ running' \subseteq running /\ cut \subseteq cut'
  BY DEF CloseQueue, LeaveByContext, Finish, Cancel, StopReading, pipeVars
<1>2. /\ \A r : \A v : Carries(r, v)' <=> Carries(r, v)
      /\ \A v : (Dropped(v)' <=> Dropped(v)) /\ FinalOf(v)' = FinalOf(v)
      /\ Begun' = Begun
  BY <1>1 DEF Carries, FormOf, Dropped, FinalOf, Begun
<1>3. \A q \in job : Drained(q) => Drained(q)'
  BY <1>1 DEF Drained
<1>4. PipeTypeOK'
  <2>1. cut' \subseteq job
    BY <1>1 DEF PipeTypeOK, CloseQueue, LeaveByContext, Finish, Cancel, StopReading, pipeVars
  <2>2. cancelled' \in BOOLEAN /\ verdict' \in {None, "complete", "cut", "left"}
    BY DEF PipeTypeOK, CloseQueue, LeaveByContext, Finish, Cancel, StopReading, pipeVars
  <2> QED  BY <2>1, <2>2, <1>1, <1>2 DEF PipeTypeOK
<1>5. OneHolder' /\ DeliveredOnce' /\ NothingLost'
  BY <1>1, <1>2 DEF OneHolder, DeliveredOnce, NothingLost
<1>6. EndedInOrder'
  <2>1. \A q \in job \ Sinks : q \in running /\ q \notin running' /\ q \notin cut' => holding[q] = None /\ Drained(q)
    BY DEF CloseQueue, LeaveByContext, Finish, Cancel, StopReading, pipeVars
  <2>2. verdict' = "complete" => \A q \in job \cap Sinks : Drained(q)
    <3>1. \A q, r \in job \cap Sinks : q = r
      BY PlaceFacts DEF PipeTypeOK, Sinks
    <3>2. ASSUME NEW q \in running, Finish(q), verdict' = "complete" PROVE \A r \in job \cap Sinks : Drained(r)
      <4>1. q \in job \cap Sinks /\ Drained(q)
        BY <3>2 DEF Finish, PipeTypeOK
      <4> QED  BY <4>1, <3>1
    <3>3. verdict' = "complete" /\ verdict # "complete" => \E q \in running : Finish(q)
      BY DEF CloseQueue, LeaveByContext, Cancel, StopReading, pipeVars
    <3> QED  BY <3>2, <3>3 DEF EndedInOrder
  <2> QED  BY <2>1, <2>2, <1>1, <1>3 DEF EndedInOrder
<1> QED  BY <1>4, <1>5, <1>6

(* The inductive invariant holds in every state. *)
THEOREM PipeInvariant == PipeSpec => []PipeInv
<1>1. PipeInv /\ [PipeNext]_pipeVars => PipeInv'
  BY SourceKeeps, HandKeeps, ConsumeKeeps, ReturnKeeps DEF PipeNext, PipeStep
<1> QED  BY <1>1, PipeStarts, PTL DEF PipeSpec

(* A consumer that saw its channel closed is the last of a line of         *)
(* goroutines that all returned with nothing in their hands.               *)
LEMMA LineIsEmpty ==
    ASSUME PipeInv, verdict = "complete", cut = {}
    PROVE  left = <<>> /\ \A p \in job \ Sinks : holding[p] = None
<1> USE DEF PipeInv
<1>1. \A q \in job \ Sinks : q \notin running => holding[q] = None /\ Drained(q)
  BY DEF EndedInOrder
<1>2. CASE job = Numbers
  <2>1. "closer" \notin running
    BY <1>2, RoleFacts DEF EndedInOrder, Numbers, Sinks
  <2>2. "merge1" \notin running /\ "merge2" \notin running
    BY <2>1, <1>1, <1>2, RoleFacts DEF Numbers, Sinks, Mergers
  <2>3. "square1" \notin running /\ "square2" \notin running
    <3>1. Drained("merge1") /\ Drained("merge2")
      BY <2>2, <1>1, <1>2 DEF Numbers, Mergers, Sinks
    <3> QED  BY <3>1 DEF Drained, Sources, Feeders, Squares, Mergers
  <2>4. "filter" \notin running
    <3>1. Drained("square1")
      BY <2>3, <1>1, <1>2 DEF Numbers, Squares, Sinks
    <3> QED  BY <3>1 DEF Drained, Sources, Feeders, Squares
  <2>5. "generate" \notin running
    <3>1. Drained("filter")
      BY <2>4, <1>1, <1>2 DEF Numbers, Sinks
    <3> QED  BY <3>1 DEF Drained, Sources, Feeders, Squares, Mergers
  <2>6. left = <<>>
    BY <2>5, <1>1, <1>2, RoleFacts DEF Numbers, Sinks, Sources
  <2>7. \A p \in job \ Sinks : p \notin running
    BY <2>1, <2>2, <2>3, <2>4, <2>5, <1>2 DEF Numbers, Sinks, Squares, Mergers
  <2> QED  BY <2>6, <2>7, <1>1
<1>3. CASE job = Rows
  <2>1. "transform" \notin running
    <3>1. Drained("load")
      BY <1>3 DEF EndedInOrder, Rows, Sinks
    <3> QED  BY <3>1 DEF Drained, Sources, Feeders, Squares, Mergers
  <2>2. "records" \notin running
    <3>1. Drained("transform")
      BY <2>1, <1>1, <1>3 DEF Rows, Sinks
    <3> QED  BY <3>1 DEF Drained, Sources, Feeders, Squares, Mergers
  <2>3. left = <<>>
    BY <2>2, <1>1, <1>3, RoleFacts DEF Rows, Sinks, Sources
  <2>4. \A p \in job \ Sinks : p \notin running
    BY <2>1, <2>2, <1>3 DEF Rows, Sinks
  <2> QED  BY <2>3, <2>4, <1>1
<1> QED  BY <1>2, <1>3 DEF PipeTypeOK

(* What the consumer relies on follows from it. *)
LEMMA PipeSuffices == PipeInv => CompleteUnlessCut
<1> SUFFICES ASSUME PipeInv, verdict = "complete", cut = {} PROVE result = Everything
  BY DEF CompleteUnlessCut
<1> USE DEF PipeInv
<1>1. Begun = Items /\ \A v \in SentValues : v <= Begun
  BY LineIsEmpty, PipeFacts, PipeAssumption DEF Begun, SentValues
<1>2. \A p \in job : \A v : ~Carries(p, v)
  <2>1. \A p \in job : holding[p] = None
    BY LineIsEmpty, PipeFacts DEF OneHolder
  <2> QED  BY <2>1 DEF Carries
<1>3. DOMAIN result = {FinalOf(v) : v \in {w \in SentValues : ~Dropped(w)}}
  <2>1. \A v \in SentValues : ~Dropped(v) => FinalOf(v) \in DOMAIN result
    BY <1>1, <1>2 DEF NothingLost
  <2>2. \A x \in DOMAIN result : \E v \in SentValues : ~Dropped(v) /\ x = FinalOf(v)
    BY DEF DeliveredOnce
  <2> QED  BY <2>1, <2>2
<1>4. CASE job = Numbers
  <2>1. {w \in SentValues : ~Dropped(w)} = 1..Items \ Refused
    BY <1>4 DEF Dropped, SentValues
  <2>2. {FinalOf(v) : v \in 1..Items \ Refused} = {v * v : v \in 1..Items \ Refused}
    BY <1>4 DEF FinalOf
  <2> QED  BY <2>1, <2>2, <1>3, <1>4 DEF Everything, DeliveredOnce
<1>5. CASE job = Rows
  <2>1. {w \in SentValues : ~Dropped(w)} = 1..Items /\ job # Numbers
    BY <1>5, PlaceFacts DEF Dropped, SentValues
  <2>2. {FinalOf(v) : v \in 1..Items} = {StageOf("transform", v) : v \in 1..Items}
    BY <2>1 DEF FinalOf, StageOf, Squares
  <2> QED  BY <2>1, <2>2, <1>3 DEF Everything, DeliveredOnce
<1> QED  BY <1>4, <1>5 DEF PipeTypeOK

-----------------------------------------------------------------------------
(* A pool whose results are collected. *)

Jobs == 1..PoolJobs

(* The inductive invariant, by parts. *)
PoolTypeOK ==
    /\ failFast \in BOOLEAN /\ jobsClosed \in BOOLEAN /\ poolCut \in BOOLEAN
    /\ nextJob \in 1..(PoolJobs + 1)
    /\ worker \in [PoolWorkers -> {<<>>} \cup Jobs \X (JobOutcomes \cup {None})]
    /\ goneWorkers \subseteq PoolWorkers
    /\ received \in {None} \cup Jobs \X JobOutcomes
    /\ poolResults \in Seq(Jobs \X JobOutcomes)
    /\ poolError \in {None} \cup Jobs

HasJob(w, m) == worker[w] # <<>> /\ worker[w][1] = m
Handed(m) == received # None /\ received[1] = m

(* A job that was fed is in one place; one that was not is in none. *)
JobsAreApart ==
    /\ \A w \in PoolWorkers : \A m \in Jobs : HasJob(w, m) =>
          /\ m < nextJob /\ ~Handed(m) /\ m \notin JobsIn(poolResults)
          /\ \A v \in PoolWorkers : HasJob(v, m) => v = w
    /\ \A m \in Jobs : Handed(m) => m < nextJob /\ m \notin JobsIn(poolResults)
    /\ \A m \in JobsIn(poolResults) : m < nextJob
    /\ Len(poolResults) = Cardinality(JobsIn(poolResults))

(* None is lost before the context ends. *)
NoneIsLost ==
    ~PoolContextEnded =>
        /\ \A m \in Jobs : m < nextJob =>
              (\E w \in PoolWorkers : HasJob(w, m)) \/ Handed(m) \/ m \in JobsIn(poolResults)
        /\ jobsClosed \/ goneWorkers # {} => nextJob = PoolJobs + 1
        /\ \A w \in PoolWorkers : worker[w] # <<>> => worker[w][2] # "cancelled"
        /\ received # None => received[2] # "cancelled"
        /\ \A i \in DOMAIN poolResults : poolResults[i][2] # "cancelled"

GoneAreIdle == \A w \in goneWorkers : worker[w] = <<>>

(* The error is that of the first failure; there is none without one. *)
ErrorIsFirst ==
    /\ poolError # None => failFast /\
          \E i \in DOMAIN poolResults :
             /\ poolResults[i] = <<poolError, "failed">>
             /\ \A j \in 1..(i - 1) : poolResults[j][2] # "failed"
    /\ failFast /\ poolError = None => \A i \in DOMAIN poolResults : poolResults[i][2] # "failed"

PoolInv == PoolTypeOK /\ JobsAreApart /\ NoneIsLost /\ GoneAreIdle /\ ErrorIsFirst

(* What a worker holds is nothing or a pair. *)
LEMMA PairIsPair ==
    ASSUME NEW A, NEW B, NEW t \in A \X B
    PROVE  /\ t # <<>> /\ t = <<t[1], t[2]>> /\ t[1] \in A /\ t[2] \in B
           /\ \A o : [t EXCEPT ![2] = o] = <<t[1], o>>
<1>1. t = <<t[1], t[2]>> /\ t[1] \in A /\ t[2] \in B
  OBVIOUS
<1>2. t # <<>>
  <2>1. 1 \in DOMAIN t
    OBVIOUS
  <2>2. DOMAIN <<>> = {}
    OBVIOUS
  <2> QED  BY <2>1, <2>2
<1>3. ASSUME NEW o PROVE [t EXCEPT ![2] = o] = <<t[1], o>>
  <2>1. DOMAIN t = 1..2
    OBVIOUS
  <2> QED  BY <2>1
<1> QED  BY <1>1, <1>2, <1>3

(* One more result. *)
LEMMA OneMoreResult ==
    ASSUME NEW s \in Seq(Jobs \X JobOutcomes), NEW r \in Jobs \X JobOutcomes
    PROVE  /\ Append(s, r) \in Seq(Jobs \X JobOutcomes)
           /\ JobsIn(Append(s, r)) = JobsIn(s) \cup {r[1]}
           /\ Len(Append(s, r)) = Len(s) + 1
           /\ DOMAIN Append(s, r) = DOMAIN s \cup {Len(s) + 1}
           /\ \A i \in DOMAIN s : Append(s, r)[i] = s[i]
           /\ Append(s, r)[Len(s) + 1] = r
<1>1. /\ Append(s, r) \in Seq(Jobs \X JobOutcomes) /\ Len(Append(s, r)) = Len(s) + 1
      /\ DOMAIN Append(s, r) = DOMAIN s \cup {Len(s) + 1}
      /\ \A i \in DOMAIN s : Append(s, r)[i] = s[i]
      /\ Append(s, r)[Len(s) + 1] = r
  OBVIOUS
<1>2. JobsIn(Append(s, r)) = JobsIn(s) \cup {r[1]}
  <2> DEFINE e == Append(s, r)
  <2>1. \A i \in DOMAIN e : e[i][1] \in JobsIn(s) \cup {r[1]}
    BY <1>1 DEF JobsIn
  <2>2. \A i \in DOMAIN s : s[i][1] \in JobsIn(e)
    BY <1>1 DEF JobsIn
  <2>3. r[1] \in JobsIn(e)
    BY <1>1 DEF JobsIn
  <2> QED  BY <2>1, <2>2, <2>3, Zenon DEF JobsIn
<1> QED  BY <1>1, <1>2

(* The jobs that have a result are finitely many. *)
LEMMA ResultsFinite ==
    ASSUME NEW s \in Seq(Jobs \X JobOutcomes)
    PROVE  JobsIn(s) \subseteq Jobs /\ IsFiniteSet(JobsIn(s))
<1>1. \A i \in DOMAIN s : s[i] \in Jobs \X JobOutcomes
  OBVIOUS
<1>2. \A i \in DOMAIN s : s[i][1] \in Jobs
  BY <1>1, PairIsPair
<1>3. JobsIn(s) \subseteq Jobs
  BY <1>2 DEF JobsIn
<1>4. IsFiniteSet(Jobs)
  BY FS_Interval, PoolAssumption DEF Jobs
<1> QED  BY <1>3, <1>4, FS_Subset

(* What the proofs use of the types. *)
LEMMA PoolFacts ==
    ASSUME PoolTypeOK
    PROVE  /\ nextJob \in Nat /\ JobsIn(poolResults) \subseteq Jobs /\ IsFiniteSet(JobsIn(poolResults))
           /\ Jobs \subseteq Nat /\ None \notin Nat \cup JobOutcomes \cup (Jobs \X JobOutcomes)
<1>1. JobsIn(poolResults) \subseteq Jobs /\ IsFiniteSet(JobsIn(poolResults))
  BY ResultsFinite DEF PoolTypeOK
<1>2. nextJob \in Nat /\ Jobs \subseteq Nat
  BY PoolAssumption DEF PoolTypeOK, Jobs
<1>3. None \notin Nat \cup JobOutcomes \cup (Jobs \X JobOutcomes)
  BY PoolAssumption, <1>2
<1> QED  BY <1>1, <1>2, <1>3

(* What a worker holds. *)
LEMMA HeldIsPair ==
    ASSUME PoolTypeOK, NEW w \in PoolWorkers, worker[w] # <<>>
    PROVE  /\ worker[w] \in Jobs \X (JobOutcomes \cup {None})
           /\ worker[w] = <<worker[w][1], worker[w][2]>>
           /\ worker[w][1] \in Jobs /\ worker[w][2] \in JobOutcomes \cup {None}
           /\ \A o : [worker[w] EXCEPT ![2] = o] = <<worker[w][1], o>>
<1>1. worker[w] \in Jobs \X (JobOutcomes \cup {None})
  BY DEF PoolTypeOK
<1> QED  BY <1>1, PairIsPair

(* Nothing has been fed. *)
LEMMA PoolStarts == PoolInit => PoolInv
<1> SUFFICES ASSUME PoolInit PROVE PoolInv
  OBVIOUS
<1>1. JobsIn(poolResults) = {} /\ DOMAIN poolResults = {}
  BY DEF PoolInit, JobsIn
<1>2. PoolTypeOK
  <2>1. worker \in [PoolWorkers -> {<<>>} \cup Jobs \X (JobOutcomes \cup {None})]
    BY DEF PoolInit
  <2>2. poolResults \in Seq(Jobs \X JobOutcomes)
    BY DEF PoolInit
  <2>3. failFast \in BOOLEAN /\ jobsClosed \in BOOLEAN /\ poolCut \in BOOLEAN
    BY DEF PoolInit
  <2>4. nextJob \in 1..(PoolJobs + 1) /\ goneWorkers \subseteq PoolWorkers
    BY PoolAssumption DEF PoolInit
  <2>5. received = None /\ poolError = None
    BY DEF PoolInit
  <2> QED  BY <2>1, <2>2, <2>3, <2>4, <2>5 DEF PoolTypeOK
<1>3. JobsAreApart
  BY <1>1, FS_EmptySet DEF PoolInit, JobsAreApart, HasJob, Handed
<1>4. NoneIsLost
  BY <1>1 DEF PoolInit, NoneIsLost, Jobs
<1>5. GoneAreIdle /\ ErrorIsFirst
  BY <1>1 DEF PoolInit, GoneAreIdle, ErrorIsFirst
<1> QED  BY <1>2, <1>3, <1>4, <1>5 DEF PoolInv

(* The feeder hands a job to a worker. *)
LEMMA FeedKeeps == ASSUME PoolInv, NEW w \in PoolWorkers, Feed(w) PROVE PoolInv'
<1> USE DEF PoolInv
<1>1. nextJob \in Jobs /\ nextJob' = nextJob + 1
  BY PoolAssumption DEF Feed, PoolTypeOK, Jobs
<1>2. worker' = [worker EXCEPT ![w] = <<nextJob, None>>] /\ worker[w] = <<>> /\ w \notin goneWorkers
  BY DEF Feed, Ready
<1>3. UNCHANGED <<failFast, jobsClosed, goneWorkers, received, poolResults, poolError, poolCut>> /\ ~jobsClosed
  BY DEF Feed
<1>4. <<nextJob, None>> \in Jobs \X (JobOutcomes \cup {None})
  BY <1>1
<1>0. PICK k \in Jobs : k = nextJob
  BY <1>1
<1>5. /\ HasJob(w, k)'
      /\ \A m \in Jobs : HasJob(w, m)' => m = k
      /\ \A v \in PoolWorkers : \A m \in Jobs : v # w => (HasJob(v, m)' <=> HasJob(v, m))
      /\ \A m \in Jobs : ~HasJob(w, m)
  <2>1. worker'[w] = <<nextJob, None>> /\ \A v \in PoolWorkers : v # w => worker'[v] = worker[v]
    BY <1>2 DEF PoolTypeOK
  <2>2. <<nextJob, None>> # <<>> /\ <<nextJob, None>>[1] = nextJob
    BY <1>4, PairIsPair
  <2>3. HasJob(w, k)' /\ \A m \in Jobs : HasJob(w, m)' => m = k
    BY <1>0, <2>1, <2>2 DEF HasJob
  <2>4. \A v \in PoolWorkers : \A m \in Jobs : v # w => (HasJob(v, m)' <=> HasJob(v, m))
    BY <2>1, Zenon DEF HasJob
  <2>5. \A m \in Jobs : ~HasJob(w, m)
    BY <1>2, Zenon DEF HasJob
  <2> QED  BY <2>3, <2>4, <2>5
<1>6. PoolTypeOK'
  BY <1>1, <1>2, <1>3, <1>4, PoolAssumption DEF PoolTypeOK, Jobs
<1>7. \A m \in Jobs : Handed(m)' = Handed(m)
  BY <1>3 DEF Handed
<1>8. JobsIn(poolResults)' = JobsIn(poolResults) /\ (PoolContextEnded' = PoolContextEnded)
  BY <1>3 DEF JobsIn, PoolContextEnded
<1>9. nextJob \in Nat /\ JobsIn(poolResults) \subseteq Jobs /\ Jobs \subseteq Nat
  BY PoolFacts
<1>10. JobsAreApart'
  BY <1>0, <1>1, <1>3, <1>5, <1>7, <1>8, <1>9 DEF JobsAreApart
<1>11. NoneIsLost'
  <2> SUFFICES ASSUME ~PoolContextEnded PROVE NoneIsLost'
    BY <1>8 DEF NoneIsLost
  <2>1. \A m \in Jobs : m < nextJob' =>
              (\E v \in PoolWorkers : HasJob(v, m)') \/ Handed(m)' \/ m \in JobsIn(poolResults)'
    BY <1>0, <1>1, <1>5, <1>7, <1>8, <1>9 DEF NoneIsLost
  <2>2. nextJob # PoolJobs + 1
    BY <1>1, PoolAssumption DEF Jobs
  <2>3. \A v \in PoolWorkers : worker'[v] # <<>> => worker'[v][2] # "cancelled"
    BY <1>2, PoolAssumption DEF NoneIsLost, PoolTypeOK, JobOutcomes
  <2> QED  BY <2>1, <2>2, <2>3, <1>3, <1>8 DEF NoneIsLost
<1>12. GoneAreIdle' /\ ErrorIsFirst'
  BY <1>2, <1>3 DEF GoneAreIdle, ErrorIsFirst, PoolTypeOK
<1> QED  BY <1>6, <1>10, <1>11, <1>12

(* A step that a worker's job stays in place through, and one that leaves  *)
(* it idle.                                                                *)
LEMMA OthersHold ==
    ASSUME PoolTypeOK, NEW w \in PoolWorkers, NEW x, worker' = [worker EXCEPT ![w] = x]
    PROVE  /\ worker'[w] = x
           /\ \A v \in PoolWorkers : v # w => worker'[v] = worker[v]
           /\ \A v \in PoolWorkers : \A m \in Jobs : v # w => (HasJob(v, m)' <=> HasJob(v, m))
<1>1. worker'[w] = x /\ \A v \in PoolWorkers : v # w => worker'[v] = worker[v]
  BY DEF PoolTypeOK
<1> QED  BY <1>1, Zenon DEF HasJob

(* A worker runs its job. *)
LEMMA RunJobKeeps == ASSUME PoolInv, NEW w \in PoolWorkers, RunJob(w) PROVE PoolInv'
<1> USE DEF PoolInv
<1>1. PICK o \in OutcomesOf(worker[w][1]) : worker' = [worker EXCEPT ![w][2] = o]
  BY DEF RunJob
<1>2. worker[w] # <<>> /\ UNCHANGED <<failFast, nextJob, jobsClosed, goneWorkers, received, poolResults, poolError, poolCut>>
  BY DEF RunJob
<1>3. PICK k \in Jobs : k = worker[w][1]
  BY <1>2, HeldIsPair
<1>4. o \in JobOutcomes /\ (o = "cancelled" => PoolContextEnded)
  BY <1>1 DEF OutcomesOf, JobOutcomes
<1>5. worker' = [worker EXCEPT ![w] = <<k, o>>]
  <2>1. [worker[w] EXCEPT ![2] = o] = <<k, o>>
    BY <1>2, <1>3, HeldIsPair
  <2>2. worker' = [worker EXCEPT ![w] = [worker[w] EXCEPT ![2] = o]]
    BY <1>1
  <2> QED  BY <2>1, <2>2
<1>6. <<k, o>> \in Jobs \X (JobOutcomes \cup {None}) /\ <<k, o>> # <<>> /\ <<k, o>>[1] = k /\ <<k, o>>[2] = o
  <2>1. <<k, o>> \in Jobs \X (JobOutcomes \cup {None})
    BY <1>4
  <2> QED  BY <2>1, PairIsPair
<1>7. \A v \in PoolWorkers : \A m \in Jobs : HasJob(v, m)' <=> HasJob(v, m)
  <2>1. \A m \in Jobs : HasJob(w, m)' <=> HasJob(w, m)
    BY <1>2, <1>3, <1>5, <1>6, OthersHold DEF HasJob
  <2> QED  BY <2>1, <1>5, OthersHold
<1>8. PoolTypeOK'
  BY <1>2, <1>5, <1>6 DEF PoolTypeOK
<1>9. /\ \A m : Handed(m)' = Handed(m)
      /\ JobsIn(poolResults)' = JobsIn(poolResults) /\ (PoolContextEnded' <=> PoolContextEnded)
  BY <1>2 DEF Handed, JobsIn, PoolContextEnded
<1>10. JobsAreApart'
  BY <1>2, <1>7, <1>9, PoolFacts DEF JobsAreApart
<1>11. NoneIsLost'
  <2> SUFFICES ASSUME ~PoolContextEnded PROVE NoneIsLost'
    BY <1>9 DEF NoneIsLost
  <2>1. \A v \in PoolWorkers : worker'[v] # <<>> => worker'[v][2] # "cancelled"
    BY <1>4, <1>5, <1>6, OthersHold DEF NoneIsLost
  <2> QED  BY <2>1, <1>2, <1>7, <1>9 DEF NoneIsLost
<1>12. GoneAreIdle' /\ ErrorIsFirst'
  <2>1. w \notin goneWorkers
    BY <1>2 DEF GoneAreIdle
  <2> QED  BY <2>1, <1>2, <1>5, OthersHold DEF GoneAreIdle, ErrorIsFirst, PoolTypeOK
<1> QED  BY <1>8, <1>10, <1>11, <1>12

(* Its result meets the collector. *)
LEMMA SendResultKeeps == ASSUME PoolInv, NEW w \in PoolWorkers, SendResult(w) PROVE PoolInv'
<1> USE DEF PoolInv
<1>1. /\ worker[w] # <<>> /\ worker[w][2] # None /\ received = None
      /\ received' = worker[w] /\ worker' = [worker EXCEPT ![w] = <<>>]
      /\ UNCHANGED <<failFast, nextJob, jobsClosed, goneWorkers, poolResults, poolError, poolCut>>
  BY DEF SendResult, Finished
<1>2. PICK k \in Jobs : k = worker[w][1]
  BY <1>1, HeldIsPair
<1>3. worker[w] \in Jobs \X JobOutcomes /\ worker[w] # None
  BY <1>1, HeldIsPair, PoolFacts
<1>4. \A m \in Jobs : ~HasJob(w, m)' /\ (HasJob(w, m) <=> m = k) /\ ~Handed(m)
  BY <1>1, <1>2, OthersHold DEF HasJob, Handed
<1>5. \A m \in Jobs : Handed(m)' <=> m = k
  BY <1>1, <1>2, <1>3 DEF Handed
<1>6. \A v \in PoolWorkers : \A m \in Jobs : v # w => (HasJob(v, m)' <=> HasJob(v, m))
  BY <1>1, OthersHold
<1>7. JobsIn(poolResults)' = JobsIn(poolResults) /\ (PoolContextEnded' <=> PoolContextEnded)
  BY <1>1 DEF JobsIn, PoolContextEnded
<1>8. PoolTypeOK'
  BY <1>1, <1>3 DEF PoolTypeOK
<1>9. JobsAreApart'
  BY <1>1, <1>4, <1>5, <1>6, <1>7, PoolFacts DEF JobsAreApart
<1>10. NoneIsLost'
  <2> SUFFICES ASSUME ~PoolContextEnded PROVE NoneIsLost'
    BY <1>7 DEF NoneIsLost
  <2>1. \A v \in PoolWorkers : worker'[v] # <<>> => worker'[v][2] # "cancelled"
    BY <1>1, OthersHold DEF NoneIsLost
  <2>2. \A m \in Jobs : m < nextJob' =>
              (\E v \in PoolWorkers : HasJob(v, m)') \/ Handed(m)' \/ m \in JobsIn(poolResults)'
    BY <1>1, <1>4, <1>5, <1>6, <1>7 DEF NoneIsLost
  <2> QED  BY <2>1, <2>2, <1>1, <1>7 DEF NoneIsLost
<1>11. GoneAreIdle' /\ ErrorIsFirst'
  BY <1>1, OthersHold DEF GoneAreIdle, ErrorIsFirst, PoolTypeOK
<1> QED  BY <1>8, <1>9, <1>10, <1>11

(* Its result is lost, because the context ended. *)
LEMMA DropResultKeeps == ASSUME PoolInv, NEW w \in PoolWorkers, DropResult(w) PROVE PoolInv'
<1> USE DEF PoolInv
<1>1. /\ PoolContextEnded /\ worker' = [worker EXCEPT ![w] = <<>>] /\ goneWorkers' = goneWorkers \cup {w}
      /\ UNCHANGED <<failFast, nextJob, jobsClosed, received, poolResults, poolError, poolCut>>
  BY DEF DropResult, MayDrop
<1>2. \A m \in Jobs : ~HasJob(w, m)'
  BY <1>1, OthersHold DEF HasJob
<1>3. \A v \in PoolWorkers : \A m \in Jobs : v # w => (HasJob(v, m)' <=> HasJob(v, m))
  BY <1>1, OthersHold
<1>4. /\ \A m : Handed(m)' = Handed(m)
      /\ JobsIn(poolResults)' = JobsIn(poolResults) /\ PoolContextEnded'
  BY <1>1 DEF Handed, JobsIn, PoolContextEnded
<1>5. PoolTypeOK'
  BY <1>1 DEF PoolTypeOK
<1>6. JobsAreApart'
  BY <1>1, <1>2, <1>3, <1>4, PoolFacts DEF JobsAreApart
<1>7. NoneIsLost'
  BY <1>4 DEF NoneIsLost
<1>8. GoneAreIdle' /\ ErrorIsFirst'
  BY <1>1, OthersHold DEF GoneAreIdle, ErrorIsFirst, PoolTypeOK
<1> QED  BY <1>5, <1>6, <1>7, <1>8

(* The collector keeps the result, and the first failure. *)
LEMMA CollectKeeps == ASSUME PoolInv, Collect PROVE PoolInv'
<1> USE DEF PoolInv
<1>1. /\ received # None /\ received' = None /\ poolResults' = Append(poolResults, received)
      /\ poolError' = IF failFast /\ poolError = None /\ received[2] = "failed" THEN received[1] ELSE poolError
      /\ UNCHANGED <<failFast, nextJob, jobsClosed, worker, goneWorkers, poolCut>>
  BY DEF Collect, IsCause
<1>2. received \in Jobs \X JobOutcomes
  BY <1>1 DEF PoolTypeOK
<1>3. PICK k \in Jobs, o \in JobOutcomes : received = <<k, o>>
  BY <1>2
<1>4. received[1] = k /\ received[2] = o
  BY <1>3
<1>5. poolResults \in Seq(Jobs \X JobOutcomes)
  BY DEF PoolTypeOK
<1>6. /\ poolResults' \in Seq(Jobs \X JobOutcomes)
      /\ JobsIn(poolResults') = JobsIn(poolResults) \cup {k}
      /\ Len(poolResults') = Len(poolResults) + 1
      /\ DOMAIN poolResults' = DOMAIN poolResults \cup {Len(poolResults) + 1}
      /\ \A i \in DOMAIN poolResults : poolResults'[i] = poolResults[i]
      /\ poolResults'[Len(poolResults) + 1] = <<k, o>>
  BY <1>1, <1>2, <1>3, <1>4, <1>5, OneMoreResult
<1>7. /\ \A m \in Jobs : (Handed(m) <=> m = k) /\ ~Handed(m)'
      /\ \A v \in PoolWorkers : \A m \in Jobs : HasJob(v, m)' <=> HasJob(v, m)
  BY <1>1, <1>4 DEF Handed, HasJob
<1>8. JobsIn(poolResults)' = JobsIn(poolResults) \cup {k}
  BY <1>6 DEF JobsIn
<1>9. PoolContextEnded => PoolContextEnded'
  BY <1>1 DEF PoolContextEnded
<1>10. PoolTypeOK'
  BY <1>1, <1>4, <1>6 DEF PoolTypeOK
<1>11. JobsAreApart'
  <2>1. k \notin JobsIn(poolResults) /\ k < nextJob
    BY <1>7 DEF JobsAreApart
  <2>2. Cardinality(JobsIn(poolResults) \cup {k}) = Cardinality(JobsIn(poolResults)) + 1
    BY <2>1, PoolFacts, FS_AddElement
  <2>3. Len(poolResults') = Cardinality(JobsIn(poolResults)')
    BY <2>2, <1>6, <1>8 DEF JobsAreApart
  <2>4. \A w \in PoolWorkers : \A m \in Jobs : HasJob(w, m) => m # k
    BY <1>7 DEF JobsAreApart
  <2> QED  BY <2>1, <2>3, <2>4, <1>1, <1>7, <1>8, PoolFacts DEF JobsAreApart
<1>12. NoneIsLost'
  <2> SUFFICES ASSUME ~PoolContextEnded, ~PoolContextEnded' PROVE NoneIsLost'
    BY <1>9 DEF NoneIsLost
  <2>1. \A i \in DOMAIN poolResults' : poolResults'[i][2] # "cancelled"
    BY <1>1, <1>4, <1>6 DEF NoneIsLost
  <2>2. \A m \in Jobs : m < nextJob' =>
              (\E v \in PoolWorkers : HasJob(v, m)') \/ Handed(m)' \/ m \in JobsIn(poolResults)'
    BY <1>1, <1>7, <1>8 DEF NoneIsLost
  <2> QED  BY <2>1, <2>2, <1>1 DEF NoneIsLost
<1>13. GoneAreIdle'
  BY <1>1 DEF GoneAreIdle
<1>14. ErrorIsFirst'
  <2>0. Len(poolResults) \in Nat /\ DOMAIN poolResults = 1..Len(poolResults) /\ k # None
    BY <1>5, PoolFacts
  <2>1. CASE failFast /\ poolError = None /\ o = "failed"
    <3>1. poolError' = k
      BY <2>1, <1>1, <1>4
    <3>2. \A j \in 1..((Len(poolResults) + 1) - 1) : poolResults'[j][2] # "failed"
      BY <2>0, <2>1, <1>6 DEF ErrorIsFirst
    <3> QED  BY <3>1, <3>2, <2>0, <2>1, <1>1, <1>6 DEF ErrorIsFirst
  <2>2. CASE ~(failFast /\ poolError = None /\ o = "failed")
    <3>1. poolError' = poolError /\ failFast' = failFast
      BY <2>2, <1>1, <1>4
    <3>2. CASE poolError # None
      <4>1. PICK i \in DOMAIN poolResults : /\ poolResults[i] = <<poolError, "failed">>
                                            /\ \A j \in 1..(i - 1) : poolResults[j][2] # "failed"
        BY <3>2 DEF ErrorIsFirst
      <4>2. \A j \in 1..(i - 1) : poolResults'[j][2] # "failed"
        <5>1. 1..(i - 1) \subseteq DOMAIN poolResults
          BY <2>0
        <5>2. \A j \in 1..(i - 1) : poolResults'[j] = poolResults[j]
          BY <5>1, <1>6
        <5> QED  BY <5>2, <4>1
      <4>3. i \in DOMAIN poolResults' /\ poolResults'[i] = <<poolError', "failed">>
        BY <4>1, <3>1, <1>6
      <4> QED  BY <4>2, <4>3, <3>1, <3>2 DEF ErrorIsFirst
    <3>3. CASE poolError = None
      BY <3>1, <3>3, <2>2, <1>4, <1>6 DEF ErrorIsFirst
    <3> QED  BY <3>2, <3>3
  <2> QED  BY <2>1, <2>2
<1> QED  BY <1>10, <1>11, <1>12, <1>13, <1>14

(* The feeder and a worker end; the caller's context does. *)
LEMMA EndingsKeep ==
    ASSUME PoolInv, StopFeeding \/ CutPool \/ (\E w \in PoolWorkers : WorkerEnds(w)) \/ UNCHANGED poolVars
    PROVE  PoolInv'
<1> USE DEF PoolInv
<1>1. /\ UNCHANGED <<failFast, nextJob, worker, received, poolResults, poolError>>
      /\ poolCut' = poolCut \/ (poolCut \in BOOLEAN /\ poolCut' = TRUE)
  BY DEF StopFeeding, CutPool, WorkerEnds, poolVars, PoolTypeOK
<1>2. \/ goneWorkers' = goneWorkers
      \/ jobsClosed /\ \E w \in PoolWorkers : worker[w] = <<>> /\ goneWorkers' = goneWorkers \cup {w}
  BY DEF StopFeeding, CutPool, WorkerEnds, poolVars, Ready
<1>3. jobsClosed' = jobsClosed \/ (jobsClosed' = TRUE /\ (nextJob > PoolJobs \/ PoolContextEnded))
  BY DEF StopFeeding, CutPool, WorkerEnds, poolVars, MayStopFeeding
<1>4. PoolContextEnded => PoolContextEnded'
  BY <1>1 DEF PoolContextEnded
<1>5. PoolTypeOK'
  BY <1>1, <1>2, <1>3 DEF PoolTypeOK
<1>6. /\ \A m : Handed(m)' = Handed(m) /\ \A v : HasJob(v, m)' = HasJob(v, m)
      /\ JobsIn(poolResults)' = JobsIn(poolResults)
  BY <1>1 DEF Handed, JobsIn, HasJob
<1>7. JobsAreApart'
  BY <1>1, <1>6 DEF JobsAreApart
<1>8. NoneIsLost'
  <2> SUFFICES ASSUME ~PoolContextEnded, ~PoolContextEnded' PROVE NoneIsLost'
    BY <1>4 DEF NoneIsLost
  <2>1. jobsClosed' \/ goneWorkers' # {} => nextJob' = PoolJobs + 1
    BY <1>1, <1>2, <1>3, PoolAssumption DEF NoneIsLost, PoolTypeOK
  <2> QED  BY <2>1, <1>1, <1>6 DEF NoneIsLost
<1>9. GoneAreIdle' /\ ErrorIsFirst'
  BY <1>1, <1>2 DEF GoneAreIdle, ErrorIsFirst
<1> QED  BY <1>5, <1>7, <1>8, <1>9

(* The inductive invariant holds in every state. *)
THEOREM PoolInvariant == PoolSpec => []PoolInv
<1>1. PoolInv /\ [PoolNext]_poolVars => PoolInv'
  BY FeedKeeps, RunJobKeeps, SendResultKeeps, DropResultKeeps, CollectKeeps, EndingsKeep DEF PoolNext, PoolStep
<1> QED  BY <1>1, PoolStarts, PTL DEF PoolSpec

(* What the caller relies on follows from it. *)
LEMMA PoolSuffices == PoolInv => EveryJobAccounted /\ FirstFailureIsReturned
<1> SUFFICES ASSUME PoolInv PROVE EveryJobAccounted /\ FirstFailureIsReturned
  OBVIOUS
<1> USE DEF PoolInv
<1>1. ASSUME PoolReturned, ~PoolContextEnded PROVE JobsIn(poolResults) = 1..PoolJobs
  <2>1. goneWorkers = PoolWorkers /\ received = None /\ nextJob = PoolJobs + 1
    BY <1>1, PoolAssumption DEF PoolReturned, NoneIsLost
  <2>2. \A m \in Jobs : m < nextJob /\ ~Handed(m) /\ \A w \in PoolWorkers : ~HasJob(w, m)
    BY <2>1, PoolAssumption DEF GoneAreIdle, HasJob, Handed, Jobs
  <2>3. Jobs \subseteq JobsIn(poolResults)
    BY <2>2, <1>1 DEF NoneIsLost
  <2> QED  BY <2>3, PoolFacts DEF Jobs
<1>2. EveryJobAccounted
  BY <1>1 DEF EveryJobAccounted, JobsAreApart
<1>3. ASSUME failFast, PoolReturned, poolError = None, ~poolCut, NEW m \in 1..PoolJobs
      PROVE  \E i \in DOMAIN poolResults : poolResults[i] = <<m, "done">>
  <2>1. ~PoolContextEnded
    BY <1>3 DEF PoolContextEnded
  <2>2. PICK i \in DOMAIN poolResults : m = poolResults[i][1]
    BY <2>1, <1>1, <1>3 DEF JobsIn
  <2>3. poolResults[i] \in Jobs \X JobOutcomes /\ poolResults[i][2] # "failed" /\ poolResults[i][2] # "cancelled"
    BY <1>3, <2>1 DEF ErrorIsFirst, NoneIsLost, PoolTypeOK
  <2>4. poolResults[i] = <<poolResults[i][1], poolResults[i][2]>> /\ poolResults[i][2] = "done"
    BY <2>3 DEF JobOutcomes
  <2> QED  BY <2>2, <2>4
<1>4. FirstFailureIsReturned
  BY <1>3 DEF FirstFailureIsReturned, ErrorIsFirst
<1> QED  BY <1>2, <1>4

-----------------------------------------------------------------------------
(* A pool that is closed under its callers. *)

(* The inductive invariant, by parts. *)
CloseTypeOK ==
    /\ usage \in {"streaming", "collect"}
    /\ submit \in [SubmitJobs -> {"no", "checked", "taken", "refused"}]
    /\ runner \in [CloseWorkers -> {0} \cup SubmitJobs] /\ ended \subseteq CloseWorkers
    /\ resultsCh \in Seq(SubmitJobs) /\ drained \subseteq SubmitJobs
    /\ poolClosed \in BOOLEAN /\ resultsClosed \in BOOLEAN /\ submitCut \in BOOLEAN

(* A job that was taken is with a worker, in the buffer or read, and no    *)
(* other is.                                                               *)
TakenIsSomewhere ==
    /\ \A j \in SubmitJobs : submit[j] = "taken" =>
          j \in drained \cup InBuffer \/ \E w \in CloseWorkers : runner[w] = j
    /\ \A j \in drained \cup InBuffer : submit[j] = "taken"
    /\ \A w \in CloseWorkers : runner[w] # 0 => submit[runner[w]] = "taken"

(* Workers end idle, and results is closed after all of them. *)
EndedAreIdle ==
    /\ \A w \in ended : runner[w] = 0
    /\ resultsClosed => ended = CloseWorkers

CloseInv == CloseTypeOK /\ TakenIsSomewhere /\ EndedAreIdle

(* What is in a buffer with one more and with one less. *)
LEMMA BufferFacts ==
    ASSUME CloseTypeOK
    PROVE  /\ InBuffer \subseteq SubmitJobs
           /\ \A j \in SubmitJobs : resultsCh' = Append(resultsCh, j) => InBuffer' = InBuffer \cup {j}
           /\ resultsCh # <<>> /\ resultsCh' = Tail(resultsCh) =>
                 Head(resultsCh) \in InBuffer /\ InBuffer' \subseteq InBuffer /\ InBuffer \subseteq InBuffer' \cup {Head(resultsCh)}
<1> DEFINE s == resultsCh
           n == Len(resultsCh)
<1>0. s \in Seq(SubmitJobs) /\ n \in Nat /\ DOMAIN s = 1..n
  BY DEF CloseTypeOK
<1>1. InBuffer \subseteq SubmitJobs
  BY <1>0 DEF InBuffer
<1>2. ASSUME NEW j \in SubmitJobs, resultsCh' = Append(s, j) PROVE InBuffer' = InBuffer \cup {j}
  <2> DEFINE e == Append(s, j)
  <2>1. DOMAIN e = 1..(n + 1) /\ e[n + 1] = j /\ \A i \in 1..n : e[i] = s[i]
    BY <1>0
  <2>2. \A i \in DOMAIN e : e[i] \in {s[k] : k \in DOMAIN s} \cup {j}
    BY <2>1, <1>0
  <2>3. j \in {e[k] : k \in DOMAIN e} /\ \A i \in DOMAIN s : s[i] \in {e[k] : k \in DOMAIN e}
    BY <2>1, <1>0
  <2>4. {e[k] : k \in DOMAIN e} = {s[k] : k \in DOMAIN s} \cup {j}
    BY <2>2, <2>3, Zenon
  <2> QED  BY <2>4, <1>2 DEF InBuffer
<1>3. ASSUME s # <<>>, resultsCh' = Tail(s)
      PROVE  Head(s) \in InBuffer /\ InBuffer' \subseteq InBuffer /\ InBuffer \subseteq InBuffer' \cup {Head(s)}
  <2> DEFINE e == Tail(s)
  <2>1. n # 0 /\ DOMAIN e = 1..(n - 1) /\ Head(s) = s[1] /\ \A i \in 1..(n - 1) : e[i] = s[i + 1]
    BY <1>0, <1>3
  <2>2. \A i \in DOMAIN e : e[i] \in {s[k] : k \in DOMAIN s}
    BY <2>1, <1>0
  <2>3. ASSUME NEW i \in DOMAIN s PROVE s[i] \in {e[k] : k \in DOMAIN e} \cup {Head(s)}
    <3>1. CASE i = 1
      BY <3>1, <2>1
    <3>2. CASE i # 1
      <4>1. i - 1 \in 1..(n - 1) /\ e[i - 1] = s[i]
        BY <3>2, <2>1, <2>3, <1>0
      <4> QED  BY <4>1, <2>1
    <3> QED  BY <3>1, <3>2
  <2>4. Head(s) \in InBuffer
    BY <2>1, <1>0 DEF InBuffer
  <2>5. InBuffer' = {e[k] : k \in DOMAIN e}
    BY <1>3 DEF InBuffer
  <2>6. {e[k] : k \in DOMAIN e} \subseteq {s[k] : k \in DOMAIN s}
    BY <2>2, Zenon
  <2>7. {s[k] : k \in DOMAIN s} \subseteq {e[k] : k \in DOMAIN e} \cup {Head(s)}
    BY <2>3, Zenon
  <2> QED  BY <2>4, <2>5, <2>6, <2>7 DEF InBuffer
<1> QED  BY <1>1, <1>2, <1>3

(* No job has been submitted. *)
LEMMA CloseStarts == CloseInit => CloseInv
<1> SUFFICES ASSUME CloseInit PROVE CloseInv
  OBVIOUS
<1>1. InBuffer = {}
  BY DEF CloseInit, InBuffer
<1>2. resultsCh \in Seq(SubmitJobs)
  BY DEF CloseInit
<1>3. CloseTypeOK
  BY <1>2 DEF CloseInit, CloseTypeOK
<1>4. TakenIsSomewhere /\ EndedAreIdle
  BY <1>1 DEF CloseInit, TakenIsSomewhere, EndedAreIdle
<1> QED  BY <1>3, <1>4 DEF CloseInv

(* Submit. *)
LEMMA SubmitKeeps ==
    ASSUME CloseInv, NEW j \in SubmitJobs, CheckOpen(j) \/ Refuse(j) \/ \E w \in CloseWorkers : TakeJob(j, w)
    PROVE  CloseInv'
<1> USE DEF CloseInv
<1>1. submit[j] \in {"no", "checked"} /\ UNCHANGED <<usage, ended, resultsCh, poolClosed, resultsClosed, drained, submitCut>>
  BY DEF CheckOpen, Refuse, TakeJob
<1>2. InBuffer' = InBuffer
  BY <1>1 DEF InBuffer
<1>3. ASSUME CheckOpen(j) \/ Refuse(j) PROVE CloseInv'
  <2>1. /\ runner' = runner
        /\ \E x \in {"checked", "refused"} : submit' = [submit EXCEPT ![j] = x]
    BY <1>3 DEF CheckOpen, Refuse
  <2>2. CloseTypeOK'
    BY <2>1, <1>1 DEF CloseTypeOK
  <2>3. \A i \in SubmitJobs : submit'[i] = "taken" <=> submit[i] = "taken"
    BY <2>1, <1>1 DEF CloseTypeOK
  <2>4. \A w \in CloseWorkers : runner[w] # 0 => runner[w] \in SubmitJobs
    BY DEF CloseTypeOK
  <2>5. drained \cup InBuffer \subseteq SubmitJobs
    BY BufferFacts DEF CloseTypeOK
  <2> QED  BY <2>1, <2>2, <2>3, <2>4, <2>5, <1>1, <1>2 DEF TakenIsSomewhere, EndedAreIdle
<1>4. ASSUME NEW w \in CloseWorkers, TakeJob(j, w) PROVE CloseInv'
  <2>1. /\ submit' = [submit EXCEPT ![j] = "taken"] /\ runner' = [runner EXCEPT ![w] = j]
        /\ runner[w] = 0 /\ w \notin ended
    BY <1>4 DEF TakeJob
  <2>2. CloseTypeOK'
    BY <2>1, <1>1 DEF CloseTypeOK
  <2>3. /\ submit'[j] = "taken" /\ \A i \in SubmitJobs : i # j => submit'[i] = submit[i]
        /\ runner'[w] = j /\ \A v \in CloseWorkers : v # w => runner'[v] = runner[v]
    BY <2>1 DEF CloseTypeOK
  <2>4. \A v \in CloseWorkers : runner[v] # 0 => runner[v] \in SubmitJobs
    BY DEF CloseTypeOK
  <2>5. drained \cup InBuffer \subseteq SubmitJobs /\ 0 \notin SubmitJobs
    BY BufferFacts, PoolAssumption DEF CloseTypeOK
  <2>6. TakenIsSomewhere'
    BY <2>1, <2>3, <2>4, <2>5, <1>1, <1>2 DEF TakenIsSomewhere
  <2>7. EndedAreIdle'
    BY <2>1, <2>3, <1>1 DEF EndedAreIdle, CloseTypeOK
  <2> QED  BY <2>2, <2>6, <2>7
<1> QED  BY <1>3, <1>4

(* A worker sends its result, or ends. *)
LEMMA RunnerKeeps == ASSUME CloseInv, NEW w \in CloseWorkers, SendRunResult(w) \/ RunnerEnds(w) PROVE CloseInv'
<1> USE DEF CloseInv
<1>1. UNCHANGED <<usage, submit, poolClosed, resultsClosed, drained, submitCut>>
  BY DEF SendRunResult, RunnerEnds
<1>2. ASSUME SendRunResult(w) PROVE CloseInv'
  <2>1. /\ runner[w] # 0 /\ runner' = [runner EXCEPT ![w] = 0] /\ ended' = ended
        /\ resultsCh' = Append(resultsCh, runner[w])
    BY <1>2 DEF SendRunResult
  <2>2. PICK j \in SubmitJobs : j = runner[w]
    BY <2>1 DEF CloseTypeOK
  <2>3. InBuffer' = InBuffer \cup {j}
    BY <2>1, <2>2, BufferFacts
  <2>4. runner'[w] = 0 /\ \A v \in CloseWorkers : v # w => runner'[v] = runner[v]
    BY <2>1 DEF CloseTypeOK
  <2>5. CloseTypeOK'
    BY <2>1, <2>2, <1>1 DEF CloseTypeOK
  <2> QED  BY <2>1, <2>2, <2>3, <2>4, <2>5, <1>1 DEF TakenIsSomewhere, EndedAreIdle, CloseTypeOK
<1>3. ASSUME RunnerEnds(w) PROVE CloseInv'
  <2>1. runner[w] = 0 /\ ended' = ended \cup {w} /\ UNCHANGED <<runner, resultsCh>>
    BY <1>3 DEF RunnerEnds
  <2>2. InBuffer' = InBuffer
    BY <2>1 DEF InBuffer
  <2> QED  BY <2>1, <2>2, <1>1 DEF TakenIsSomewhere, EndedAreIdle, CloseTypeOK
<1> QED  BY <1>2, <1>3

(* The caller reads a result; Close; the context of Submit ends. *)
LEMMA CallerKeeps ==
    ASSUME CloseInv, Drain \/ ClosePool \/ CloseResults \/ CutSubmit \/ UNCHANGED closeVars
    PROVE  CloseInv'
<1> USE DEF CloseInv
<1>1. UNCHANGED <<usage, submit, runner, ended>>
  BY DEF Drain, ClosePool, CloseResults, CutSubmit, closeVars
<1>2. ASSUME Drain PROVE CloseInv'
  <2>1. /\ resultsCh # <<>> /\ drained' = drained \cup {Head(resultsCh)} /\ resultsCh' = Tail(resultsCh)
        /\ UNCHANGED <<poolClosed, resultsClosed, submitCut>>
    BY <1>2 DEF Drain
  <2>2. /\ Head(resultsCh) \in InBuffer /\ InBuffer' \subseteq InBuffer
        /\ InBuffer \subseteq InBuffer' \cup {Head(resultsCh)} /\ InBuffer \subseteq SubmitJobs
    BY <2>1, BufferFacts
  <2>3. resultsCh' \in Seq(SubmitJobs)
    BY <2>1 DEF CloseTypeOK
  <2>4. CloseTypeOK'
    BY <2>1, <2>2, <2>3, <1>1 DEF CloseTypeOK
  <2>5. drained \cup InBuffer = drained' \cup InBuffer'
    BY <2>1, <2>2
  <2> QED  BY <2>1, <2>4, <2>5, <1>1 DEF TakenIsSomewhere, EndedAreIdle
<1>3. ASSUME ClosePool \/ CloseResults \/ CutSubmit \/ UNCHANGED closeVars PROVE CloseInv'
  <2>1. UNCHANGED <<resultsCh, drained>>
    BY <1>3 DEF ClosePool, CloseResults, CutSubmit, closeVars
  <2>2. InBuffer' = InBuffer
    BY <2>1 DEF InBuffer
  <2>3. resultsClosed' = resultsClosed \/ (resultsClosed' = TRUE /\ ended = CloseWorkers)
    BY <1>3 DEF ClosePool, CloseResults, CutSubmit, closeVars, WaitIsOver
  <2>4. /\ poolClosed' = poolClosed \/ poolClosed' = TRUE
        /\ submitCut' = submitCut \/ submitCut' = TRUE
    BY <1>3 DEF ClosePool, CloseResults, CutSubmit, closeVars
  <2>5. CloseTypeOK'
    BY <2>1, <2>3, <2>4, <1>1 DEF CloseTypeOK
  <2> QED  BY <2>1, <2>2, <2>3, <2>5, <1>1 DEF TakenIsSomewhere, EndedAreIdle
<1> QED  BY <1>2, <1>3

(* The inductive invariant holds in every state. *)
THEOREM CloseInvariant == CloseSpec => []CloseInv
<1>1. CloseInv /\ [CloseNext]_closeVars => CloseInv'
  BY SubmitKeeps, RunnerKeeps, CallerKeeps DEF CloseNext, CloseStep
<1> QED  BY <1>1, CloseStarts, PTL DEF CloseSpec

(* What the callers rely on follows from it. *)
LEMMA CloseSuffices == CloseInv => TakenIsRun
<1>1. ASSUME CloseInv, resultsClosed, NEW w \in CloseWorkers PROVE runner[w] = 0
  BY <1>1 DEF CloseInv, EndedAreIdle
<1>2. 0 \notin SubmitJobs
  BY PoolAssumption
<1> QED  BY <1>1, <1>2 DEF CloseInv, TakenIsSomewhere, TakenIsRun

-----------------------------------------------------------------------------
(* A fan-out. *)

(* The inductive invariant, by parts. *)
FanTypeOK ==
    /\ policyOf \in {"All", "FirstError"} /\ limit \in FanLimits
    /\ at \in 1..(NumSources + 1)
    /\ fetcher \in [FanSources -> {"none", "started", "fetching", "over"}]
    /\ results \in [FanSources -> {None} \cup SourceAnswers]
    /\ firstError \in {None, "error", "context"}
    /\ fanCancelled \in BOOLEAN /\ fanReturned \in BOOLEAN

(* A slot for every goroutine, and never more than the limit. *)
SlotsAreHeld ==
    /\ slots = {i \in FanSources : fetcher[i] \in {"started", "fetching"}}
    /\ limit > 0 => Cardinality(slots) <= limit

(* The sources that the loop has passed have a goroutine or a result. *)
PassedHaveResult ==
    /\ \A i \in FanSources : i >= at => fetcher[i] = "none"
    /\ \A i \in FanSources : i < at /\ fetcher[i] = "none" => policyOf = "All" /\ results[i] = "context"
    /\ \A i \in FanSources : fetcher[i] = "over" => results[i] # None
    /\ fanReturned => at > NumSources /\ \A i \in FanSources : fetcher[i] \in {"none", "over"}

(* The first error is kept, and is the context's only after it ended. *)
FirstIsKept ==
    /\ firstError = "context" => fanCancelled
    /\ policyOf = "FirstError" /\ firstError = None =>
          \A i \in FanSources : fetcher[i] = "over" => results[i] = "value"

FanInv == FanTypeOK /\ SlotsAreHeld /\ PassedHaveResult /\ FirstIsKept

(* Sources are finitely many numbers. *)
LEMMA FanFacts ==
    /\ FanSources \subseteq Nat /\ NumSources \in Nat /\ None \notin SourceAnswers
    /\ \A S \in SUBSET FanSources : IsFiniteSet(S) /\ Cardinality(S) \in Nat
    /\ \A i \in Nat : i \in FanSources <=> 1 <= i /\ i <= NumSources
<1>1. IsFiniteSet(FanSources)
  BY FS_Interval, PoolAssumption DEF FanSources
<1>2. \A S \in SUBSET FanSources : IsFiniteSet(S) /\ Cardinality(S) \in Nat
  BY <1>1, FS_Subset, FS_CardinalityType
<1> QED  BY <1>2, PoolAssumption DEF FanSources

(* No goroutine is there. *)
LEMMA FanStarts == FanInit => FanInv
<1> SUFFICES ASSUME FanInit PROVE FanInv
  OBVIOUS
<1>1. FanTypeOK
  <2>1. at \in 1..(NumSources + 1)
    BY PoolAssumption DEF FanInit
  <2>2. fetcher \in [FanSources -> {"none", "started", "fetching", "over"}]
    BY DEF FanInit
  <2>3. results \in [FanSources -> {None} \cup SourceAnswers]
    BY DEF FanInit
  <2> QED  BY <2>1, <2>2, <2>3 DEF FanInit, FanTypeOK
<1>2. SlotsAreHeld
  BY FS_EmptySet, PoolAssumption DEF FanInit, SlotsAreHeld
<1>3. PassedHaveResult
  BY PoolAssumption DEF FanInit, PassedHaveResult, FanSources
<1>4. FirstIsKept
  BY PoolAssumption DEF FanInit, FirstIsKept, SourceAnswers
<1> QED  BY <1>1, <1>2, <1>3, <1>4 DEF FanInv

(* The loop over the sources. *)
LEMMA LoopKeepsFan == ASSUME FanInv, StartFetcher \/ SkipSource PROVE FanInv'
<1> USE DEF FanInv
<1>1. /\ at \in FanSources /\ at' = at + 1
      /\ UNCHANGED <<policyOf, limit, firstError, fanCancelled, fanReturned>>
  BY DEF StartFetcher, SkipSource
<1>2. PICK k \in FanSources : k = at
  BY <1>1
<1>3. fetcher[k] = "none" /\ k \notin slots /\ ~fanReturned /\ at' \in 1..(NumSources + 1)
      /\ \A i \in FanSources : (i >= at' <=> i >= at /\ i # k) /\ (i < at' <=> i < at \/ i = k)
  BY <1>1, <1>2, FanFacts DEF PassedHaveResult, SlotsAreHeld, FanTypeOK
<1>4. ASSUME StartFetcher PROVE FanInv'
  <2>1. /\ SlotFree /\ fetcher' = [fetcher EXCEPT ![k] = "started"] /\ slots' = slots \cup {k}
        /\ results' = results
    BY <1>2, <1>4 DEF StartFetcher
  <2>2. FanTypeOK'
    BY <1>1, <1>3, <2>1 DEF FanTypeOK
  <2>3. slots' = {i \in FanSources : fetcher'[i] \in {"started", "fetching"}}
    BY <2>1 DEF SlotsAreHeld, FanTypeOK
  <2>4. slots \subseteq FanSources /\ limit \in Nat
    BY PoolAssumption DEF SlotsAreHeld, FanTypeOK
  <2>5. Cardinality(slots \cup {k}) = Cardinality(slots) + 1
    BY <1>3, <2>4, FanFacts, FS_AddElement
  <2>6. limit > 0 => Cardinality(slots') <= limit
    BY <2>1, <2>4, <2>5, FanFacts DEF SlotFree
  <2>7. SlotsAreHeld'
    BY <2>3, <2>6, <1>1 DEF SlotsAreHeld
  <2>8. PassedHaveResult'
    BY <1>1, <1>3, <2>1, FanFacts DEF PassedHaveResult, FanTypeOK
  <2>9. FirstIsKept'
    BY <1>1, <2>1 DEF FirstIsKept, FanTypeOK
  <2> QED  BY <2>2, <2>7, <2>8, <2>9
<1>5. ASSUME SkipSource PROVE FanInv'
  <2>1. /\ policyOf = "All" /\ results' = [results EXCEPT ![k] = "context"] /\ UNCHANGED <<fetcher, slots>>
    BY <1>2, <1>5 DEF SkipSource
  <2>2. FanTypeOK'
    BY <1>1, <1>3, <2>1 DEF FanTypeOK, SourceAnswers
  <2>3. SlotsAreHeld'
    BY <1>1, <2>1 DEF SlotsAreHeld
  <2>4. PassedHaveResult'
    BY <1>1, <1>3, <2>1, FanFacts DEF PassedHaveResult, FanTypeOK
  <2>5. FirstIsKept'
    BY <1>1, <2>1 DEF FirstIsKept
  <2> QED  BY <2>2, <2>3, <2>4, <2>5
<1> QED  BY <1>4, <1>5

(* The goroutine of a source. *)
LEMMA FetcherKeeps == ASSUME FanInv, NEW k \in FanSources, Check(k) \/ FetchReturns(k) PROVE FanInv'
<1> USE DEF FanInv
<1>1. UNCHANGED <<policyOf, limit, at, fanCancelled, fanReturned>> /\ fetcher[k] \in {"started", "fetching"}
  BY DEF Check, FetchReturns, FetcherEnds
<1>2. k < at /\ ~fanReturned /\ k \in slots
  BY <1>1, FanFacts DEF PassedHaveResult, FanTypeOK, SlotsAreHeld
<1>3. CASE fetcher' = [fetcher EXCEPT ![k] = "fetching"] /\ UNCHANGED <<slots, results, firstError>>
  <2>1. FanTypeOK' /\ PassedHaveResult' /\ FirstIsKept'
    BY <1>1, <1>2, <1>3 DEF FanTypeOK, PassedHaveResult, FirstIsKept
  <2>2. SlotsAreHeld'
    BY <1>1, <1>3 DEF SlotsAreHeld, FanTypeOK
  <2> QED  BY <2>1, <2>2
<1>4. ASSUME NEW r \in SourceAnswers, r = "context" => ContextEnded, FetcherEnds(k, r) PROVE FanInv'
  <2>1. /\ fetcher' = [fetcher EXCEPT ![k] = "over"] /\ results' = [results EXCEPT ![k] = r]
        /\ slots' = slots \ {k}
        /\ firstError' = IF policyOf = "FirstError" /\ r # "value" /\ firstError = None THEN r ELSE firstError
    BY <1>4 DEF FetcherEnds, ReleaseSlot, Keep
  <2>2. FanTypeOK'
    BY <1>1, <2>1 DEF FanTypeOK, SourceAnswers
  <2>3. slots \subseteq FanSources /\ limit \in Nat
    BY PoolAssumption DEF SlotsAreHeld, FanTypeOK
  <2>4. Cardinality(slots') <= Cardinality(slots)
    BY <2>1, <2>3, FanFacts, FS_Subset
  <2>5. SlotsAreHeld'
    BY <2>1, <2>3, <2>4, <1>1, FanFacts DEF SlotsAreHeld, FanTypeOK
  <2>6. PassedHaveResult'
    BY <2>1, <1>1, <1>2, <1>4, FanFacts DEF PassedHaveResult, FanTypeOK
  <2>7. FirstIsKept'
    <3>1. firstError' = "context" => fanCancelled'
      BY <2>1, <1>1, <1>4 DEF FirstIsKept, ContextEnded
    <3>2. policyOf = "FirstError" /\ firstError' = None => r = "value" /\ firstError = None
      BY <2>1, FanFacts, <1>4
    <3> QED  BY <3>1, <3>2, <2>1, <1>1 DEF FirstIsKept, FanTypeOK
  <2> QED  BY <2>2, <2>5, <2>6, <2>7
<1>5. \/ fetcher' = [fetcher EXCEPT ![k] = "fetching"] /\ UNCHANGED <<slots, results, firstError>>
      \/ \E r \in SourceAnswers : (r = "context" => ContextEnded) /\ FetcherEnds(k, r)
  BY DEF Check, FetchReturns, SourceAnswers
<1> QED  BY <1>3, <1>4, <1>5

(* The call returns; the caller's context ends. *)
LEMMA CallKeepsFan == ASSUME FanInv, ReturnResults \/ CancelFan \/ UNCHANGED fanVars PROVE FanInv'
<1> USE DEF FanInv
<1>1. /\ UNCHANGED <<policyOf, limit, at, fetcher, slots, results, firstError>>
      /\ fanCancelled' = fanCancelled \/ fanCancelled' = TRUE
  BY DEF ReturnResults, CancelFan, fanVars
<1>2. \/ fanReturned' = fanReturned
      \/ fanReturned' = TRUE /\ at > NumSources /\ \A i \in FanSources : fetcher[i] \in {"none", "over"}
  BY DEF ReturnResults, CancelFan, fanVars
<1>3. FanTypeOK' /\ SlotsAreHeld'
  BY <1>1, <1>2 DEF FanTypeOK, SlotsAreHeld
<1>4. PassedHaveResult' /\ FirstIsKept'
  BY <1>1, <1>2 DEF PassedHaveResult, FirstIsKept, FanTypeOK
<1> QED  BY <1>3, <1>4

(* The inductive invariant holds in every state. *)
THEOREM FanInvariant == FanSpec => []FanInv
<1>1. FanInv /\ [FanNext]_fanVars => FanInv'
  BY LoopKeepsFan, FetcherKeeps, CallKeepsFan DEF FanNext, FanStep
<1> QED  BY <1>1, FanStarts, PTL DEF FanSpec

(* What the caller relies on follows from it. *)
LEMMA FanSuffices == FanInv => GoroutinesBounded /\ EverySourceHasResult /\ CauseIsReturned
<1> SUFFICES ASSUME FanInv PROVE GoroutinesBounded /\ EverySourceHasResult /\ CauseIsReturned
  OBVIOUS
<1> USE DEF FanInv
<1>1. GoroutinesBounded
  BY DEF GoroutinesBounded, SlotsAreHeld
<1>2. fanReturned => \A i \in FanSources : i < at /\ fetcher[i] \in {"none", "over"}
  BY FanFacts DEF PassedHaveResult, FanTypeOK
<1>3. "context" # None
  BY FanFacts DEF SourceAnswers
<1>4. EverySourceHasResult
  BY <1>2, <1>3 DEF EverySourceHasResult, PassedHaveResult
<1>5. CauseIsReturned
  BY <1>2 DEF CauseIsReturned, FirstIsKept, PassedHaveResult
<1> QED  BY <1>1, <1>4, <1>5

-----------------------------------------------------------------------------
(* A stream of messages. *)

(* s goes on from the k-th message. *)
GoesOn(s, k) == s \in Seq(Nat) /\ \A i \in 1..Len(s) : s[i] = k + i

One(m) == IF m = 0 THEN 0 ELSE 1

(* The inductive invariant, by parts: what has been echoed, is in the      *)
(* writer's hands, in the channel, in the reader's hands and on its way is *)
(* the messages from the first on, while the reader runs.                  *)
ChatTypeOK ==
    /\ chatMode \in {"Concurrent", "ReadThenWrite"} /\ lockstep \in BOOLEAN
    /\ said \in 0..ChatMessages /\ halfClosed \in BOOLEAN /\ broken \in BOOLEAN
    /\ held \in Nat /\ reading \in BOOLEAN /\ recvErr \in BOOLEAN /\ echo \in Nat
    /\ uplink \in Seq(Nat) /\ inbox \in Seq(Nat) /\ replies \in Seq(Nat)
    /\ join \in {"running", "failed", "ok", "error"}

(* The last message behind the writer, and behind the reader. *)
WrittenTo == Len(replies) + One(echo)
PassedTo  == WrittenTo + Len(inbox)
ReadTo    == PassedTo + One(held)

InTransit ==
    join = "running" =>
        /\ GoesOn(replies, 0)
        /\ echo # 0 => echo = Len(replies) + 1
        /\ GoesOn(inbox, WrittenTo)
        /\ held # 0 => held = PassedTo + 1
        /\ reading => GoesOn(uplink, ReadTo) /\ ReadTo + Len(uplink) = said
        /\ ~reading => recvErr \/ PassedTo = ChatMessages \/ (broken /\ chatMode = "Concurrent")

StreamEnds ==
    /\ halfClosed => said = ChatMessages
    /\ ~reading => held = 0
    /\ recvErr => ~reading
    /\ join \in {"ok", "error"} => ~reading

ChatInv == ChatTypeOK /\ InTransit /\ StreamEnds /\ EchoedInOrder

(* What goes on from a message goes on after one more, or one less. *)
LEMMA GoingOn ==
    ASSUME NEW s, NEW k \in Nat, GoesOn(s, k)
    PROVE  /\ s \in Seq(Nat) /\ Len(s) \in Nat /\ (Len(s) = 0 <=> s = <<>>)
           /\ GoesOn(Append(s, k + Len(s) + 1), k) /\ Len(Append(s, k + Len(s) + 1)) = Len(s) + 1
           /\ s # <<>> => /\ Head(s) = k + 1 /\ GoesOn(Tail(s), k + 1)
                          /\ Tail(s) \in Seq(Nat) /\ Len(Tail(s)) = Len(s) - 1
<1>1. s \in Seq(Nat) /\ Len(s) \in Nat /\ (Len(s) = 0 <=> s = <<>>) /\ \A i \in 1..Len(s) : s[i] = k + i
  BY DEF GoesOn
<1>2. GoesOn(Append(s, k + Len(s) + 1), k) /\ Len(Append(s, k + Len(s) + 1)) = Len(s) + 1
  <2> DEFINE e == Append(s, k + Len(s) + 1)
  <2>1. e \in Seq(Nat) /\ Len(e) = Len(s) + 1
    BY <1>1
  <2>2. ASSUME NEW i \in 1..(Len(s) + 1) PROVE e[i] = k + i
    <3>1. CASE i = Len(s) + 1
      BY <3>1, <1>1
    <3>2. CASE i # Len(s) + 1
      <4>1. i \in 1..Len(s)
        BY <3>2, <1>1
      <4> QED  BY <4>1, <1>1
    <3> QED  BY <3>1, <3>2
  <2> QED  BY <2>1, <2>2 DEF GoesOn
<1>3. ASSUME s # <<>>
      PROVE  /\ Head(s) = k + 1 /\ GoesOn(Tail(s), k + 1)
             /\ Tail(s) \in Seq(Nat) /\ Len(Tail(s)) = Len(s) - 1
  <2>1. /\ Head(s) = s[1] /\ Tail(s) \in Seq(Nat) /\ Len(Tail(s)) = Len(s) - 1
        /\ \A i \in 1..(Len(s) - 1) : Tail(s)[i] = s[i + 1]
    BY <1>1, <1>3
  <2>2. \A i \in 1..(Len(s) - 1) : i + 1 \in 1..Len(s) /\ k + (i + 1) = (k + 1) + i
    BY <1>1
  <2>3. \A i \in 1..Len(Tail(s)) : Tail(s)[i] = (k + 1) + i
    BY <1>1, <2>1, <2>2
  <2>4. Head(s) = k + 1
    BY <1>1, <1>3, <2>1
  <2> QED  BY <2>1, <2>3, <2>4 DEF GoesOn
<1> QED  BY <1>1, <1>2, <1>3

(* Nothing but the messages has been echoed while the call runs. *)
LEMMA RepliesInOrder ==
    ASSUME GoesOn(replies, 0)
    PROVE  /\ DOMAIN replies = 1..Len(replies) /\ \A i \in DOMAIN replies : replies[i] = i
           /\ \A i \in DOMAIN replies : replies[i] # Goodbye
<1> QED  BY DEF GoesOn, Goodbye

(* Nothing has been said. *)
LEMMA ChatStarts == ChatInit => ChatInv
<1> SUFFICES ASSUME ChatInit PROVE ChatInv
  OBVIOUS
<1>1. uplink \in Seq(Nat) /\ inbox \in Seq(Nat) /\ replies \in Seq(Nat)
  BY DEF ChatInit
<1>2. Len(uplink) = 0 /\ Len(inbox) = 0 /\ Len(replies) = 0 /\ DOMAIN replies = {}
  BY DEF ChatInit
<1>3. ChatTypeOK
  <2>1. said \in 0..ChatMessages
    BY ChatAssumption DEF ChatInit
  <2> QED  BY <1>1, <2>1 DEF ChatInit, ChatTypeOK
<1>4. InTransit
  BY <1>1, <1>2 DEF ChatInit, InTransit, GoesOn, WrittenTo, PassedTo, ReadTo, One
<1>5. StreamEnds
  BY DEF ChatInit, StreamEnds
<1>6. EchoedInOrder
  BY <1>2 DEF ChatInit, EchoedInOrder, JoinOver
<1> QED  BY <1>3, <1>4, <1>5, <1>6 DEF ChatInv

(* What the proofs use of the types. *)
LEMMA ChatFacts ==
    ASSUME ChatTypeOK
    PROVE  /\ Len(replies) \in Nat /\ Len(inbox) \in Nat /\ Len(uplink) \in Nat
           /\ WrittenTo \in Nat /\ PassedTo \in Nat /\ ReadTo \in Nat /\ said \in Nat
           /\ One(echo) \in Nat /\ One(held) \in Nat
<1>1. Len(replies) \in Nat /\ Len(inbox) \in Nat /\ Len(uplink) \in Nat /\ said \in Nat
  BY ChatAssumption DEF ChatTypeOK
<1>2. One(echo) \in Nat /\ One(held) \in Nat
  BY DEF One
<1> QED  BY <1>1, <1>2 DEF WrittenTo, PassedTo, ReadTo

(* The client. *)
LEMMA ClientKeeps == ASSUME ChatInv, Say \/ CloseSend \/ BreakStream PROVE ChatInv'
<1> USE DEF ChatInv
<1>1. UNCHANGED <<chatMode, lockstep, inbox, held, reading, recvErr, echo, replies, join>>
  BY DEF Say, CloseSend, BreakStream, readerVars, writerVars
<1>2. WrittenTo' = WrittenTo /\ PassedTo' = PassedTo /\ ReadTo' = ReadTo
  BY <1>1 DEF WrittenTo, PassedTo, ReadTo
<1>3. EchoedInOrder'
  BY <1>1 DEF EchoedInOrder, JoinOver
<1>4. ASSUME Say PROVE ChatInv'
  <2>1. /\ said < ChatMessages /\ said' = said + 1 /\ uplink' = Append(uplink, said + 1)
        /\ UNCHANGED <<halfClosed, broken>>
    BY <1>4 DEF Say
  <2>2. uplink' \in Seq(Nat) /\ said' \in 0..ChatMessages
    BY <2>1, ChatAssumption DEF ChatTypeOK
  <2>3. ChatTypeOK'
    BY <2>1, <2>2, <1>1 DEF ChatTypeOK
  <2>4. ASSUME GoesOn(uplink, ReadTo), ReadTo + Len(uplink) = said
        PROVE  GoesOn(uplink', ReadTo) /\ ReadTo + Len(uplink') = said'
    <3>1. uplink' = Append(uplink, ReadTo + Len(uplink) + 1)
      BY <2>1, <2>4
    <3>2. GoesOn(uplink', ReadTo) /\ Len(uplink') = Len(uplink) + 1
      BY <3>1, <2>4, ChatFacts, GoingOn
    <3> QED  BY <3>2, <2>1, <2>4, ChatFacts
  <2>5. InTransit'
    BY <2>1, <2>4, <1>1, <1>2 DEF InTransit
  <2>6. StreamEnds'
    BY <2>1, <1>1, ChatFacts, ChatAssumption DEF StreamEnds
  <2> QED  BY <2>3, <2>5, <2>6, <1>3
<1>5. ASSUME CloseSend \/ BreakStream PROVE ChatInv'
  <2>1. /\ UNCHANGED <<said, uplink>>
        /\ halfClosed' = halfClosed \/ (halfClosed' = TRUE /\ said = ChatMessages)
        /\ broken' = broken \/ broken' = TRUE
    BY <1>5 DEF CloseSend, BreakStream
  <2>2. ChatTypeOK'
    BY <2>1, <1>1 DEF ChatTypeOK
  <2>4. StreamEnds'
    BY <2>1, <1>1 DEF StreamEnds
  <2>3. InTransit'
    BY <2>1, <1>1, <1>2 DEF InTransit, ChatTypeOK
  <2> QED  BY <2>2, <2>3, <2>4, <1>3
<1> QED  BY <1>4, <1>5

(* The reader. *)
LEMMA ReaderKeeps == ASSUME ChatInv, Recv \/ RecvEnds \/ PassOn \/ LeavePassing PROVE ChatInv'
<1> USE DEF ChatInv
<1>1. UNCHANGED <<chatMode, lockstep, said, halfClosed, broken, echo, replies, join>>
  BY DEF Recv, RecvEnds, PassOn, LeavePassing, clientVars, writerVars
<1>2. WrittenTo' = WrittenTo
  BY <1>1 DEF WrittenTo
<1>3. reading
  BY DEF Recv, RecvEnds, PassOn, LeavePassing, StreamEnds
<1>4. EchoedInOrder' /\ join \in {"running", "failed"}
  BY <1>1, <1>3 DEF EchoedInOrder, StreamEnds, ChatTypeOK, JoinOver
<1>5. join = "running" =>
      /\ GoesOn(replies, 0) /\ (echo # 0 => echo = Len(replies) + 1) /\ GoesOn(inbox, WrittenTo)
      /\ (held # 0 => held = PassedTo + 1) /\ GoesOn(uplink, ReadTo) /\ ReadTo + Len(uplink) = said
  BY <1>3 DEF InTransit
<1>6. ASSUME Recv PROVE ChatInv'
  <2>1. /\ held = 0 /\ uplink # <<>> /\ held' = Head(uplink) /\ uplink' = Tail(uplink)
        /\ UNCHANGED <<reading, recvErr, inbox>>
    BY <1>6 DEF Recv
  <2>2. held' \in Nat /\ uplink' \in Seq(Nat) /\ Len(uplink') = Len(uplink) - 1
    BY <2>1 DEF ChatTypeOK
  <2>3. ChatTypeOK'
    BY <2>1, <2>2, <1>1 DEF ChatTypeOK
  <2>4. ASSUME join = "running" PROVE InTransit'
    <3>0. /\ ReadTo \in Nat /\ PassedTo \in Nat /\ WrittenTo \in Nat /\ Len(inbox) \in Nat
          /\ GoesOn(uplink, ReadTo)
      BY <2>4, <1>5, ChatFacts
    <3>1. held' = ReadTo + 1 /\ GoesOn(uplink', ReadTo + 1)
      BY <3>0, <2>1, GoingOn
    <3>2. ReadTo = PassedTo /\ PassedTo' = PassedTo /\ ReadTo' = ReadTo + 1
      <4>1. PassedTo' = PassedTo
        BY <2>1, <1>2 DEF PassedTo
      <4>2. ReadTo = PassedTo
        BY <2>1, <3>0 DEF ReadTo, One
      <4>3. ReadTo' = PassedTo' + 1
        BY <3>0, <3>1, <4>1 DEF ReadTo, One
      <4> QED  BY <4>1, <4>2, <4>3
    <3>3. ReadTo' + Len(uplink') = said
      BY <2>2, <2>4, <3>2, <1>5, ChatFacts
    <3> QED  BY <2>1, <2>4, <3>1, <3>2, <3>3, <1>1, <1>2, <1>3, <1>5 DEF InTransit
  <2>6. InTransit'
    BY <2>4, <1>1 DEF InTransit
  <2> QED  BY <2>1, <2>3, <2>6, <1>1, <1>3, <1>4 DEF StreamEnds
<1>7. ASSUME RecvEnds PROVE ChatInv'
  <2>1. /\ held = 0 /\ (broken \/ (halfClosed /\ uplink = <<>>)) /\ reading' = FALSE /\ recvErr' = broken
        /\ UNCHANGED <<held, inbox, uplink>>
    BY <1>7 DEF RecvEnds, clientVars
  <2>2. PassedTo' = PassedTo /\ ReadTo' = ReadTo /\ ReadTo = PassedTo
    BY <2>1, <1>1, <1>2, ChatFacts DEF ReadTo, PassedTo, One
  <2>3. join = "running" => recvErr' \/ PassedTo' = ChatMessages
    BY <2>1, <2>2, <1>5, GoingOn, ChatFacts DEF StreamEnds
  <2>4. ChatTypeOK' /\ StreamEnds'
    BY <2>1, <1>1, <1>4 DEF ChatTypeOK, StreamEnds
  <2>5. InTransit'
    BY <2>1, <2>2, <2>3, <1>1, <1>2, <1>5 DEF InTransit
  <2> QED  BY <2>4, <2>5, <1>4
<1>8. ASSUME PassOn PROVE ChatInv'
  <2>1. /\ held # 0 /\ inbox' = Append(inbox, held) /\ held' = 0 /\ UNCHANGED <<reading, recvErr, uplink>>
    BY <1>8 DEF PassOn, clientVars
  <2>2. inbox' \in Seq(Nat) /\ Len(inbox') = Len(inbox) + 1
    BY <2>1 DEF ChatTypeOK
  <2>3. join = "running" => GoesOn(inbox', WrittenTo)
    <3> SUFFICES ASSUME join = "running" PROVE GoesOn(inbox', WrittenTo)
      OBVIOUS
    <3>1. held = WrittenTo + Len(inbox) + 1
      BY <2>1, <1>5 DEF PassedTo
    <3> QED  BY <2>1, <3>1, <1>5, GoingOn, ChatFacts
  <2>4. PassedTo' = PassedTo + 1 /\ ReadTo' = ReadTo
    BY <2>1, <2>2, <1>1, <1>2, ChatFacts DEF ReadTo, PassedTo, One
  <2>5. ChatTypeOK' /\ StreamEnds'
    BY <2>1, <2>2, <1>1, <1>4 DEF ChatTypeOK, StreamEnds
  <2>6. InTransit'
    BY <2>1, <2>3, <2>4, <1>1, <1>2, <1>3, <1>5 DEF InTransit
  <2> QED  BY <2>5, <2>6, <1>4
<1>9. ASSUME LeavePassing PROVE ChatInv'
  <2>1. /\ broken /\ chatMode = "Concurrent" /\ held' = 0 /\ reading' = FALSE
        /\ UNCHANGED <<recvErr, inbox, uplink>>
    BY <1>9 DEF LeavePassing, StopsPassing, clientVars
  <2>2. PassedTo' = PassedTo
    BY <2>1, <1>2 DEF PassedTo
  <2>3. ChatTypeOK' /\ StreamEnds'
    BY <2>1, <1>1, <1>4 DEF ChatTypeOK, StreamEnds
  <2>4. InTransit'
    BY <2>1, <2>2, <1>1, <1>2, <1>5 DEF InTransit
  <2> QED  BY <2>3, <2>4, <1>4
<1> QED  BY <1>6, <1>7, <1>8, <1>9

(* The writer. *)
LEMMA WriterKeeps == ASSUME ChatInv, TakeIncoming \/ SendEcho PROVE ChatInv'
<1> USE DEF ChatInv
<1>1. /\ UNCHANGED <<chatMode, lockstep, said, uplink, halfClosed, broken, held, reading, recvErr>>
      /\ join = "running"
  BY DEF TakeIncoming, SendEcho, clientVars, readerVars
<1>2. /\ GoesOn(replies, 0) /\ (echo # 0 => echo = Len(replies) + 1) /\ GoesOn(inbox, WrittenTo)
      /\ (held # 0 => held = PassedTo + 1)
      /\ (reading => GoesOn(uplink, ReadTo) /\ ReadTo + Len(uplink) = said)
      /\ (~reading => recvErr \/ PassedTo = ChatMessages \/ (broken /\ chatMode = "Concurrent"))
  BY <1>1 DEF InTransit
<1>3. ASSUME TakeIncoming PROVE ChatInv'
  <2>1. /\ echo = 0 /\ inbox # <<>> /\ echo' = Head(inbox) /\ inbox' = Tail(inbox) /\ UNCHANGED <<replies, join>>
    BY <1>3 DEF TakeIncoming
  <2>2. /\ echo' = WrittenTo + 1 /\ GoesOn(inbox', WrittenTo + 1) /\ inbox' \in Seq(Nat)
        /\ Len(inbox') = Len(inbox) - 1
    <3>1. WrittenTo \in Nat /\ GoesOn(inbox, WrittenTo)
      BY <1>2, ChatFacts
    <3>2. /\ Head(inbox) = WrittenTo + 1 /\ GoesOn(Tail(inbox), WrittenTo + 1)
          /\ Tail(inbox) \in Seq(Nat) /\ Len(Tail(inbox)) = Len(inbox) - 1
      BY <3>1, <2>1, GoingOn
    <3> QED  BY <3>2, <2>1
  <2>3. /\ WrittenTo = Len(replies) /\ WrittenTo' = WrittenTo + 1
    BY <2>1, <2>2, ChatFacts DEF WrittenTo, One
  <2>4. PassedTo' = PassedTo /\ ReadTo' = ReadTo
    BY <2>2, <2>3, <1>1, ChatFacts DEF PassedTo, ReadTo
  <2>5. ChatTypeOK' /\ StreamEnds'
    BY <2>1, <2>2, <1>1, ChatFacts DEF ChatTypeOK, StreamEnds
  <2>6. InTransit'
    BY <2>1, <2>2, <2>3, <2>4, <1>1, <1>2 DEF InTransit
  <2>7. EchoedInOrder'
    BY <2>1, <1>1 DEF EchoedInOrder, JoinOver
  <2> QED  BY <2>5, <2>6, <2>7
<1>4. ASSUME SendEcho PROVE ChatInv'
  <2>1. /\ echo # 0 /\ echo' = 0 /\ inbox' = inbox
        /\ \/ broken /\ join' = "failed" /\ replies' = replies
           \/ replies' = Append(replies, echo) /\ join' = join
    BY <1>4 DEF SendEcho
  <2>2. CASE replies' = Append(replies, echo) /\ join' = join
    <3>1. GoesOn(replies', 0) /\ Len(replies') = Len(replies) + 1 /\ replies' \in Seq(Nat)
      <4>1. echo = 0 + Len(replies) + 1
        BY <2>1, <1>2, ChatFacts
      <4> QED  BY <4>1, <2>2, <1>2, GoingOn DEF GoesOn
    <3>2. WrittenTo' = WrittenTo
      BY <3>1, <2>1, ChatFacts DEF WrittenTo, One
    <3>3. PassedTo' = PassedTo /\ ReadTo' = ReadTo
      BY <3>2, <2>1, <1>1 DEF PassedTo, ReadTo
    <3>4. ChatTypeOK' /\ StreamEnds'
      BY <3>1, <2>1, <2>2, <1>1 DEF ChatTypeOK, StreamEnds
    <3>5. InTransit'
      BY <3>1, <3>2, <3>3, <2>1, <2>2, <1>1, <1>2 DEF InTransit
    <3>6. EchoedInOrder'
      BY <3>1, <2>2, <1>1 DEF EchoedInOrder, JoinOver, GoesOn
    <3> QED  BY <3>4, <3>5, <3>6
  <2>3. CASE broken /\ join' = "failed" /\ replies' = replies
    <3>1. ChatTypeOK' /\ StreamEnds'
      BY <2>1, <2>3, <1>1 DEF ChatTypeOK, StreamEnds
    <3>2. InTransit' /\ EchoedInOrder'
      BY <2>3, <1>1 DEF InTransit, EchoedInOrder, JoinOver
    <3> QED  BY <3>1, <3>2
  <2> QED  BY <2>1, <2>2, <2>3
<1> QED  BY <1>3, <1>4

(* The call ends. *)
LEMMA JoinKeeps == ASSUME ChatInv, EndJoin \/ FailJoin \/ UNCHANGED chatVars PROVE ChatInv'
<1> USE DEF ChatInv
<1>1. UNCHANGED <<chatMode, lockstep, said, uplink, halfClosed, broken, held, reading, recvErr, inbox, echo>>
  BY DEF EndJoin, FailJoin, chatVars, clientVars, readerVars
<1>2. ASSUME EndJoin, join' = "ok" PROVE ChatInv'
  <2>1. /\ join = "running" /\ echo = 0 /\ ~recvErr /\ inbox = <<>> /\ ~reading
        /\ ~(broken /\ chatMode = "Concurrent")
        /\ replies' = IF chatMode = "Concurrent" THEN Append(replies, Goodbye) ELSE replies
    BY <1>2 DEF EndJoin, RangeIsOver, ChatTypeOK
  <2>2. GoesOn(replies, 0) /\ PassedTo = ChatMessages
    BY <2>1 DEF InTransit
  <2>3. Len(replies) = ChatMessages
    BY <2>1, <2>2, ChatFacts, ChatAssumption DEF PassedTo, WrittenTo, One
  <2>4. /\ DOMAIN replies = 1..ChatMessages
        /\ \A i \in DOMAIN replies : replies[i] = i /\ replies[i] # Goodbye
    BY <2>2, <2>3, RepliesInOrder
  <2>5. replies \in Seq(Nat)
    BY DEF ChatTypeOK
  <2>6. /\ replies' \in Seq(Nat)
        /\ \A i \in DOMAIN replies' : replies'[i] = i \/ (replies'[i] = Goodbye /\ i = Len(replies'))
        /\ {i \in DOMAIN replies' : replies'[i] # Goodbye} = 1..ChatMessages
    <3>1. CASE chatMode # "Concurrent"
      BY <3>1, <2>1, <2>4, <2>5
    <3>2. CASE chatMode = "Concurrent"
      <4> DEFINE e == Append(replies, Goodbye)
      <4>1. /\ e \in Seq(Nat) /\ Len(e) = ChatMessages + 1 /\ DOMAIN e = 1..(ChatMessages + 1)
            /\ \A i \in 1..ChatMessages : e[i] = replies[i]
            /\ e[ChatMessages + 1] = Goodbye
        BY <2>3, <2>5, ChatAssumption DEF Goodbye
      <4>2. \A i \in DOMAIN e : i \in 1..ChatMessages \/ i = ChatMessages + 1
        BY <4>1, ChatAssumption
      <4>3. \A i \in 1..ChatMessages : i \in DOMAIN e
        BY <4>1, ChatAssumption
      <4> HIDE DEF e
      <4>4. replies' = e
        BY <3>2, <2>1 DEF e
      <4> QED  BY <4>1, <4>2, <4>3, <4>4, <2>4
    <3> QED  BY <3>1, <3>2
  <2>7. ChatTypeOK' /\ InTransit' /\ StreamEnds'
    BY <2>1, <2>6, <1>1, <1>2 DEF ChatTypeOK, InTransit, StreamEnds
  <2>8. EchoedInOrder'
    BY <2>1, <2>6, <1>1, <1>2 DEF EchoedInOrder, JoinOver
  <2> QED  BY <2>7, <2>8
<1>3. ASSUME FailJoin \/ (EndJoin /\ join' = "error") PROVE ChatInv'
  <2>1. ~reading /\ replies' = replies /\ join' = "error"
    BY <1>3 DEF FailJoin, EndJoin, ReaderIsOver, RangeIsOver, StreamEnds
  <2> QED  BY <2>1, <1>1 DEF ChatTypeOK, InTransit, StreamEnds, EchoedInOrder, JoinOver
<1>4. ASSUME UNCHANGED chatVars PROVE ChatInv'
  <2>1. UNCHANGED <<replies, join>>
    BY <1>4 DEF chatVars, writerVars
  <2>2. WrittenTo' = WrittenTo /\ PassedTo' = PassedTo /\ ReadTo' = ReadTo
    BY <2>1, <1>1 DEF WrittenTo, PassedTo, ReadTo
  <2> QED  BY <2>1, <2>2, <1>1 DEF ChatTypeOK, InTransit, StreamEnds, EchoedInOrder, JoinOver
<1>5. EndJoin => join' \in {"ok", "error"}
  BY DEF EndJoin
<1> QED  BY <1>2, <1>3, <1>4, <1>5

(* The inductive invariant holds in every state. *)
THEOREM ChatInvariant == ChatSpec => []ChatInv
<1>1. ChatInv /\ [ChatNext]_chatVars => ChatInv'
  BY ClientKeeps, ReaderKeeps, WriterKeeps, JoinKeeps DEF ChatNext, ChatStep
<1> QED  BY <1>1, ChatStarts, PTL DEF ChatSpec

-----------------------------------------------------------------------------
(* Results. *)

(* Pipelines, fan-outs, pools and streams: whoever waits for a result that *)
(* is complete gets one for all that went in, in order where there is one, *)
(* for any number of values, sources, jobs, workers and messages.          *)
THEOREM ResultsStayComplete ==
    PipeSpec /\ FanSpec /\ PoolSpec /\ CloseSpec /\ ChatSpec => []ResultsAreComplete
<1>1. PipeInv /\ FanInv /\ PoolInv /\ CloseInv /\ ChatInv => ResultsAreComplete
  BY PipeSuffices, FanSuffices, PoolSuffices, CloseSuffices DEF ResultsAreComplete, ChatInv
<1> QED  BY <1>1, PipeInvariant, FanInvariant, PoolInvariant, CloseInvariant, ChatInvariant, PTL
=============================================================================
