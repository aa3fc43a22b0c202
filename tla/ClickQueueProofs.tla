-------------------------- MODULE ClickQueueProofs --------------------------
(***************************************************************************)
(* What recording clicks guarantees for every number of clicks, URLs,      *)
(* retries, crashes and requeues.  The row lock is what the argument turns *)
(* on: a transaction past its UPDATE holds the lock of its URL, and a URL  *)
(* whose row is locked is not deleted.                                     *)
(***************************************************************************)
EXTENDS ClickQueue, FiniteSetTheorems, TLAPS

-----------------------------------------------------------------------------
(* The inductive invariant, by parts. *)

(* A worker that waits for a delivery handles an active task.              *)
HeldActive == \A c \in Clicks : held[c] => tries[c] >= 1 /\ task[c].state = "active"

(* A transaction belongs to a delivery, a delivery to a task that was      *)
(* queued, and a queued task to a URL that was created.                    *)
Started == \A a \in Attempts : attempt[a] # "none" => a[2] <= tries[a[1]]
Queued  == \A c \in Clicks : task[c].state = "none" => tries[c] = 0
Served  == \A c \in Clicks : task[c].state # "none" => url[task[c].url] # "absent"

(* The lock of a URL is held by the transactions between their UPDATE and  *)
(* their end, and a locked row is there.                                   *)
Locking == {"updated", "inserted", "fkError"}

Locked ==
    \A a \in Attempts, u \in Ids :
        a \in lock[u] <=> attempt[a] \in Locking /\ task[a[1]].url = u

LockedLive == \A u \in Ids : lock[u] # {} => url[u] = "live"

(* The rows of the clicks table were written by committed transactions.    *)
Recorded == \A u \in Ids : IsFiniteSet(clicks[u]) /\ \A a \in clicks[u] : attempt[a] = "committed"

(* Of the transactions that wrote a click, only the last one's outcome can *)
(* still be seen, and only until its task is done.                         *)
Seen ==
    \A a \in Attempts :
        attempt[a] \in {"inserted", "committed"} /\ a \notin gaveUp =>
            a[2] = tries[a[1]] /\ (held[a[1]] \/ task[a[1]].state = "done")

IInv ==
    /\ TypeOK /\ HeldActive /\ Started /\ Queued /\ Served
    /\ Locked /\ LockedLive /\ Recorded /\ Seen
    /\ CounterAgrees /\ NoForeignKeyError /\ ClickOnItsURL
    /\ DoneIsRecorded /\ ArchivedWhenHopeless

-----------------------------------------------------------------------------
(* Types. *)

(* A delivery that a worker holds is one of Attempts.                      *)
LEMMA LastType ==
    ASSUME TypeOK, HeldActive, NEW c \in Clicks, held[c]
    PROVE  /\ Last(c) \in Attempts /\ Last(c)[1] = c /\ Last(c)[2] = tries[c]
           /\ Last(c)[2] <= tries[Last(c)[1]]
BY ConstantsAssumption DEF TypeOK, HeldActive, Last, Attempts, MaxTries

(* A failed task is still a task.                                          *)
LEMMA FailedType ==
    ASSUME NEW t \in Task
    PROVE  /\ FailedTask(t) \in Task
           /\ FailedTask(t).url = t.url /\ FailedTask(t).decodes = t.decodes
           /\ FailedTask(t).state \in {"archived", "retry"}
           /\ FailedTask(t).state = "archived" => FailedTask(t).retried = MaxRetry
<1>1. CASE t.retried >= MaxRetry
  <2>1. FailedTask(t) = [t EXCEPT !.state = "archived"]
    BY <1>1 DEF FailedTask
  <2>2. t.retried = MaxRetry
    BY <1>1, ConstantsAssumption DEF Task
  <2> QED BY <2>1, <2>2 DEF Task, TaskStates
<1>2. CASE ~(t.retried >= MaxRetry)
  <2>1. FailedTask(t) = [t EXCEPT !.state = "retry", !.retried = @ + 1]
    BY <1>2 DEF FailedTask
  <2>2. t.retried + 1 \in 0..MaxRetry
    BY <1>2, ConstantsAssumption DEF Task
  <2> QED BY <2>1, <2>2 DEF Task, TaskStates
<1> QED BY <1>1, <1>2

(* Giving up on some deliveries keeps the types.                           *)
LEMMA AbandonType ==
    ASSUME TypeOK, NEW S \in SUBSET Attempts, Abandon(S)
    PROVE  attempt' \in [Attempts -> Steps] /\ lock' \in [Ids -> SUBSET Attempts]
           /\ gaveUp' \subseteq Attempts
BY DEF TypeOK, Abandon, Steps

(* Every step leaves the variables in their types.                         *)
LEMMA TypeStep ==
    ASSUME TypeOK, HeldActive, [Next]_vars
    PROVE  TypeOK' /\ HeldActive'
<1> USE ConstantsAssumption
<1>1. ASSUME NEW u \in Ids, CreateURL(u) \/ DeleteRow(u)
      PROVE  TypeOK' /\ HeldActive'
  BY <1>1 DEF CreateURL, DeleteRow, TypeOK, HeldActive, UrlStates
<1>2. ASSUME NEW c \in Clicks, NEW u \in Ids, NEW decodes \in BOOLEAN, EnqueueClick(c, u, decodes)
      PROVE  TypeOK' /\ HeldActive'
  BY <1>2 DEF EnqueueClick, TypeOK, HeldActive, dbVars, Task, TaskStates
<1>3. ASSUME NEW c \in Clicks, Dispatch(c)
      PROVE  TypeOK' /\ HeldActive'
  <2>1. tries[c] + 1 \in 1..MaxTries
    BY <1>3 DEF Dispatch, TypeOK, MaxTries
  <2>2. task' \in [Clicks -> Task] /\ task'[c].state = "active"
    BY <1>3 DEF Dispatch, TypeOK, Task, TaskStates
  <2>3. \A d \in Clicks \ {c} : task'[d] = task[d] /\ tries'[d] = tries[d] /\ held'[d] = held[d]
    BY <1>3 DEF Dispatch, TypeOK
  <2>4. tries' \in [Clicks -> 0..MaxTries] /\ tries'[c] >= 1 /\ held' \in [Clicks -> BOOLEAN]
    BY <1>3, <2>1 DEF Dispatch, TypeOK
  <2>5. attempt' \in [Attempts -> Steps]
    BY <1>3 DEF Dispatch, TypeOK, Steps
  <2> QED BY <1>3, <2>2, <2>3, <2>4, <2>5 DEF Dispatch, TypeOK, HeldActive, dbVars
<1>4. ASSUME NEW c \in Clicks, Forward(c)
      PROVE  TypeOK' /\ HeldActive'
  BY <1>4 DEF Forward, TypeOK, HeldActive, dbVars, Task, TaskStates
<1>5. ASSUME NEW c \in Clicks, Timeout(c)
      PROVE  TypeOK' /\ HeldActive'
  <2>1. {Last(c)} \in SUBSET Attempts
    BY <1>5, LastType DEF Timeout
  <2>2. FailedTask(task[c]) \in Task
    BY FailedType DEF TypeOK
  <2> QED BY <1>5, <2>1, <2>2, AbandonType DEF Timeout, TypeOK, HeldActive, dbVars
<1>6. ASSUME NEW c \in Clicks, Requeue(c)
      PROVE  TypeOK' /\ HeldActive'
  <2>1. {Last(c)} \in SUBSET Attempts
    BY <1>6, LastType DEF Requeue
  <2>2. task' \in [Clicks -> Task]
    BY <1>6 DEF Requeue, TypeOK, Task, TaskStates
  <2> QED BY <1>6, <2>1, <2>2, AbandonType DEF Requeue, TypeOK, HeldActive, dbVars
<1>7. ASSUME NEW c \in Clicks, Recover(c)
      PROVE  TypeOK' /\ HeldActive'
  <2>1. FailedTask(task[c]) \in Task
    BY FailedType DEF TypeOK
  <2> QED BY <1>7, <2>1 DEF Recover, TypeOK, HeldActive, dbVars
<1>8. CASE Crash
  <2>1. {Last(c) : c \in Active} \in SUBSET Attempts
    BY LastType DEF Active
  <2> QED BY <1>8, <2>1, AbandonType DEF Crash, TypeOK, HeldActive, dbVars
<1>9. ASSUME NEW c \in Clicks, Undecodable(c) \/ NotFound(c)
      PROVE  TypeOK' /\ HeldActive'
  <2>1. [task[c] EXCEPT !.state = "archived"] \in Task
    BY DEF TypeOK, Task, TaskStates
  <2>2. Step(c, "begin", "over") /\ Finish(c, [task[c] EXCEPT !.state = "archived"])
    BY <1>9 DEF Undecodable, NotFound
  <2>3. attempt' \in [Attempts -> Steps]
    BY <2>2 DEF Step, TypeOK, Steps
  <2> QED BY <1>9, <2>1, <2>2, <2>3 DEF Undecodable, NotFound, Finish, TypeOK, HeldActive, dbVars
<1>10. ASSUME NEW c \in Clicks, Update(c)
       PROVE  TypeOK' /\ HeldActive'
  <2>1. Last(c) \in Attempts
    BY <1>10, LastType DEF Update, Step
  <2> QED BY <1>10, <2>1 DEF Update, Step, TypeOK, HeldActive, dbVars, Steps
<1>11. ASSUME NEW c \in Clicks, Insert(c)
       PROVE  TypeOK' /\ HeldActive'
  <2>1. \E to \in {"inserted", "fkError"} : Step(c, "updated", to)
    BY <1>11 DEF Insert
  <2>2. attempt' \in [Attempts -> Steps]
    BY <2>1 DEF Step, TypeOK, Steps
  <2> QED BY <1>11, <2>2 DEF Insert, TypeOK, HeldActive, dbVars
<1>12. ASSUME NEW c \in Clicks, Succeed(c)
       PROVE  TypeOK' /\ HeldActive'
  BY <1>12 DEF Succeed, Finish, TypeOK, HeldActive, dbVars, Task, TaskStates
<1>13. ASSUME NEW c \in Clicks, Fail(c)
       PROVE  TypeOK' /\ HeldActive'
  <2>1. FailedTask(task[c]) \in Task
    BY FailedType DEF TypeOK
  <2> QED BY <1>13, <2>1 DEF Fail, Step, Finish, TypeOK, HeldActive, dbVars, Steps
<1>14. ASSUME NEW a \in Attempts, Commit(a)
       PROVE  TypeOK' /\ HeldActive'
  <2>1. a[1] \in Clicks /\ Target(a[1]) \in Ids
    BY DEF Attempts, Target, TypeOK, Task
  <2>2. attempt' \in [Attempts -> Steps] /\ lock' \in [Ids -> SUBSET Attempts]
    BY <1>14 DEF Commit, TypeOK, Steps
  <2>3. count' \in [Ids -> Nat] /\ clicks' \in [Ids -> SUBSET Attempts]
    BY <1>14, <2>1 DEF Commit, TypeOK
  <2> QED BY <1>14, <2>2, <2>3 DEF Commit, TypeOK, HeldActive
<1>15. ASSUME NEW a \in Attempts, RollBack(a)
       PROVE  TypeOK' /\ HeldActive'
  BY <1>15 DEF RollBack, TypeOK, HeldActive, dbVars, Steps
<1>16. CASE UNCHANGED vars
  BY <1>16 DEF vars, TypeOK, HeldActive
<1> QED BY <1>1, <1>2, <1>3, <1>4, <1>5, <1>6, <1>7, <1>8, <1>9, <1>10, <1>11, <1>12, <1>13,
           <1>14, <1>15, <1>16 DEF Next

-----------------------------------------------------------------------------
(* What a step of the handler or of the queue does to the transactions.    *)

(* Each step of one delivery's handler moves that delivery's transaction,  *)
(* and no other.                                                           *)
LEMMA StepEffect ==
    ASSUME TypeOK, HeldActive, NEW c \in Clicks, NEW from, NEW to, Step(c, from, to)
    PROVE  /\ Last(c) \in Attempts /\ Last(c)[1] = c /\ Last(c)[2] = tries[c]
           /\ attempt[Last(c)] = from /\ attempt'[Last(c)] = to
           /\ \A a \in Attempts \ {Last(c)} : attempt'[a] = attempt[a]
BY LastType DEF Step, TypeOK

(* A delivery given up on rolls back, unless its COMMIT may be on its way. *)
LEMMA AbandonEffect ==
    ASSUME TypeOK, NEW S \in SUBSET Attempts, Abandon(S)
    PROVE  /\ gaveUp' = gaveUp \cup S
           /\ \A a \in Attempts :
                 \/ attempt'[a] = attempt[a] /\ \A u \in Ids : a \in lock'[u] <=> a \in lock[u]
                 \/ /\ a \in S /\ attempt[a] \notin {"inserted", "committed"}
                    /\ attempt'[a] = "over" /\ \A u \in Ids : a \notin lock'[u]
           /\ \A u \in Ids : lock'[u] \subseteq lock[u]
           /\ \A a \in S : attempt[a] \notin {"inserted", "committed"} => attempt'[a] = "over"
BY DEF TypeOK, Abandon

(* Timeout, Requeue and Crash: the worker lets go of some deliveries.      *)
LetGo(S) ==
    /\ S \in SUBSET Attempts /\ Abandon(S)
    /\ \A a \in S : a[2] <= tries[a[1]]
    /\ \A c \in Clicks : held[c] /\ ~held'[c] => Last(c) \in S
    /\ \A c \in Clicks : held'[c] => held[c]
    /\ \A c \in Clicks : task'[c] # task[c] =>
          held[c] /\ task'[c].state \in {"pending", "retry", "archived"}
    /\ UNCHANGED <<dbVars, tries>>

LEMMA LettingGo ==
    ASSUME TypeOK, HeldActive,
           Crash \/ \E c \in Clicks : Timeout(c) \/ Requeue(c)
    PROVE  /\ \E S : LetGo(S)
           /\ \A c \in Clicks : task'[c].url = task[c].url /\ task'[c].decodes = task[c].decodes
           /\ \A c \in Clicks : task'[c] # task[c] /\ task'[c].state = "archived"
                                => task'[c].retried = MaxRetry
<1>1. CASE Crash
  <2>1. {Last(c) : c \in Active} \in SUBSET Attempts
    BY LastType DEF Active
  <2>2. LetGo({Last(c) : c \in Active})
    BY <1>1, <2>1, LastType DEF Crash, LetGo, Active, TypeOK
  <2> QED BY <1>1, <2>2 DEF Crash
<1>2. ASSUME NEW c \in Clicks, Timeout(c)
      PROVE  /\ LetGo({Last(c)})
             /\ \A d \in Clicks : task'[d].url = task[d].url /\ task'[d].decodes = task[d].decodes
             /\ \A d \in Clicks : task'[d] # task[d] /\ task'[d].state = "archived"
                                  => task'[d].retried = MaxRetry
  <2>1. {Last(c)} \in SUBSET Attempts /\ held[c]
    BY <1>2, LastType DEF Timeout
  <2>2. /\ FailedTask(task[c]).url = task[c].url /\ FailedTask(task[c]).decodes = task[c].decodes
        /\ FailedTask(task[c]).state \in {"archived", "retry"}
        /\ FailedTask(task[c]).state = "archived" => FailedTask(task[c]).retried = MaxRetry
    BY FailedType DEF TypeOK
  <2>3. /\ task'[c] = FailedTask(task[c]) /\ ~held'[c]
        /\ \A d \in Clicks \ {c} : task'[d] = task[d] /\ held'[d] = held[d]
    BY <1>2 DEF Timeout, TypeOK
  <2>4. LetGo({Last(c)})
    BY <1>2, <2>1, <2>2, <2>3, LastType DEF Timeout, LetGo
  <2> QED BY <2>2, <2>3, <2>4
<1>3. ASSUME NEW c \in Clicks, Requeue(c)
      PROVE  /\ LetGo({Last(c)})
             /\ \A d \in Clicks : task'[d].url = task[d].url /\ task'[d].decodes = task[d].decodes
             /\ \A d \in Clicks : task'[d] # task[d] /\ task'[d].state = "archived"
                                  => task'[d].retried = MaxRetry
  <2>1. {Last(c)} \in SUBSET Attempts /\ held[c]
    BY <1>3, LastType DEF Requeue
  <2>2. /\ task'[c] = [task[c] EXCEPT !.state = "pending"] /\ ~held'[c]
        /\ \A d \in Clicks \ {c} : task'[d] = task[d] /\ held'[d] = held[d]
    BY <1>3 DEF Requeue, TypeOK
  <2>3. task'[c].state = "pending" /\ task'[c].url = task[c].url /\ task'[c].decodes = task[c].decodes
    BY <2>2 DEF TypeOK, Task
  <2>4. LetGo({Last(c)})
    BY <1>3, <2>1, <2>2, <2>3, LastType DEF Requeue, LetGo
  <2> QED BY <2>2, <2>3, <2>4
<1> QED BY <1>1, <1>2, <1>3

(* Undecodable, NotFound, Succeed and Fail: the handler returns and its    *)
(* delivery leaves the worker in one of these forms.                       *)
LEMMA Returning ==
    ASSUME TypeOK, HeldActive, NEW c \in Clicks,
           Undecodable(c) \/ NotFound(c) \/ Succeed(c) \/ Fail(c)
    PROVE  /\ held[c] /\ ~held'[c]
           /\ task'[c].url = task[c].url /\ task'[c].decodes = task[c].decodes
           /\ task'[c].state \in {"archived", "done", "retry"}
           /\ \A d \in Clicks \ {c} : task'[d] = task[d] /\ held'[d] = held[d]
           /\ task'[c].state = "done" => attempt[Last(c)] = "committed"
           /\ task'[c].state = "archived" =>
                 \/ task'[c].retried = MaxRetry
                 \/ ~task[c].decodes
                 \/ url[task[c].url] # "live"
           /\ \/ UNCHANGED attempt /\ task'[c].state = "done" /\ attempt[Last(c)] = "committed"
              \/ \E from \in {"begin", "updated", "inserted", "fkError"} : Step(c, from, "over")
<1>1. CASE Undecodable(c) \/ NotFound(c)
  <2>1. Step(c, "begin", "over") /\ Finish(c, [task[c] EXCEPT !.state = "archived"])
    BY <1>1 DEF Undecodable, NotFound
  <2>2. /\ task'[c] = [task[c] EXCEPT !.state = "archived"] /\ ~held'[c] /\ held[c]
        /\ \A d \in Clicks \ {c} : task'[d] = task[d] /\ held'[d] = held[d]
    BY <2>1 DEF Step, Finish, TypeOK
  <2>3. /\ task'[c].url = task[c].url /\ task'[c].decodes = task[c].decodes
        /\ task'[c].state = "archived"
    BY <2>2 DEF TypeOK, Task
  <2> QED BY <1>1, <2>1, <2>2, <2>3 DEF Undecodable, NotFound, Target
<1>2. CASE Succeed(c)
  <2>1. /\ task'[c] = [task[c] EXCEPT !.state = "done"] /\ ~held'[c] /\ held[c]
        /\ \A d \in Clicks \ {c} : task'[d] = task[d] /\ held'[d] = held[d]
    BY <1>2 DEF Succeed, Finish, TypeOK
  <2>2. /\ task'[c].url = task[c].url /\ task'[c].decodes = task[c].decodes
        /\ task'[c].state = "done"
    BY <2>1 DEF TypeOK, Task
  <2> QED BY <1>2, <2>1, <2>2 DEF Succeed
<1>3. CASE Fail(c)
  <2>1. /\ task'[c] = FailedTask(task[c]) /\ ~held'[c] /\ held[c]
        /\ \A d \in Clicks \ {c} : task'[d] = task[d] /\ held'[d] = held[d]
    BY <1>3 DEF Fail, Finish, TypeOK
  <2>2. /\ FailedTask(task[c]).url = task[c].url /\ FailedTask(task[c]).decodes = task[c].decodes
        /\ FailedTask(task[c]).state \in {"archived", "retry"}
        /\ FailedTask(task[c]).state = "archived" => FailedTask(task[c]).retried = MaxRetry
    BY FailedType DEF TypeOK
  <2> QED BY <1>3, <2>1, <2>2 DEF Fail
<1> QED BY <1>1, <1>2, <1>3

-----------------------------------------------------------------------------
(* What never goes back. *)

(* A queued task keeps its URL, a URL that was created is never new again, *)
(* and a committed transaction stays committed.                            *)
Forwards ==
    /\ \A c \in Clicks : tries'[c] >= tries[c]
    /\ \A c \in Clicks :
          task[c].state # "none" =>
             /\ task'[c].state # "none"
             /\ task'[c].url = task[c].url /\ task'[c].decodes = task[c].decodes
    /\ \A u \in Ids : url[u] # "absent" => url'[u] # "absent"
    /\ \A u \in Ids : url[u] = "gone" => url'[u] = "gone"
    /\ \A a \in Attempts : attempt[a] = "committed" => attempt'[a] = "committed"

(* Next, with the steps that have the same effect put together.            *)
LEMMA NextCases ==
    ASSUME [Next]_vars
    PROVE  \/ \E u \in Ids : CreateURL(u) \/ DeleteRow(u)
           \/ \E c \in Clicks, u \in Ids, decodes \in BOOLEAN : EnqueueClick(c, u, decodes)
           \/ \E c \in Clicks : Dispatch(c)
           \/ \E c \in Clicks : Forward(c) \/ Recover(c)
           \/ Crash \/ \E c \in Clicks : Timeout(c) \/ Requeue(c)
           \/ \E c \in Clicks : Undecodable(c) \/ NotFound(c) \/ Succeed(c) \/ Fail(c)
           \/ \E c \in Clicks : Update(c) \/ Insert(c)
           \/ \E a \in Attempts : Commit(a) \/ RollBack(a)
           \/ UNCHANGED vars
BY DEF Next

(* Forward and Recover only move the task on.                              *)
LEMMA Moving ==
    ASSUME TypeOK, NEW c \in Clicks, Forward(c) \/ Recover(c)
    PROVE  /\ UNCHANGED <<url, count, clicks, lock, tries, held, attempt, gaveUp, faults>>
           /\ task'[c].url = task[c].url /\ task'[c].decodes = task[c].decodes
           /\ task[c].state \in {"active", "retry"}
           /\ task'[c].state \in {"pending", "archived", "retry"}
           /\ task[c].state = "active" => ~held[c]
           /\ task'[c].state = "archived" => task'[c].retried = MaxRetry
           /\ \A d \in Clicks \ {c} : task'[d] = task[d]
<1>1. CASE Forward(c)
  <2>1. /\ task'[c] = [task[c] EXCEPT !.state = "pending"] /\ task[c].state = "retry"
        /\ \A d \in Clicks \ {c} : task'[d] = task[d]
    BY <1>1 DEF Forward, TypeOK
  <2>2. task'[c].url = task[c].url /\ task'[c].decodes = task[c].decodes /\ task'[c].state = "pending"
    BY <2>1 DEF TypeOK, Task
  <2> QED BY <1>1, <2>1, <2>2 DEF Forward, dbVars
<1>2. CASE Recover(c)
  <2>1. /\ task'[c] = FailedTask(task[c]) /\ task[c].state = "active" /\ ~held[c]
        /\ \A d \in Clicks \ {c} : task'[d] = task[d]
    BY <1>2 DEF Recover, TypeOK
  <2>2. /\ FailedTask(task[c]).url = task[c].url /\ FailedTask(task[c]).decodes = task[c].decodes
        /\ FailedTask(task[c]).state \in {"archived", "retry"}
        /\ FailedTask(task[c]).state = "archived" => FailedTask(task[c]).retried = MaxRetry
    BY FailedType DEF TypeOK
  <2> QED BY <1>2, <2>1, <2>2 DEF Recover, dbVars
<1> QED BY <1>1, <1>2

(* Dispatch starts a transaction that was not started before.              *)
Fresh(c) == <<c, tries[c] + 1>>

LEMMA Dispatching ==
    ASSUME TypeOK, Started, NEW c \in Clicks, Dispatch(c)
    PROVE  /\ Fresh(c) \in Attempts /\ Fresh(c)[1] = c /\ Fresh(c)[2] = tries[c] + 1
           /\ attempt[Fresh(c)] = "none" /\ attempt'[Fresh(c)] = "begin"
           /\ \A a \in Attempts \ {Fresh(c)} : attempt'[a] = attempt[a]
           /\ \A d \in Clicks : task'[d].url = task[d].url /\ task'[d].decodes = task[d].decodes
           /\ task[c].state = "pending" /\ task'[c].state = "active" /\ held'[c]
           /\ UNCHANGED <<url, count, clicks, lock, gaveUp>>
           /\ tries[c] \in Nat /\ tries'[c] = tries[c] + 1
           /\ \A d \in Clicks \ {c} : task'[d] = task[d] /\ tries'[d] = tries[d] /\ held'[d] = held[d]
<1>1. tries[c] \in Nat /\ tries[c] < MaxTries /\ MaxTries \in Nat
  BY ConstantsAssumption DEF Dispatch, TypeOK, MaxTries
<1>2. Fresh(c) \in Attempts /\ Fresh(c)[1] = c /\ Fresh(c)[2] = tries[c] + 1
  BY <1>1 DEF Attempts, Fresh
<1>3. attempt[Fresh(c)] = "none"
  BY <1>1, <1>2 DEF Started
<1>4. /\ attempt'[Fresh(c)] = "begin"
      /\ \A a \in Attempts \ {Fresh(c)} : attempt'[a] = attempt[a]
  <2>1. attempt' = [attempt EXCEPT ![Fresh(c)] = "begin"]
    BY DEF Dispatch, Fresh
  <2> QED BY <1>2, <2>1 DEF TypeOK
<1>5. /\ task[c].state = "pending" /\ task' = [task EXCEPT ![c].state = "active"]
      /\ tries' = [tries EXCEPT ![c] = @ + 1] /\ held' = [held EXCEPT ![c] = TRUE]
  BY DEF Dispatch
<1>6. \A d \in Clicks : task'[d].url = task[d].url /\ task'[d].decodes = task[d].decodes
  BY <1>5 DEF TypeOK, Task
<1>7. /\ task'[c].state = "active" /\ held'[c] /\ tries'[c] = tries[c] + 1
      /\ \A d \in Clicks \ {c} : task'[d] = task[d] /\ tries'[d] = tries[d] /\ held'[d] = held[d]
  BY <1>5 DEF TypeOK, Task
<1>8. UNCHANGED <<url, count, clicks, lock, gaveUp>>
  BY DEF Dispatch, dbVars
<1> QED BY <1>1, <1>2, <1>3, <1>4, <1>5, <1>6, <1>7, <1>8

(* No step goes back.                                                      *)
LEMMA NeverBack ==
    ASSUME TypeOK, HeldActive, Started, [Next]_vars
    PROVE  Forwards
<1> USE DEF Forwards
<1>0. \A c \in Clicks : tries[c] \in Nat
  BY ConstantsAssumption DEF TypeOK, MaxTries
<1>1. ASSUME NEW u \in Ids, CreateURL(u) \/ DeleteRow(u)
      PROVE  Forwards
  BY <1>0, <1>1 DEF CreateURL, DeleteRow, TypeOK
<1>2. ASSUME NEW c \in Clicks, NEW u \in Ids, NEW decodes \in BOOLEAN, EnqueueClick(c, u, decodes)
      PROVE  Forwards
  BY <1>0, <1>2 DEF EnqueueClick, TypeOK, dbVars
<1>3. ASSUME NEW c \in Clicks, Dispatch(c)
      PROVE  Forwards
  <2>1. UNCHANGED url /\ \A a \in Attempts : attempt[a] = "committed" => attempt'[a] = "committed"
    BY <1>3, Dispatching
  <2>2. \A d \in Clicks : tries'[d] >= tries[d]
    BY <1>0, <1>3, Dispatching
  <2>3. \A d \in Clicks :
          task[d].state # "none" => /\ task'[d].state # "none"
                                    /\ task'[d].url = task[d].url /\ task'[d].decodes = task[d].decodes
    BY <1>3, Dispatching
  <2> QED BY <2>1, <2>2, <2>3
<1>4. ASSUME NEW c \in Clicks, Forward(c) \/ Recover(c)
      PROVE  Forwards
  BY <1>0, <1>4, Moving
<1>5. CASE Crash \/ \E c \in Clicks : Timeout(c) \/ Requeue(c)
  <2>1. PICK S : LetGo(S)
    BY <1>5, LettingGo
  <2>2. \A a \in Attempts : attempt[a] = "committed" => attempt'[a] = "committed"
    BY <2>1, AbandonEffect DEF LetGo
  <2> QED BY <1>0, <1>5, <2>1, <2>2, LettingGo DEF LetGo, dbVars, HeldActive
<1>6. ASSUME NEW c \in Clicks, Undecodable(c) \/ NotFound(c) \/ Succeed(c) \/ Fail(c)
      PROVE  Forwards
  <2>1. UNCHANGED <<url, tries>>
    BY <1>6 DEF Undecodable, NotFound, Succeed, Fail, dbVars
  <2>2. \A a \in Attempts : attempt[a] = "committed" => attempt'[a] = "committed"
    BY <1>6, Returning, StepEffect
  <2> QED BY <1>0, <1>6, <2>1, <2>2, Returning
<1>7. ASSUME NEW c \in Clicks, Update(c) \/ Insert(c)
      PROVE  Forwards
  <2>1. UNCHANGED <<url, tries, task>>
    BY <1>7 DEF Update, Insert, dbVars
  <2>2. \E from \in {"begin", "updated"} : \E to : Step(c, from, to)
    BY <1>7 DEF Update, Insert
  <2>3. \A a \in Attempts : attempt[a] = "committed" => attempt'[a] = "committed"
    BY <2>2, StepEffect
  <2> QED BY <1>0, <2>1, <2>3
<1>8. ASSUME NEW a \in Attempts, Commit(a) \/ RollBack(a)
      PROVE  Forwards
  <2>1. UNCHANGED <<url, tries, task>>
    BY <1>8 DEF Commit, RollBack, dbVars
  <2>2. \A b \in Attempts : attempt[b] = "committed" => attempt'[b] = "committed"
    BY <1>8 DEF Commit, RollBack, TypeOK
  <2> QED BY <1>0, <2>1, <2>2
<1>9. CASE UNCHANGED vars
  BY <1>0, <1>9 DEF vars
<1> QED BY <1>1, <1>2, <1>3, <1>4, <1>5, <1>6, <1>7, <1>8, <1>9, NextCases

-----------------------------------------------------------------------------
(* Deliveries and tasks. *)

(* Only Dispatch starts a transaction, and only of a queued task.          *)
LEMMA DeliveryStep ==
    ASSUME TypeOK, HeldActive, Started, Queued, Served, [Next]_vars
    PROVE  Started' /\ Queued' /\ Served'
<1> USE DEF Started, Queued, Served
<1>0. \A c \in Clicks : tries[c] \in Nat
  BY ConstantsAssumption DEF TypeOK, MaxTries
<1>1. ASSUME NEW u \in Ids, CreateURL(u) \/ DeleteRow(u)
      PROVE  Started' /\ Queued' /\ Served'
  BY <1>1 DEF CreateURL, DeleteRow, TypeOK, Task
<1>2. ASSUME NEW c \in Clicks, NEW u \in Ids, NEW decodes \in BOOLEAN, EnqueueClick(c, u, decodes)
      PROVE  Started' /\ Queued' /\ Served'
  <2>1. task'[c].state # "none" /\ task'[c].url = u /\ \A d \in Clicks \ {c} : task'[d] = task[d]
    BY <1>2 DEF EnqueueClick, TypeOK
  <2> QED BY <1>2, <2>1 DEF EnqueueClick, dbVars
<1>3. ASSUME NEW c \in Clicks, Dispatch(c)
      PROVE  Started' /\ Queued' /\ Served'
  <2>1. Started'
    <3> SUFFICES ASSUME NEW a \in Attempts, attempt'[a] # "none" PROVE a[2] <= tries'[a[1]]
      OBVIOUS
    <3>1. a[1] \in Clicks /\ a[2] \in Nat
      BY ConstantsAssumption DEF Attempts, MaxTries
    <3>2. CASE attempt[a] # "none"
      BY <1>0, <1>3, <3>1, <3>2, Dispatching
    <3>3. CASE a = Fresh(c)
      BY <1>0, <1>3, <3>3, Dispatching
    <3> QED BY <1>3, <3>2, <3>3, Dispatching
  <2> QED BY <1>3, <2>1, Dispatching
<1>4. ASSUME NEW c \in Clicks, Forward(c) \/ Recover(c)
      PROVE  Started' /\ Queued' /\ Served'
  <2>1. task[c].state # "none" /\ task'[c].state # "none"
    BY <1>4, Moving
  <2> QED BY <1>4, <2>1, Moving
<1>5. CASE Crash \/ \E c \in Clicks : Timeout(c) \/ Requeue(c)
  <2>1. PICK S : LetGo(S)
    BY <1>5, LettingGo
  <2>2. Started'
    BY <2>1, AbandonEffect DEF LetGo
  <2> QED BY <1>5, <2>1, <2>2, LettingGo DEF LetGo, dbVars, HeldActive
<1>6. ASSUME NEW c \in Clicks, Undecodable(c) \/ NotFound(c) \/ Succeed(c) \/ Fail(c)
      PROVE  Started' /\ Queued' /\ Served'
  <2>1. UNCHANGED <<url, tries>>
    BY <1>6 DEF Undecodable, NotFound, Succeed, Fail, dbVars
  <2>2. \A a \in Attempts : attempt'[a] # "none" => attempt[a] # "none"
    BY <1>6, Returning, StepEffect
  <2> QED BY <1>6, <2>1, <2>2, Returning DEF HeldActive
<1>7. ASSUME NEW c \in Clicks, Update(c) \/ Insert(c)
      PROVE  Started' /\ Queued' /\ Served'
  <2>1. UNCHANGED <<url, tries, task>>
    BY <1>7 DEF Update, Insert, dbVars
  <2>2. \E from \in {"begin", "updated"} : \E to : Step(c, from, to)
    BY <1>7 DEF Update, Insert
  <2>3. \A a \in Attempts : attempt'[a] # "none" => attempt[a] # "none"
    BY <2>2, StepEffect
  <2> QED BY <2>1, <2>3
<1>8. ASSUME NEW a \in Attempts, Commit(a) \/ RollBack(a)
      PROVE  Started' /\ Queued' /\ Served'
  <2>1. UNCHANGED <<url, tries, task>>
    BY <1>8 DEF Commit, RollBack, dbVars
  <2>2. \A b \in Attempts : attempt'[b] # "none" => attempt[b] # "none"
    BY <1>8 DEF Commit, RollBack, TypeOK
  <2> QED BY <2>1, <2>2
<1>9. CASE UNCHANGED vars
  BY <1>9 DEF vars
<1> QED BY <1>1, <1>2, <1>3, <1>4, <1>5, <1>6, <1>7, <1>8, <1>9, NextCases

-----------------------------------------------------------------------------
(* The row lock. *)

(* A transaction and its lock start and end together, and DeleteRow waits, *)
(* so the INSERT always finds the row its foreign key needs.               *)
LEMMA LockStep ==
    ASSUME TypeOK, HeldActive, Started, Queued, Locked, LockedLive, NoForeignKeyError, [Next]_vars
    PROVE  Locked' /\ LockedLive' /\ NoForeignKeyError'
<1> DEFINE Goal == Locked' /\ LockedLive' /\ NoForeignKeyError'
<1> USE DEF Locked, LockedLive, NoForeignKeyError
<1>0. /\ \A a \in Attempts : a[1] \in Clicks /\ a[2] \in Nat \ {0} /\ task[a[1]].url \in Ids
      /\ \A c \in Clicks : tries[c] \in Nat
  BY ConstantsAssumption DEF Attempts, MaxTries, TypeOK, Task
<1>1. ASSUME NEW u \in Ids, CreateURL(u) \/ DeleteRow(u)
      PROVE  Goal
  <2>1. UNCHANGED <<lock, attempt, task>>
    BY <1>1 DEF CreateURL, DeleteRow
  <2>2. \A v \in Ids : lock[v] # {} => url'[v] = "live"
    BY <1>1 DEF CreateURL, DeleteRow, TypeOK
  <2> QED BY <2>1, <2>2
<1>2. ASSUME NEW c \in Clicks, NEW u \in Ids, NEW decodes \in BOOLEAN, EnqueueClick(c, u, decodes)
      PROVE  Goal
  <2>1. UNCHANGED <<url, lock, attempt>> /\ task[c].state = "none"
        /\ \A d \in Clicks \ {c} : task'[d] = task[d]
    BY <1>2 DEF EnqueueClick, dbVars, TypeOK
  <2>2. \A a \in Attempts : a[1] = c => attempt[a] = "none"
    BY <1>0, <2>1 DEF Started, Queued
  <2>3. \A a \in Attempts : attempt[a] \in Locking => task'[a[1]] = task[a[1]]
    BY <1>0, <2>1, <2>2 DEF Locking
  <2>4. \A a \in Attempts, v \in Ids :
          a \in lock'[v] <=> attempt'[a] \in Locking /\ task'[a[1]].url = v
    BY <2>1, <2>3
  <2> QED BY <2>1, <2>4
<1>3. ASSUME NEW c \in Clicks, Dispatch(c)
      PROVE  Goal
  <2>1. UNCHANGED <<url, lock>> /\ \A d \in Clicks : task'[d].url = task[d].url
    BY <1>3, Dispatching
  <2>2. /\ attempt[Fresh(c)] = "none" /\ attempt'[Fresh(c)] = "begin"
        /\ \A a \in Attempts \ {Fresh(c)} : attempt'[a] = attempt[a]
    BY <1>3, Dispatching
  <2> QED BY <1>0, <2>1, <2>2 DEF Locking
<1>4. ASSUME NEW c \in Clicks, Forward(c) \/ Recover(c)
      PROVE  Goal
  <2>1. UNCHANGED <<url, lock, attempt>> /\ \A d \in Clicks : task'[d].url = task[d].url
    BY <1>4, Moving
  <2> QED BY <1>0, <2>1
<1>5. CASE Crash \/ \E c \in Clicks : Timeout(c) \/ Requeue(c)
  <2>1. PICK S : LetGo(S)
    BY <1>5, LettingGo
  <2>2. UNCHANGED url /\ \A d \in Clicks : task'[d].url = task[d].url
    BY <1>5, <2>1, LettingGo DEF LetGo, dbVars
  <2>3. \A a \in Attempts :
           \/ attempt'[a] = attempt[a] /\ \A u \in Ids : a \in lock'[u] <=> a \in lock[u]
           \/ attempt'[a] = "over" /\ \A u \in Ids : a \notin lock'[u]
    BY <2>1, AbandonEffect DEF LetGo
  <2>4. \A u \in Ids : lock'[u] \subseteq lock[u]
    BY <2>1, AbandonEffect DEF LetGo
  <2>5. Locked'
    BY <1>0, <2>2, <2>3 DEF Locking
  <2> QED BY <2>2, <2>3, <2>4, <2>5
<1>6. ASSUME NEW c \in Clicks, Undecodable(c) \/ NotFound(c) \/ Succeed(c) \/ Fail(c)
      PROVE  Goal
  <2>1. UNCHANGED url /\ \A d \in Clicks : task'[d].url = task[d].url
    BY <1>6, Returning DEF Undecodable, NotFound, Succeed, Fail, dbVars
  <2>2. CASE UNCHANGED attempt /\ UNCHANGED lock
    BY <1>0, <2>1, <2>2
  <2>3. CASE UNCHANGED lock /\ Step(c, "begin", "over")
    <3>1. /\ attempt[Last(c)] = "begin" /\ attempt'[Last(c)] = "over"
          /\ \A a \in Attempts \ {Last(c)} : attempt'[a] = attempt[a]
      BY <2>3, StepEffect
    <3> QED BY <1>0, <2>1, <2>3, <3>1 DEF Locking
  <2>4. CASE Fail(c)
    <3>1. /\ Last(c) \in Attempts /\ attempt'[Last(c)] = "over"
          /\ \A a \in Attempts \ {Last(c)} : attempt'[a] = attempt[a]
      BY <2>4, StepEffect DEF Fail
    <3>2. \A u \in Ids : lock'[u] = lock[u] \ {Last(c)}
      BY <2>4 DEF Fail
    <3> QED BY <1>0, <2>1, <3>1, <3>2 DEF Locking
  <2> QED BY <1>6, <2>2, <2>3, <2>4 DEF Undecodable, NotFound, Succeed
<1>7. ASSUME NEW c \in Clicks, Update(c)
      PROVE  Goal
  <2>1. UNCHANGED <<url, task>> /\ url[task[c].url] = "live" /\ lock[task[c].url] = {}
    BY <1>7 DEF Update, Target, dbVars
  <2>2. /\ Last(c) \in Attempts /\ Last(c)[1] = c
        /\ attempt[Last(c)] = "begin" /\ attempt'[Last(c)] = "updated"
        /\ \A a \in Attempts \ {Last(c)} : attempt'[a] = attempt[a]
    BY <1>7, StepEffect DEF Update
  <2>3. /\ lock'[task[c].url] = {Last(c)}
        /\ \A u \in Ids \ {task[c].url} : lock'[u] = lock[u]
    BY <1>0, <1>7, <2>2 DEF Update, Target, TypeOK
  <2>4. Locked'
    <3> SUFFICES ASSUME NEW a \in Attempts, NEW u \in Ids
                 PROVE  a \in lock'[u] <=> attempt'[a] \in Locking /\ task'[a[1]].url = u
      OBVIOUS
    <3>1. CASE a = Last(c)
      BY <2>1, <2>2, <2>3, <3>1 DEF Locking
    <3>2. CASE a # Last(c)
      BY <2>1, <2>2, <2>3, <3>2
    <3> QED BY <3>1, <3>2
  <2> QED BY <2>1, <2>2, <2>3, <2>4
<1>8. ASSUME NEW c \in Clicks, Insert(c)
      PROVE  Goal
  <2>1. UNCHANGED <<url, task, lock>>
    BY <1>8 DEF Insert, dbVars
  <2>2. Last(c) \in Attempts /\ Last(c)[1] = c /\ attempt[Last(c)] = "updated"
    BY <1>8, StepEffect DEF Insert
  <2>3. url[task[c].url] = "live"
    BY <1>0, <2>2 DEF Locking
  <2>4. Step(c, "updated", "inserted")
    BY <1>8, <2>3 DEF Insert, Target
  <2>5. /\ attempt'[Last(c)] = "inserted"
        /\ \A a \in Attempts \ {Last(c)} : attempt'[a] = attempt[a]
    BY <2>4, StepEffect
  <2> QED BY <1>0, <2>1, <2>2, <2>5 DEF Locking
<1>9. ASSUME NEW a \in Attempts, Commit(a) \/ RollBack(a)
      PROVE  Goal
  <2>1. UNCHANGED <<url, task>> /\ \A u \in Ids : lock'[u] = lock[u] \ {a}
    BY <1>9 DEF Commit, RollBack, dbVars
  <2>2. attempt'[a] \in {"committed", "over"} /\ \A b \in Attempts \ {a} : attempt'[b] = attempt[b]
    BY <1>9 DEF Commit, RollBack, TypeOK
  <2> QED BY <1>0, <2>1, <2>2 DEF Locking
<1>10. CASE UNCHANGED vars
  BY <1>10 DEF vars
<1> QED BY <1>1, <1>2, <1>3, <1>4, <1>5, <1>6, <1>7, <1>8, <1>9, <1>10, NextCases

-----------------------------------------------------------------------------
(* The counter and the clicks table. *)

(* Only a COMMIT writes them, both at once and each transaction once; a    *)
(* DELETE takes both away.                                                 *)
LEMMA CountStep ==
    ASSUME TypeOK, HeldActive, Started, Queued, Recorded, CounterAgrees, ClickOnItsURL,
           TypeOK', Forwards, [Next]_vars
    PROVE  Recorded' /\ CounterAgrees' /\ ClickOnItsURL'
<1> DEFINE Goal == Recorded' /\ CounterAgrees' /\ ClickOnItsURL'
<1>0. /\ \A a \in Attempts : a[1] \in Clicks /\ a[2] \in Nat \ {0} /\ task[a[1]].url \in Ids
      /\ \A u \in Ids : clicks[u] \subseteq Attempts
  BY ConstantsAssumption DEF Attempts, MaxTries, TypeOK, Task
<1>1. ASSUME NEW a \in Attempts, attempt[a] = "committed"
      PROVE  attempt'[a] = "committed" /\ task'[a[1]].url = task[a[1]].url
  BY <1>0, <1>1 DEF Forwards, Started, Queued
<1>2. CASE UNCHANGED <<count, clicks>>
  BY <1>0, <1>1, <1>2 DEF Recorded, CounterAgrees, ClickOnItsURL
<1>3. ASSUME NEW u \in Ids, DeleteRow(u)
      PROVE  Goal
  <2>1. clicks'[u] = {} /\ count'[u] = 0
        /\ \A v \in Ids \ {u} : clicks'[v] = clicks[v] /\ count'[v] = count[v]
    BY <1>3 DEF DeleteRow, TypeOK
  <2>2. IsFiniteSet({}) /\ Cardinality({}) = 0
    BY FS_EmptySet
  <2>3. CounterAgrees'
    <3>1. count'[u] = Cardinality(clicks'[u])
      BY <2>1, <2>2
    <3> QED BY <2>1, <3>1 DEF CounterAgrees
  <2>4. Recorded'
    BY <1>0, <1>1, <2>1, <2>2 DEF Recorded
  <2>5. ClickOnItsURL'
    <3> SUFFICES ASSUME NEW v \in Ids, NEW a \in clicks'[v] PROVE task'[a[1]].url = v
      BY DEF ClickOnItsURL
    <3>1. v # u /\ a \in clicks[v] /\ a \in Attempts
      BY <1>0, <2>1
    <3> QED BY <1>1, <3>1 DEF Recorded, ClickOnItsURL
  <2> QED BY <2>3, <2>4, <2>5
<1>4. ASSUME NEW a \in Attempts, Commit(a)
      PROVE  Goal
  <2> DEFINE u == task[a[1]].url
  <2>1. /\ u \in Ids /\ attempt[a] = "inserted" /\ attempt'[a] = "committed" /\ UNCHANGED task
        /\ clicks'[u] = clicks[u] \cup {a} /\ count'[u] = count[u] + 1
        /\ \A v \in Ids \ {u} : clicks'[v] = clicks[v] /\ count'[v] = count[v]
    BY <1>0, <1>4 DEF Commit, Target, TypeOK
  <2>2. a \notin clicks[u] /\ IsFiniteSet(clicks[u]) /\ count[u] = Cardinality(clicks[u])
    BY <2>1 DEF Recorded, CounterAgrees
  <2>3. IsFiniteSet(clicks[u] \cup {a}) /\ Cardinality(clicks[u] \cup {a}) = Cardinality(clicks[u]) + 1
    BY <2>2, FS_AddElement
  <2> HIDE DEF u
  <2>4. Recorded' /\ CounterAgrees'
    BY <1>0, <1>1, <2>1, <2>2, <2>3 DEF Recorded, CounterAgrees
  <2> USE DEF u
  <2>5. ClickOnItsURL'
    BY <1>0, <2>1 DEF ClickOnItsURL
  <2> QED BY <2>4, <2>5
<1>5. CASE UNCHANGED vars
  BY <1>2, <1>5 DEF vars
<1> QED BY <1>2, <1>3, <1>4, <1>5
        DEF Next, CreateURL, EnqueueClick, Dispatch, Forward, Timeout, Requeue, Recover, Crash,
            Undecodable, Update, NotFound, Insert, Succeed, Fail, RollBack, dbVars

-----------------------------------------------------------------------------
(* What the worker saw. *)

(* A delivery whose outcome can still be seen is the last one of its task. *)
LEMMA SeenIsLast ==
    ASSUME TypeOK, Seen, NEW a \in Attempts, attempt[a] \in {"inserted", "committed"}, a \notin gaveUp
    PROVE  /\ a[1] \in Clicks /\ a = Last(a[1]) /\ a[2] = tries[a[1]]
           /\ held[a[1]] \/ task[a[1]].state = "done"
BY DEF Seen, Attempts, Last

(* A transaction that wrote a click is the last of its task and its worker *)
(* waits for it or has it done, or else the worker has given it up.        *)
LEMMA SeenStep ==
    ASSUME TypeOK, HeldActive, Started, Queued, Seen, [Next]_vars
    PROVE  Seen'
<1>0. /\ \A a \in Attempts : a[1] \in Clicks /\ a[2] \in Nat \ {0}
      /\ \A c \in Clicks : tries[c] \in Nat
  BY ConstantsAssumption DEF Attempts, MaxTries, TypeOK
<1>1. ASSUME NEW u \in Ids, CreateURL(u) \/ DeleteRow(u)
      PROVE  Seen'
  BY <1>1 DEF CreateURL, DeleteRow, Seen
<1>2. ASSUME NEW c \in Clicks, NEW u \in Ids, NEW decodes \in BOOLEAN, EnqueueClick(c, u, decodes)
      PROVE  Seen'
  <2>1. UNCHANGED <<attempt, gaveUp, tries, held>> /\ task[c].state = "none"
        /\ \A d \in Clicks \ {c} : task'[d] = task[d]
    BY <1>2 DEF EnqueueClick, TypeOK
  <2>2. \A a \in Attempts : a[1] = c => attempt[a] = "none"
    BY <1>0, <2>1 DEF Started, Queued
  <2> QED BY <1>0, <2>1, <2>2 DEF Seen
<1>3. ASSUME NEW c \in Clicks, Dispatch(c)
      PROVE  Seen'
  <2> SUFFICES ASSUME NEW a \in Attempts, attempt'[a] \in {"inserted", "committed"}, a \notin gaveUp'
               PROVE  a[2] = tries'[a[1]] /\ (held'[a[1]] \/ task'[a[1]].state = "done")
    BY DEF Seen
  <2>1. a # Fresh(c) /\ attempt'[a] = attempt[a] /\ a \notin gaveUp
    BY <1>3, Dispatching
  <2>2. a[1] \in Clicks /\ a[2] = tries[a[1]] /\ (held[a[1]] \/ task[a[1]].state = "done")
    BY <2>1, SeenIsLast
  <2>3. a[1] # c
    BY <1>3, <2>2, Dispatching DEF HeldActive
  <2> QED BY <1>3, <2>2, <2>3, Dispatching
<1>4. ASSUME NEW c \in Clicks, Forward(c) \/ Recover(c)
      PROVE  Seen'
  <2> SUFFICES ASSUME NEW a \in Attempts, attempt'[a] \in {"inserted", "committed"}, a \notin gaveUp'
               PROVE  a[2] = tries'[a[1]] /\ (held'[a[1]] \/ task'[a[1]].state = "done")
    BY DEF Seen
  <2>1. UNCHANGED <<attempt, gaveUp, tries, held>>
    BY <1>4, Moving
  <2>2. a[1] \in Clicks /\ a[2] = tries[a[1]] /\ (held[a[1]] \/ task[a[1]].state = "done")
    BY <2>1, SeenIsLast
  <2>3. a[1] # c
    BY <1>4, <2>2, Moving DEF HeldActive
  <2> QED BY <1>4, <2>1, <2>2, <2>3, Moving
<1>5. CASE Crash \/ \E c \in Clicks : Timeout(c) \/ Requeue(c)
  <2> SUFFICES ASSUME NEW a \in Attempts, attempt'[a] \in {"inserted", "committed"}, a \notin gaveUp'
               PROVE  a[2] = tries'[a[1]] /\ (held'[a[1]] \/ task'[a[1]].state = "done")
    BY DEF Seen
  <2>1. PICK S : LetGo(S)
    BY <1>5, LettingGo
  <2>2. attempt'[a] = attempt[a] /\ a \notin S /\ a \notin gaveUp
    BY <2>1, AbandonEffect DEF LetGo
  <2>3. /\ a[1] \in Clicks /\ a = Last(a[1]) /\ a[2] = tries[a[1]]
        /\ held[a[1]] \/ task[a[1]].state = "done"
    BY <2>2, SeenIsLast
  <2>4. CASE held[a[1]]
    BY <2>1, <2>2, <2>3, <2>4 DEF LetGo
  <2>5. CASE ~held[a[1]]
    BY <2>1, <2>3, <2>5 DEF LetGo
  <2> QED BY <2>4, <2>5
<1>6. ASSUME NEW c \in Clicks, Undecodable(c) \/ NotFound(c) \/ Succeed(c) \/ Fail(c)
      PROVE  Seen'
  <2> SUFFICES ASSUME NEW a \in Attempts, attempt'[a] \in {"inserted", "committed"}, a \notin gaveUp'
               PROVE  a[2] = tries'[a[1]] /\ (held'[a[1]] \/ task'[a[1]].state = "done")
    BY DEF Seen
  <2>1. UNCHANGED <<gaveUp, tries>>
    BY <1>6 DEF Undecodable, NotFound, Succeed, Fail
  <2>2. \/ UNCHANGED attempt /\ task'[c].state = "done"
        \/ /\ attempt'[Last(c)] = "over"
           /\ \A b \in Attempts \ {Last(c)} : attempt'[b] = attempt[b]
    BY <1>6, Returning, StepEffect
  <2>3. attempt'[a] = attempt[a] /\ (a = Last(c) => task'[c].state = "done")
    BY <2>2
  <2>4. /\ a[1] \in Clicks /\ a = Last(a[1]) /\ a[2] = tries[a[1]]
        /\ held[a[1]] \/ task[a[1]].state = "done"
    BY <2>1, <2>3, SeenIsLast
  <2> QED BY <1>6, <2>1, <2>3, <2>4, Returning
<1>7. ASSUME NEW c \in Clicks, Update(c) \/ Insert(c)
      PROVE  Seen'
  <2>1. UNCHANGED <<gaveUp, tries, task, held>>
    BY <1>7 DEF Update, Insert
  <2>2. PICK from \in {"begin", "updated"}, to \in {"updated", "inserted", "fkError"} :
          Step(c, from, to)
    BY <1>7 DEF Update, Insert
  <2>3. /\ Last(c)[1] = c /\ Last(c)[2] = tries[c]
        /\ \A b \in Attempts \ {Last(c)} : attempt'[b] = attempt[b]
    BY <2>2, StepEffect
  <2>4. held[c]
    BY <2>2 DEF Step
  <2> SUFFICES ASSUME NEW a \in Attempts, attempt'[a] \in {"inserted", "committed"}, a \notin gaveUp
               PROVE  a[2] = tries[a[1]] /\ (held[a[1]] \/ task[a[1]].state = "done")
    BY <2>1 DEF Seen
  <2>5. CASE a = Last(c)
    BY <2>3, <2>4, <2>5
  <2>6. CASE a # Last(c)
    BY <2>3, <2>6 DEF Seen
  <2> QED BY <2>5, <2>6
<1>8. ASSUME NEW a \in Attempts, Commit(a) \/ RollBack(a)
      PROVE  Seen'
  <2>1. UNCHANGED <<gaveUp, tries, task, held>>
    BY <1>8 DEF Commit, RollBack
  <2>2. attempt[a] = "inserted" /\ \A b \in Attempts \ {a} : attempt'[b] = attempt[b]
    BY <1>8 DEF Commit, RollBack, TypeOK
  <2> QED BY <2>1, <2>2 DEF Seen
<1>9. CASE UNCHANGED vars
  BY <1>9 DEF vars, Seen
<1> QED BY <1>1, <1>2, <1>3, <1>4, <1>5, <1>6, <1>7, <1>8, <1>9, NextCases

(* A task ends done when its click is written, and archived when no retry  *)
(* could help or none is left.                                             *)
LEMMA EndStep ==
    ASSUME TypeOK, HeldActive, Served, DoneIsRecorded, ArchivedWhenHopeless, TypeOK', Forwards,
           [Next]_vars
    PROVE  DoneIsRecorded' /\ ArchivedWhenHopeless'
<1> DEFINE DoneWas(c) ==
             task[c].state = "done" \/ \E a \in Attempts : a[1] = c /\ attempt[a] = "committed"
           Hopeless(c) ==
             \/ task'[c] = task[c]
             \/ task'[c].retried = MaxRetry
             \/ ~task'[c].decodes
             \/ url[task'[c].url] = "gone"
           Ends(c) == /\ task'[c].state = "done" => DoneWas(c)
                      /\ task'[c].state = "archived" => Hopeless(c)
<1>1. ASSUME NEW c \in Clicks
      PROVE  Ends(c)
  <2>0. CASE task'[c] = task[c]
    BY <2>0
  <2>1. ASSUME NEW d \in Clicks, NEW u \in Ids, NEW decodes \in BOOLEAN, EnqueueClick(d, u, decodes)
        PROVE  Ends(c)
    <3>1. task'[d].state \in {"pending", "dropped"} /\ \A e \in Clicks \ {d} : task'[e] = task[e]
      BY <2>1 DEF EnqueueClick, TypeOK
    <3> QED BY <2>0, <3>1
  <2>2. ASSUME NEW d \in Clicks, Dispatch(d)
        PROVE  Ends(c)
    <3>1. task'[d].state = "active" /\ \A e \in Clicks \ {d} : task'[e] = task[e]
      BY <2>2 DEF Dispatch, TypeOK, Task
    <3> QED BY <2>0, <3>1
  <2>3. ASSUME NEW d \in Clicks, Forward(d) \/ Recover(d)
        PROVE  Ends(c)
    BY <2>0, <2>3, Moving
  <2>4. CASE Crash \/ \E d \in Clicks : Timeout(d) \/ Requeue(d)
    <3>1. PICK S : LetGo(S)
      BY <2>4, LettingGo
    <3>2. task'[c] # task[c] => task'[c].state # "done"
      BY <3>1 DEF LetGo
    <3> QED BY <2>0, <2>4, <3>2, LettingGo
  <2>5. ASSUME NEW d \in Clicks, Undecodable(d) \/ NotFound(d) \/ Succeed(d) \/ Fail(d)
        PROVE  Ends(c)
    <3>1. CASE c # d
      BY <2>0, <2>5, <3>1, Returning
    <3>2. CASE c = d
      <4>1. task[d].state # "none" /\ Last(d) \in Attempts /\ Last(d)[1] = d
        BY <2>5, Returning, LastType DEF HeldActive
      <4>2. task'[d].state = "done" => DoneWas(d)
        BY <2>5, <4>1, Returning
      <4>3. url[task[d].url] # "live" => url[task[d].url] = "gone"
        BY <4>1 DEF Served, TypeOK, Task, UrlStates
      <4>4. task'[d].state = "archived" => Hopeless(d)
        BY <2>5, <4>3, Returning
      <4> QED BY <3>2, <4>2, <4>4
    <3> QED BY <3>1, <3>2
  <2>6. CASE UNCHANGED task
    BY <2>0, <2>6
  <2> QED BY <2>1, <2>2, <2>3, <2>4, <2>5, <2>6, NextCases
          DEF CreateURL, DeleteRow, Update, Insert, Commit, RollBack, vars
<1>2. DoneIsRecorded'
  <2> SUFFICES ASSUME NEW c \in Clicks, task'[c].state = "done"
               PROVE  \E a \in Attempts : a[1] = c /\ attempt'[a] = "committed"
    BY DEF DoneIsRecorded
  <2>1. \E a \in Attempts : a[1] = c /\ attempt[a] = "committed"
    BY <1>1 DEF DoneIsRecorded
  <2> QED BY <2>1 DEF Forwards
<1>3. ArchivedWhenHopeless'
  <2> SUFFICES ASSUME NEW c \in Clicks, task'[c].state = "archived"
               PROVE  \/ task'[c].retried = MaxRetry
                      \/ ~task'[c].decodes
                      \/ url'[task'[c].url] = "gone"
    BY DEF ArchivedWhenHopeless
  <2>1. task'[c].url \in Ids
    BY DEF TypeOK, Task
  <2>2. Hopeless(c)
    BY <1>1
  <2>3. CASE task'[c] = task[c]
    BY <2>1, <2>3 DEF ArchivedWhenHopeless, Forwards
  <2> QED BY <2>1, <2>2, <2>3 DEF Forwards
<1> QED BY <1>2, <1>3

-----------------------------------------------------------------------------
(* The results. *)

(* The inductive invariant holds in every reachable state.                 *)
THEOREM Invariant == Spec => []IInv
<1>1. Init => IInv
  <2> SUFFICES ASSUME Init PROVE IInv
    OBVIOUS
  <2>1. TypeOK /\ HeldActive
    BY ConstantsAssumption
       DEF Init, TypeOK, HeldActive, UrlStates, Task, TaskStates, Steps, MaxTries
  <2>2. Started /\ Queued /\ Served /\ Locked /\ LockedLive /\ Seen
    BY DEF Init, Started, Queued, Served, Locked, LockedLive, Seen, Locking
  <2>3. Recorded /\ CounterAgrees /\ NoForeignKeyError /\ ClickOnItsURL
    BY FS_EmptySet DEF Init, Recorded, CounterAgrees, NoForeignKeyError, ClickOnItsURL
  <2>4. DoneIsRecorded /\ ArchivedWhenHopeless
    BY DEF Init, DoneIsRecorded, ArchivedWhenHopeless
  <2> QED BY <2>1, <2>2, <2>3, <2>4 DEF IInv
<1>2. IInv /\ [Next]_vars => IInv'
  <2> SUFFICES ASSUME IInv, [Next]_vars PROVE IInv'
    OBVIOUS
  <2>1. TypeOK' /\ HeldActive' /\ Forwards
    BY TypeStep, NeverBack DEF IInv
  <2>2. Started' /\ Queued' /\ Served' /\ Seen'
    BY DeliveryStep, SeenStep DEF IInv
  <2>3. Locked' /\ LockedLive' /\ NoForeignKeyError'
    BY LockStep DEF IInv
  <2>4. Recorded' /\ CounterAgrees' /\ ClickOnItsURL'
    BY <2>1, CountStep DEF IInv
  <2>5. DoneIsRecorded' /\ ArchivedWhenHopeless'
    BY <2>1, EndStep DEF IInv
  <2> QED BY <2>1, <2>2, <2>3, <2>4, <2>5 DEF IInv
<1> QED BY <1>1, <1>2, PTL DEF Spec

(* The queue's and the database's state stays well typed.                  *)
THEOREM Typed == Spec => []TypeOK
BY Invariant, PTL DEF IInv

(* click_count always equals the rows RecordClick wrote.                   *)
THEOREM CounterIsExact == Spec => []CounterAgrees
BY Invariant, PTL DEF IInv

(* A click's foreign key never fails, however deletes race it.             *)
THEOREM ForeignKeyHolds == Spec => []NoForeignKeyError
BY Invariant, PTL DEF IInv

(* A click never lands on a later URL with the same slug.                  *)
THEOREM ClicksStayOnTheirURL == Spec => []ClickOnItsURL
BY Invariant, PTL DEF IInv

(* A task that asynq reports as done wrote its click.                      *)
THEOREM DoneMeansRecorded == Spec => []DoneIsRecorded
BY Invariant, PTL DEF IInv

(* A task is archived only when no retry could help, or none is left.      *)
THEOREM ArchivedMeansHopeless == Spec => []ArchivedWhenHopeless
BY Invariant, PTL DEF IInv

(* Only a lost outcome lets a click be counted twice.                      *)
THEOREM TwiceNeedsLostOutcome == Spec => []TwiceOnlyAfterLostOutcome
<1>1. IInv => TwiceOnlyAfterLostOutcome
  <2> SUFFICES ASSUME IInv, NEW a \in Attempts, NEW b \in Attempts,
                      a[1] = b[1], a[2] < b[2],
                      attempt[a] = "committed", attempt[b] = "committed", a \notin gaveUp
               PROVE  FALSE
    BY DEF TwiceOnlyAfterLostOutcome
  <2>1. a[2] = tries[a[1]] /\ b[2] <= tries[b[1]]
    BY DEF IInv, Seen, Started
  <2>2. a[2] \in Nat /\ b[2] \in Nat
    BY ConstantsAssumption DEF Attempts, MaxTries
  <2> QED BY <2>1, <2>2
<1> QED BY <1>1, Invariant, PTL

(* RecordClick's transaction as a whole: for any number of clicks and URLs. *)
THEOREM ClicksStayCounted == Spec => []ClicksAreCounted
<1>1. IInv => ClicksAreCounted
  BY DEF IInv, ClicksAreCounted
<1> QED BY <1>1, Invariant, PTL

(* Tasks end as HandleRecordClick's outcomes say.                          *)
THEOREM TasksEndAsCaused == Spec => []TasksEndWithCause
<1>1. IInv /\ TwiceOnlyAfterLostOutcome => TasksEndWithCause
  BY DEF IInv, TasksEndWithCause
<1> QED BY <1>1, Invariant, TwiceNeedsLostOutcome, PTL
=============================================================================
