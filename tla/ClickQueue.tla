----------------------------- MODULE ClickQueue -----------------------------
(***************************************************************************)
(* Recording clicks in capstones/url-shortener: a redirect enqueues a task *)
(* that carries the URL's id, the worker runs RecordClick in a transaction *)
(* (internal/tasks/tasks.go, internal/store/store.go, cmd/worker/main.go), *)
(* and owners and the sweep delete URLs meanwhile.                         *)
(*                                                                         *)
(* The queue is asynq, an at-least-once queue modelled from its use here:  *)
(* a task is redelivered when its handler fails, outlives its timeout or   *)
(* its worker dies, and put back when the worker is shut down under it.    *)
(* The handler an attempt leaves behind may still have its COMMIT on the   *)
(* way.                                                                    *)
(***************************************************************************)
EXTENDS Integers, FiniteSets

CONSTANTS
    Clicks,        \* redirects served
    MaxId,         \* bound: URLs ever created
    MaxRetry,      \* asynq.MaxRetry of a click task
    Concurrency,   \* tasks the worker handles at once
    MaxRequeues,   \* bound: tasks put back by a shutdown
    MaxCrashes     \* bound: workers that die

ASSUME ConstantsAssumption ==
    /\ MaxId \in Nat /\ MaxRetry \in Nat
    /\ Concurrency \in Nat \ {0}
    /\ MaxRequeues \in Nat /\ MaxCrashes \in Nat

Ids      == 1..MaxId
MaxTries == 1 + MaxRetry + MaxRequeues
Attempts == Clicks \X (1..MaxTries)

VARIABLES
    url,       \* urls: each id is absent, live, then gone
    count,     \* urls.click_count
    clicks,    \* the clicks table: the attempts that wrote a row, by url
    lock,      \* the row lock of a URL: the attempt that holds it, if any
    task,      \* the queue
    tries,     \* deliveries of each task
    held,      \* whether a worker is waiting for the last delivery
    attempt,   \* the transaction of each delivery
    gaveUp,    \* history: deliveries whose outcome the worker did not see
    faults     \* crashes and requeues so far

vars    == <<url, count, clicks, lock, task, tries, held, attempt, gaveUp, faults>>
dbVars  == <<url, count, clicks>>

UrlStates  == {"absent", "live", "gone"}
TaskStates == {"none", "dropped", "pending", "active", "retry", "done", "archived"}
Task       == [state : TaskStates, url : Ids, retried : 0..MaxRetry, decodes : BOOLEAN]
Steps      == {"none", "begin", "updated", "inserted", "fkError", "committed", "over"}

TypeOK ==
    /\ url \in [Ids -> UrlStates]
    /\ count \in [Ids -> Nat]
    /\ clicks \in [Ids -> SUBSET Attempts]
    /\ lock \in [Ids -> SUBSET Attempts]
    /\ task \in [Clicks -> Task]
    /\ tries \in [Clicks -> 0..MaxTries]
    /\ held \in [Clicks -> BOOLEAN]
    /\ attempt \in [Attempts -> Steps]
    /\ gaveUp \subseteq Attempts
    /\ faults \in [crashes : 0..MaxCrashes, requeues : 0..MaxRequeues]

Init ==
    /\ url = [u \in Ids |-> "absent"]
    /\ count = [u \in Ids |-> 0]
    /\ clicks = [u \in Ids |-> {}]
    /\ lock = [u \in Ids |-> {}]
    /\ \E u \in Ids :
          task = [c \in Clicks |-> [state |-> "none", url |-> u, retried |-> 0, decodes |-> TRUE]]
    /\ tries = [c \in Clicks |-> 0]
    /\ held = [c \in Clicks |-> FALSE]
    /\ attempt = [a \in Attempts |-> "none"]
    /\ gaveUp = {}
    /\ faults = [crashes |-> 0, requeues |-> 0]

-----------------------------------------------------------------------------
(* The API. *)

(* CreateURL: a new row takes the next id; all rows here share one slug. *)
CreateURL(u) ==
    /\ url[u] = "absent"
    /\ \A v \in Ids : v < u => url[v] = "gone"
    /\ url' = [url EXCEPT ![u] = "live"]
    /\ UNCHANGED <<count, clicks, lock, task, tries, held, attempt, gaveUp, faults>>

(* DELETE, by the owner or by DeleteExpired: it waits for the row lock, and *)
(* the clicks go with the row (ON DELETE CASCADE).                          *)
(* The mutant does not wait.                                                *)
DeleteUnlocked(u) ==
    /\ url[u] = "live"
    /\ url' = [url EXCEPT ![u] = "gone"]
    /\ count' = [count EXCEPT ![u] = 0]
    /\ clicks' = [clicks EXCEPT ![u] = {}]
    /\ UNCHANGED <<lock, task, tries, held, attempt, gaveUp, faults>>

DeleteRow(u) ==
    /\ lock[u] = {}
    /\ url[u] = "live"
    /\ url' = [url EXCEPT ![u] = "gone"]
    /\ count' = [count EXCEPT ![u] = 0]
    /\ clicks' = [clicks EXCEPT ![u] = {}]
    /\ UNCHANGED <<lock, task, tries, held, attempt, gaveUp, faults>>

(* enqueueClick.  The id is the one the cache entry held, so its row may be *)
(* gone; a failed enqueue is logged and the click is dropped.               *)
EnqueueClick(c, u, decodes) ==
    /\ task[c].state = "none"
    /\ url[u] # "absent"
    /\ \E state \in {"pending", "dropped"} :
          task' = [task EXCEPT ![c] = [state |-> state, url |-> u, retried |-> 0,
                                       decodes |-> decodes]]
    /\ UNCHANGED <<dbVars, lock, tries, held, attempt, gaveUp, faults>>

-----------------------------------------------------------------------------
(* The queue. *)

Active == {c \in Clicks : held[c]}
Last(c) == <<c, tries[c]>>

(* The worker takes a task and starts its handler. *)
Dispatch(c) ==
    /\ task[c].state = "pending"
    /\ Cardinality(Active) < Concurrency
    /\ tries[c] < MaxTries
    /\ task' = [task EXCEPT ![c].state = "active"]
    /\ tries' = [tries EXCEPT ![c] = @ + 1]
    /\ held' = [held EXCEPT ![c] = TRUE]
    /\ attempt' = [attempt EXCEPT ![<<c, tries[c] + 1>>] = "begin"]
    /\ UNCHANGED <<dbVars, lock, gaveUp, faults>>

(* A task whose attempt failed: retried later, or archived when its retries *)
(* are spent.  The mutants archive one try too soon, and never.             *)
FailedTooSoon(t) ==
    IF t.retried + 1 >= MaxRetry THEN [t EXCEPT !.state = "archived"]
                                 ELSE [t EXCEPT !.state = "retry", !.retried = @ + 1]

FailedForEver(t) == [t EXCEPT !.state = "retry", !.retried = @ + 1]

FailedTask(t) ==
    IF t.retried >= MaxRetry THEN [t EXCEPT !.state = "archived"]
                             ELSE [t EXCEPT !.state = "retry", !.retried = @ + 1]

(* The retry's delay is over. *)
Forward(c) ==
    /\ task[c].state = "retry"
    /\ task' = [task EXCEPT ![c].state = "pending"]
    /\ UNCHANGED <<dbVars, lock, tries, held, attempt, gaveUp, faults>>

(* What is left of the transactions of S when nobody waits for them: one    *)
(* that has sent COMMIT may still commit, the others roll back.             *)
Abandon(S) ==
    LET undone == {a \in S : attempt[a] \notin {"inserted", "committed"}} IN
    /\ attempt' = [a \in Attempts |-> IF a \in undone THEN "over" ELSE attempt[a]]
    /\ lock' = [u \in Ids |-> lock[u] \ undone]
    /\ gaveUp' = gaveUp \cup S

(* asynq.Timeout ends the handler's context, or its connection breaks under *)
(* it: the task counts as failed, whatever becomes of the transaction.      *)
Timeout(c) ==
    /\ held[c]
    /\ task' = [task EXCEPT ![c] = FailedTask(@)]
    /\ held' = [held EXCEPT ![c] = FALSE]
    /\ Abandon({Last(c)})
    /\ UNCHANGED <<dbVars, tries, faults>>

(* Shutdown gives up on a handler after ShutdownTimeout and puts the task back. *)
Requeue(c) ==
    /\ held[c]
    /\ faults.requeues < MaxRequeues
    /\ faults' = [faults EXCEPT !.requeues = @ + 1]
    /\ task' = [task EXCEPT ![c].state = "pending"]
    /\ held' = [held EXCEPT ![c] = FALSE]
    /\ Abandon({Last(c)})
    /\ UNCHANGED <<dbVars, tries>>

(* The worker dies; its tasks stay active until their leases run out. *)
Crash ==
    /\ faults.crashes < MaxCrashes
    /\ Active # {}
    /\ faults' = [faults EXCEPT !.crashes = @ + 1]
    /\ held' = [c \in Clicks |-> FALSE]
    /\ Abandon({Last(c) : c \in Active})
    /\ UNCHANGED <<dbVars, task, tries>>

(* The recoverer of another worker finds an expired lease. *)
Recover(c) ==
    /\ task[c].state = "active"
    /\ ~held[c]
    /\ task' = [task EXCEPT ![c] = FailedTask(@)]
    /\ UNCHANGED <<dbVars, lock, tries, held, attempt, gaveUp, faults>>

-----------------------------------------------------------------------------
(* HandleRecordClick and RecordClick. *)

Step(c, from, to) ==
    /\ held[c] /\ attempt[Last(c)] = from
    /\ attempt' = [attempt EXCEPT ![Last(c)] = to]

(* The handler returns: the task leaves the worker in the given form. *)
Finish(c, t) ==
    /\ task' = [task EXCEPT ![c] = t]
    /\ held' = [held EXCEPT ![c] = FALSE]

(* The row RecordClick updates; the mutant resolves the slug when it runs. *)
TargetBySlug(c) ==
    IF \E u \in Ids : url[u] = "live" THEN CHOOSE u \in Ids : url[u] = "live" ELSE task[c].url

Target(c) == task[c].url

(* A payload that does not decode: SkipRetry. *)
Undecodable(c) ==
    /\ ~task[c].decodes
    /\ Step(c, "begin", "over")
    /\ Finish(c, [task[c] EXCEPT !.state = "archived"])
    /\ UNCHANGED <<dbVars, lock, tries, gaveUp, faults>>

(* UPDATE urls ... WHERE id: it takes the row lock. *)
Update(c) ==
    /\ task[c].decodes
    /\ url[Target(c)] = "live"
    /\ lock[Target(c)] = {}
    /\ Step(c, "begin", "updated")
    /\ lock' = [lock EXCEPT ![Target(c)] = {Last(c)}]
    /\ UNCHANGED <<dbVars, task, tries, held, gaveUp, faults>>

(* No row: the URL is gone, and the task is archived without a retry. *)
NotFound(c) ==
    /\ task[c].decodes
    /\ url[Target(c)] # "live"
    /\ Step(c, "begin", "over")
    /\ Finish(c, [task[c] EXCEPT !.state = "archived"])
    /\ UNCHANGED <<dbVars, lock, tries, gaveUp, faults>>

(* INSERT INTO clicks, whose foreign key needs the row. *)
Insert(c) ==
    /\ Step(c, "updated", IF url[Target(c)] = "live" THEN "inserted" ELSE "fkError")
    /\ UNCHANGED <<dbVars, lock, task, tries, held, gaveUp, faults>>

(* COMMIT, whether or not the handler is still there to see it. *)
CommitRowOnly(a) ==
    /\ attempt[a] = "inserted"
    /\ attempt' = [attempt EXCEPT ![a] = "committed"]
    /\ LET u == Target(a[1]) IN
       /\ clicks' = [clicks EXCEPT ![u] = @ \cup {a}]
       /\ count' = [count EXCEPT ![u] = Cardinality(clicks[u])]
       /\ lock' = [v \in Ids |-> lock[v] \ {a}]
    /\ UNCHANGED <<url, task, tries, held, gaveUp, faults>>

Commit(a) ==
    /\ attempt[a] = "inserted"
    /\ attempt' = [attempt EXCEPT ![a] = "committed"]
    /\ LET u == Target(a[1]) IN
       /\ count' = [count EXCEPT ![u] = @ + 1]
       /\ clicks' = [clicks EXCEPT ![u] = @ \cup {a}]
       /\ lock' = [v \in Ids |-> lock[v] \ {a}]
    /\ UNCHANGED <<url, task, tries, held, gaveUp, faults>>

(* The COMMIT of an abandoned attempt never arrives: the connection closes. *)
RollBack(a) ==
    /\ attempt[a] = "inserted" /\ a \in gaveUp
    /\ attempt' = [attempt EXCEPT ![a] = "over"]
    /\ lock' = [u \in Ids |-> lock[u] \ {a}]
    /\ UNCHANGED <<dbVars, task, tries, held, gaveUp, faults>>

(* RecordClick returns nil.  The mutant reports the task as failed. *)
SucceedAsFailure(c) ==
    /\ held[c] /\ attempt[Last(c)] = "committed"
    /\ Finish(c, FailedTask(task[c]))
    /\ UNCHANGED <<dbVars, lock, tries, attempt, gaveUp, faults>>

Succeed(c) ==
    /\ held[c] /\ attempt[Last(c)] = "committed"
    /\ Finish(c, [task[c] EXCEPT !.state = "done"])
    /\ UNCHANGED <<dbVars, lock, tries, attempt, gaveUp, faults>>

(* A statement fails: the deferred Rollback, and the error goes to asynq.   *)
(* The mutants return nil, and forget the Rollback.                         *)
FailKeepsLock(c) ==
    /\ held[c]
    /\ \E from \in {"begin", "updated", "inserted", "fkError"} : Step(c, from, "over")
    /\ Finish(c, FailedTask(task[c]))
    /\ UNCHANGED <<dbVars, lock, tries, gaveUp, faults>>

FailSwallowed(c) ==
    /\ held[c]
    /\ \E from \in {"begin", "updated", "inserted", "fkError"} : Step(c, from, "over")
    /\ Finish(c, [task[c] EXCEPT !.state = "done"])
    /\ lock' = [u \in Ids |-> lock[u] \ {Last(c)}]
    /\ UNCHANGED <<dbVars, tries, gaveUp, faults>>

Fail(c) ==
    /\ held[c]
    /\ \E from \in {"begin", "updated", "inserted", "fkError"} : Step(c, from, "over")
    /\ Finish(c, FailedTask(task[c]))
    /\ lock' = [u \in Ids |-> lock[u] \ {Last(c)}]
    /\ UNCHANGED <<dbVars, tries, gaveUp, faults>>

-----------------------------------------------------------------------------
Next ==
    \/ \E u \in Ids : CreateURL(u) \/ DeleteRow(u)
    \/ \E c \in Clicks, u \in Ids, decodes \in BOOLEAN : EnqueueClick(c, u, decodes)
    \/ \E c \in Clicks : Dispatch(c) \/ Forward(c) \/ Timeout(c) \/ Requeue(c) \/ Recover(c)
    \/ \E c \in Clicks : Undecodable(c) \/ Update(c) \/ NotFound(c) \/ Insert(c)
                         \/ Succeed(c) \/ Fail(c)
    \/ \E a \in Attempts : Commit(a) \/ RollBack(a)
    \/ Crash

(* The worker keeps polling, its handlers run, the database answers or drops *)
(* a connection, and some worker recovers expired leases.                    *)
Fairness ==
    /\ \A c \in Clicks :
          /\ WF_vars(Dispatch(c)) /\ WF_vars(Forward(c)) /\ WF_vars(Recover(c))
          /\ WF_vars(Undecodable(c) \/ Update(c) \/ NotFound(c) \/ Insert(c) \/ Succeed(c)
                     \/ (held[c] /\ attempt[Last(c)] = "fkError" /\ Fail(c)))
    /\ \A a \in Attempts : WF_vars(Commit(a) \/ RollBack(a))

Spec     == Init /\ [][Next]_vars
FairSpec == Spec /\ Fairness

-----------------------------------------------------------------------------
(* Properties. *)

(* The counter on the row always agrees with the clicks table, the source   *)
(* of truth (RecordClick writes both in one transaction).                   *)
CounterAgrees == \A u \in Ids : count[u] = Cardinality(clicks[u])

(* Deleting a URL never makes a click fail on its foreign key: the UPDATE   *)
(* that comes first finds the row gone, or locks it until the commit.       *)
NoForeignKeyError == \A a \in Attempts : attempt[a] # "fkError"

(* A click lands on the URL that served it, not on a later one that took    *)
(* its slug.                                                                *)
ClickOnItsURL == \A u \in Ids : \A a \in clicks[u] : task[a[1]].url = u

(* A visit is counted twice only when a worker lost sight of an attempt     *)
(* that had written it: a timeout, a shutdown or a crash.                   *)
TwiceOnlyAfterLostOutcome ==
    \A a, b \in Attempts :
        a[1] = b[1] /\ a[2] < b[2] /\ attempt[a] = "committed" /\ attempt[b] = "committed"
        => a \in gaveUp

(* A task asynq reports as done wrote its click.                            *)
DoneIsRecorded ==
    \A c \in Clicks :
        task[c].state = "done" => \E a \in Attempts : a[1] = c /\ attempt[a] = "committed"

(* A task is archived only when no retry could help, or none is left.       *)
ArchivedWhenHopeless ==
    \A c \in Clicks :
        task[c].state = "archived" =>
            \/ task[c].retried = MaxRetry
            \/ ~task[c].decodes
            \/ url[task[c].url] = "gone"

(* Every click that reached the queue is recorded or archived in the end.   *)
EveryClickSettles ==
    \A c \in Clicks : task[c].state = "pending" ~> task[c].state \in {"done", "archived"}

(* RecordClick's transaction: the counter, the foreign key and the URL of   *)
(* every click are right, whatever is deleted and created meanwhile.        *)
ClicksAreCounted == CounterAgrees /\ NoForeignKeyError /\ ClickOnItsURL

(* HandleRecordClick's outcomes: a task is done, archived or run again only *)
(* for its reason.                                                          *)
TasksEndWithCause == TwiceOnlyAfterLostOutcome /\ DoneIsRecorded /\ ArchivedWhenHopeless
=============================================================================
