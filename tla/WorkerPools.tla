----------------------------- MODULE WorkerPools ----------------------------
(***************************************************************************)
(* Two worker pools.  RunPool and RunPoolFailFast of go-concepts/            *)
(* 08-select-and-timeouts: a feeder, workers, a closer and a collector over *)
(* two unbuffered channels; the second cancels the rest at the first        *)
(* failure.  Pool and Collect of testing-concepts/concurrency: workers that *)
(* take jobs from a channel nobody closes and end by another one, Submit    *)
(* that races Close, and results on a bounded channel that a caller drains. *)
(* And the fan-out without workers: All and FirstError of                  *)
(* utilities/aggregate/aggregate.go, where one loop starts a goroutine per  *)
(* source, at most Limit at once, and a source that is never started still  *)
(* gets a result.  The slots of FirstError, and the context that its first  *)
(* error cancels, are errgroup's.                                          *)
(*                                                                         *)
(* What these, a pipeline and a stream of messages owe whoever waits for   *)
(* their results is one property, stated at the end.                       *)
(***************************************************************************)
EXTENDS Pipeline, ChatStream

CONSTANTS
    PoolJobs,      \* how many jobs
    BadJobs,       \* those with a negative input
    PoolWorkers,
    SubmitJobs,    \* 1..n: one Submit each
    CloseWorkers,  \* the goroutines of NewPool
    NumSources,
    FanLimits      \* values of Options.Limit; 0 is no limit

JobOutcomes   == {"done", "failed", "cancelled"}
SourceAnswers == {"value", "error", "context"}

(* RunPool starts the workers it is told to; with none it returns at once. *)
ASSUME PoolAssumption ==
    /\ PoolJobs \in Nat /\ PoolWorkers # {}
    /\ SubmitJobs \subseteq Nat \ {0}
    /\ NumSources \in Nat /\ FanLimits \subseteq Nat
    /\ None \notin Nat \cup JobOutcomes \cup SourceAnswers \cup (Nat \X JobOutcomes)

VARIABLES
    failFast,      \* which of the two functions
    nextJob,       \* the job that the feeder offers
    jobsClosed,
    worker,        \* <<>>, or its job and the outcome
    goneWorkers,   \* the workers that ended
    received,      \* the result in the collector's hands
    poolResults,
    poolError,     \* the job of firstErr
    poolCut        \* the caller's context ended

poolVars == <<failFast, nextJob, jobsClosed, worker, goneWorkers, received, poolResults, poolError, poolCut>>

PoolInit ==
    /\ failFast \in BOOLEAN
    /\ nextJob = 1 /\ jobsClosed = FALSE
    /\ worker = [w \in PoolWorkers |-> <<>>] /\ goneWorkers = {}
    /\ received = None /\ poolResults = <<>>
    /\ poolError = None /\ poolCut = FALSE

(* ctx.Done(): of the caller's context, or of the one that firstErr ends. *)
PoolContextEnded == poolCut \/ poolError # None

PoolReturned == received = None /\ goneWorkers = PoolWorkers
Ready(w) == w \notin goneWorkers /\ worker[w] = <<>>
Finished(w) == worker[w] # <<>> /\ worker[w][2] # None

-----------------------------------------------------------------------------
Feed(w) ==
    /\ ~jobsClosed /\ nextJob <= PoolJobs /\ Ready(w)
    /\ worker' = [worker EXCEPT ![w] = <<nextJob, None>>]
    /\ nextJob' = nextJob + 1
    /\ UNCHANGED <<failFast, jobsClosed, goneWorkers, received, poolResults, poolError, poolCut>>

(* Mutant: the feeder does not select on the context. *)
FeedsAll == nextJob > PoolJobs

(* The feeder is through, or leaves by the context. *)
MayStopFeeding == nextJob > PoolJobs \/ PoolContextEnded

StopFeeding ==
    /\ ~jobsClosed /\ MayStopFeeding
    /\ jobsClosed' = TRUE
    /\ UNCHANGED <<failFast, nextJob, worker, goneWorkers, received, poolResults, poolError, poolCut>>

(* process: a bad input fails at once, the rest end by themselves or by the context. *)
OutcomesOf(j) ==
    IF j \in BadJobs THEN {"failed"} ELSE {"done"} \cup {o \in {"cancelled"} : PoolContextEnded}

RunJob(w) ==
    /\ worker[w] # <<>> /\ ~Finished(w)
    /\ \E o \in OutcomesOf(worker[w][1]) : worker' = [worker EXCEPT ![w][2] = o]
    /\ UNCHANGED <<failFast, nextJob, jobsClosed, goneWorkers, received, poolResults, poolError, poolCut>>

(* A worker's result meets the collector. *)
SendResult(w) ==
    /\ Finished(w) /\ received = None
    /\ received' = worker[w]
    /\ worker' = [worker EXCEPT ![w] = <<>>]
    /\ UNCHANGED <<failFast, nextJob, jobsClosed, goneWorkers, poolResults, poolError, poolCut>>

(* Mutant: a worker ends at a failure, as it does at the end of the context. *)
DropsFailure(w) == PoolContextEnded \/ worker[w][2] = "failed"

(* The select on the context, in which a finished result is lost. *)
MayDrop(w) == PoolContextEnded

DropResult(w) ==
    /\ Finished(w) /\ MayDrop(w)
    /\ worker' = [worker EXCEPT ![w] = <<>>] /\ goneWorkers' = goneWorkers \cup {w}
    /\ UNCHANGED <<failFast, nextJob, jobsClosed, received, poolResults, poolError, poolCut>>

WorkerEnds(w) ==
    /\ Ready(w) /\ jobsClosed
    /\ goneWorkers' = goneWorkers \cup {w}
    /\ UNCHANGED <<failFast, nextJob, jobsClosed, worker, received, poolResults, poolError, poolCut>>

(* Mutant: a cancellation is a cause, too. *)
AnyError(r) == r[2] # "done"

(* A cancellation is a consequence of stopping, not a reason to. *)
IsCause(r) == r[2] = "failed"

Collect ==
    /\ received # None
    /\ poolResults' = Append(poolResults, received)
    /\ poolError' = IF failFast /\ poolError = None /\ IsCause(received) THEN received[1] ELSE poolError
    /\ received' = None
    /\ UNCHANGED <<failFast, nextJob, jobsClosed, worker, goneWorkers, poolCut>>

CutPool ==
    /\ ~poolCut /\ poolCut' = TRUE
    /\ UNCHANGED <<failFast, nextJob, jobsClosed, worker, goneWorkers, received, poolResults, poolError>>

PoolStep ==
    \/ StopFeeding \/ Collect
    \/ \E w \in PoolWorkers : Feed(w) \/ RunJob(w) \/ SendResult(w) \/ DropResult(w) \/ WorkerEnds(w)
PoolNext == PoolStep \/ CutPool
PoolSpec == PoolInit /\ [][PoolNext]_poolVars
PoolFairness == WF_poolVars(PoolStep)

-----------------------------------------------------------------------------
JobsIn(results) == {results[i][1] : i \in DOMAIN results}

(* No job has two results, and a pool that nothing stopped has one of each. *)
EveryJobAccounted ==
    /\ Len(poolResults) = Cardinality(JobsIn(poolResults))
    /\ PoolReturned /\ ~PoolContextEnded => JobsIn(poolResults) = 1..PoolJobs

(* The error of RunPoolFailFast is the first failure among the results, and  *)
(* without one, and with the caller still there, every job has succeeded:    *)
(* the failure of a job is not lost with the results that are dropped.       *)
FirstFailureIsReturned ==
    failFast /\ PoolReturned =>
        /\ poolError # None =>
              \E i \in DOMAIN poolResults :
                  /\ poolResults[i] = <<poolError, "failed">>
                  /\ \A j \in 1..(i - 1) : poolResults[j][2] # "failed"
        /\ poolError = None /\ ~poolCut =>
              \A j \in 1..PoolJobs : \E i \in DOMAIN poolResults : poolResults[i] = <<j, "done">>

(* The pool returns, its feeder gone, whether or not the context ends.      *)
PoolOver == PoolReturned /\ jobsClosed

-----------------------------------------------------------------------------
(* Pool and Collect. *)
VARIABLES
    usage,         \* streaming: its callers race; collect: Collect is the only one
    submit,        \* per job: no, checked, taken, refused
    runner,        \* 0, or the job whose result is due
    ended,         \* the workers that returned
    resultsCh,     \* the buffer of results
    poolClosed, resultsClosed,
    drained,       \* the jobs whose results the caller has read
    submitCut      \* the context of Submit ended

closeVars == <<usage, submit, runner, ended, resultsCh, poolClosed, resultsClosed, drained, submitCut>>

CloseInit ==
    /\ usage \in {"streaming", "collect"}
    /\ submit = [j \in SubmitJobs |-> "no"]
    /\ runner = [w \in CloseWorkers |-> 0] /\ ended = {}
    /\ resultsCh = <<>> /\ poolClosed = FALSE /\ resultsClosed = FALSE
    /\ drained = {} /\ submitCut = FALSE

-----------------------------------------------------------------------------
(* Collect submits one after the other, up to the first that is refused. *)
InTurn(j) == usage = "collect" => ~poolClosed /\ \A i \in SubmitJobs : i < j => submit[i] = "taken"

(* The first select of Submit. *)
CheckOpen(j) ==
    /\ submit[j] = "no" /\ InTurn(j)
    /\ submit' = [submit EXCEPT ![j] = IF poolClosed THEN "refused" ELSE "checked"]
    /\ UNCHANGED <<usage, runner, ended, resultsCh, poolClosed, resultsClosed, drained, submitCut>>

(* The second select meets the one of a worker; either may choose this, closed or not. *)
TakeJob(j, w) ==
    /\ submit[j] = "checked" /\ runner[w] = 0 /\ w \notin ended
    /\ submit' = [submit EXCEPT ![j] = "taken"]
    /\ runner' = [runner EXCEPT ![w] = j]
    /\ UNCHANGED <<usage, ended, resultsCh, poolClosed, resultsClosed, drained, submitCut>>

(* Mutant: a Submit that waits for a worker does not hear of Close. *)
HearsContext == submitCut

(* The cases of the second select in which nobody has taken the job. *)
MayRefuse == poolClosed \/ submitCut

Refuse(j) ==
    /\ submit[j] = "checked" /\ MayRefuse
    /\ submit' = [submit EXCEPT ![j] = "refused"]
    /\ UNCHANGED <<usage, runner, ended, resultsCh, poolClosed, resultsClosed, drained, submitCut>>

(* A worker has run its job; the send waits for room. *)
SendRunResult(w) ==
    /\ runner[w] # 0 /\ Len(resultsCh) < Cardinality(CloseWorkers)
    /\ resultsCh' = Append(resultsCh, runner[w])
    /\ runner' = [runner EXCEPT ![w] = 0]
    /\ UNCHANGED <<usage, submit, ended, poolClosed, resultsClosed, drained, submitCut>>

RunnerEnds(w) ==
    /\ runner[w] = 0 /\ w \notin ended /\ poolClosed
    /\ ended' = ended \cup {w}
    /\ UNCHANGED <<usage, submit, runner, resultsCh, poolClosed, resultsClosed, drained, submitCut>>

(* Close: at any time by a streaming caller, after the last Submit by Collect. *)
ClosePool ==
    /\ ~poolClosed
    /\ usage = "collect" =>
          \/ \A j \in SubmitJobs : submit[j] = "taken"
          \/ \E j \in SubmitJobs : submit[j] = "refused"
    /\ poolClosed' = TRUE
    /\ UNCHANGED <<usage, submit, runner, ended, resultsCh, resultsClosed, drained, submitCut>>

(* Mutant: Close does not wait for the workers. *)
NobodyWaitedFor == TRUE

WaitIsOver == ended = CloseWorkers

CloseResults ==
    /\ poolClosed /\ ~resultsClosed /\ WaitIsOver
    /\ resultsClosed' = TRUE
    /\ UNCHANGED <<usage, submit, runner, ended, resultsCh, poolClosed, drained, submitCut>>

Drain ==
    /\ resultsCh # <<>>
    /\ drained' = drained \cup {Head(resultsCh)}
    /\ resultsCh' = Tail(resultsCh)
    /\ UNCHANGED <<usage, submit, runner, ended, poolClosed, resultsClosed, submitCut>>

CutSubmit ==
    /\ ~submitCut /\ submitCut' = TRUE
    /\ UNCHANGED <<usage, submit, runner, ended, resultsCh, poolClosed, resultsClosed, drained>>

CloseStep ==
    \/ Drain \/ CloseResults \/ (usage = "collect" /\ ClosePool)
    \/ \E w \in CloseWorkers : SendRunResult(w) \/ RunnerEnds(w)
    \/ \E j \in SubmitJobs : Refuse(j) \/ (usage = "collect" /\ CheckOpen(j)) \/ \E w \in CloseWorkers : TakeJob(j, w)
CloseNext == CloseStep \/ ClosePool \/ CutSubmit \/ \E j \in SubmitJobs : CheckOpen(j)
CloseSpec == CloseInit /\ [][CloseNext]_closeVars
CloseFairness == WF_closeVars(CloseStep)

-----------------------------------------------------------------------------
InBuffer == {resultsCh[i] : i \in DOMAIN resultsCh}

(* A Submit that returned nil handed its job to a worker that runs it before *)
(* Close returns: its result is read or to be read when results is closed,   *)
(* nobody is left to send on it (a panic), and a refused job never ran.      *)
TakenIsRun ==
    /\ resultsClosed => \A j \in SubmitJobs : submit[j] = "taken" => j \in drained \cup InBuffer
    /\ resultsClosed => \A w \in CloseWorkers : runner[w] = 0
    /\ \A j \in drained \cup InBuffer : submit[j] = "taken"

(* A call of Submit returns once the pool is closed, and Close returns, for  *)
(* a caller that drains; Collect returns with nothing of the pool left.      *)
CloseOver ==
    /\ poolClosed => resultsClosed /\ resultsCh = <<>> /\ \A j \in SubmitJobs : submit[j] # "checked"
    /\ usage = "collect" => resultsClosed

-----------------------------------------------------------------------------
(* All and FirstError. *)

FanSources == 1..NumSources

VARIABLES
    policyOf,     \* All or FirstError
    limit,
    at,           \* the source the loop is on
    fetcher,      \* the goroutine of each source: none, started, fetching, over
    slots,        \* sources that hold a slot
    results,      \* per source: value, error, or context
    firstError,   \* what errgroup keeps
    fanCancelled, \* the caller's context ended, or its timeout
    fanReturned

fanVars == <<policyOf, limit, at, fetcher, slots, results, firstError, fanCancelled, fanReturned>>

FanInit ==
    /\ policyOf \in {"All", "FirstError"} /\ limit \in FanLimits
    /\ at = 1
    /\ fetcher = [i \in FanSources |-> "none"]
    /\ slots = {}
    /\ results = [i \in FanSources |-> None]
    /\ firstError = None /\ fanCancelled = FALSE /\ fanReturned = FALSE

-----------------------------------------------------------------------------
(* ctx.Err(): in FirstError the derived context's. *)
ContextEnded == fanCancelled \/ firstError # None

(* Mutant: a goroutine takes its slot itself. *)
SlotInside == TRUE

SlotFree == limit = 0 \/ Cardinality(slots) < limit

(* The loop gets a slot, and starts the goroutine. *)
StartFetcher ==
    /\ at \in FanSources /\ SlotFree
    /\ fetcher' = [fetcher EXCEPT ![at] = "started"]
    /\ slots' = slots \cup {at}
    /\ at' = at + 1
    /\ UNCHANGED <<policyOf, limit, results, firstError, fanCancelled, fanReturned>>

(* Mutant: the loop ends instead, and the rest have no result. *)
SkipRest ==
    /\ policyOf = "All" /\ limit > 0 /\ at \in FanSources /\ ContextEnded
    /\ at' = NumSources + 1
    /\ UNCHANGED <<policyOf, limit, fetcher, slots, results, firstError, fanCancelled, fanReturned>>

(* All stops waiting for a slot when the context ends. *)
SkipSource ==
    /\ policyOf = "All" /\ limit > 0 /\ at \in FanSources /\ ContextEnded
    /\ results' = [results EXCEPT ![at] = "context"]
    /\ at' = at + 1
    /\ UNCHANGED <<policyOf, limit, fetcher, slots, firstError, fanCancelled, fanReturned>>

(* Mutant: the last error is kept. *)
KeepLast(r) == firstError' = IF policyOf = "FirstError" /\ r # "value" THEN r ELSE firstError

Keep(r) ==
    firstError' = IF policyOf = "FirstError" /\ r # "value" /\ firstError = None THEN r ELSE firstError

(* Mutant: a failed fetch keeps its slot. *)
ReleaseOnSuccess(i, r) == slots' = IF r = "error" THEN slots ELSE slots \ {i}

ReleaseSlot(i, r) == slots' = slots \ {i}

FetcherEnds(i, r) ==
    /\ fetcher' = [fetcher EXCEPT ![i] = "over"]
    /\ results' = [results EXCEPT ![i] = r]
    /\ ReleaseSlot(i, r)
    /\ Keep(r)
    /\ UNCHANGED <<policyOf, limit, at, fanCancelled, fanReturned>>

(* The goroutine looks at the context before it fetches. *)
Check(i) ==
    /\ fetcher[i] = "started"
    /\ IF ContextEnded
       THEN FetcherEnds(i, "context")
       ELSE /\ fetcher' = [fetcher EXCEPT ![i] = "fetching"]
            /\ UNCHANGED <<policyOf, limit, at, slots, results, firstError, fanCancelled, fanReturned>>

(* Fetch returns; it heeds its context. *)
FetchReturns(i) ==
    /\ fetcher[i] = "fetching"
    /\ \E r \in {"value", "error"} \cup (IF ContextEnded THEN {"context"} ELSE {}) :
           FetcherEnds(i, r)

(* Wait returns when every goroutine has. *)
ReturnResults ==
    /\ ~fanReturned /\ at > NumSources /\ \A i \in FanSources : fetcher[i] \in {"none", "over"}
    /\ fanReturned' = TRUE
    /\ UNCHANGED <<policyOf, limit, at, fetcher, slots, results, firstError, fanCancelled>>

CancelFan ==
    /\ ~fanCancelled /\ ~fanReturned
    /\ fanCancelled' = TRUE
    /\ UNCHANGED <<policyOf, limit, at, fetcher, slots, results, firstError, fanReturned>>

FanStep == StartFetcher \/ SkipSource \/ ReturnResults \/ \E i \in FanSources : Check(i) \/ FetchReturns(i)
FanNext == FanStep \/ CancelFan
FanSpec == FanInit /\ [][FanNext]_fanVars

(* Goroutines run, and fetches return. *)
FanFairness == WF_fanVars(FanStep)

-----------------------------------------------------------------------------
(* Properties. *)

(* The limit bounds goroutines, not only fetches. *)
GoroutinesBounded ==
    limit > 0 => Cardinality({i \in FanSources : fetcher[i] \in {"started", "fetching"}}) <= limit

(* Every source has a result when the call returns, those that never got a  *)
(* slot too; and a value or an error only if it was fetched.               *)
EverySourceHasResult ==
    fanReturned => \A i \in FanSources :
        /\ results[i] # None
        /\ fetcher[i] = "none" => results[i] = "context"

(* The error that FirstError returns is the one that failed the rest: the  *)
(* context's only if the caller's context ended.                           *)
CauseIsReturned ==
    /\ firstError = "context" => fanCancelled
    /\ fanReturned /\ policyOf = "FirstError" /\ firstError = None =>
          \A i \in FanSources : results[i] = "value"

(* The call returns, whatever fails and whenever the context ends. *)
FanOutOver == fanReturned

(* A pipeline, a fan-out, a pool or a stream that ran to its end has a       *)
(* result for everything that it was given, within its bound of goroutines. *)
ResultsAreComplete ==
    /\ CompleteUnlessCut /\ GoroutinesBounded /\ EverySourceHasResult /\ CauseIsReturned
    /\ EveryJobAccounted /\ FirstFailureIsReturned /\ TakenIsRun /\ EchoedInOrder
=============================================================================
