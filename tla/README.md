# A verification of learn-go's services

learn-go teaches backend engineering with Go: lessons, data structures, concept modules and
two services, `capstones/url-shortener` and `capstones/bookmark-manager`. The services are the
programs of the repository: they have users, processes, a database, a cache and a queue, and
their comments make promises about what happens when those overlap or fail. This project
states the promises in TLA+, checks them with TLC on small instances and proves the most
important ones with TLAPS for every instance.

Paths below are relative to the repository's root.

## 1. Inventory

### The services

| Part | State | Operations | Talks to |
|---|---|---|---|
| **Redirect cache** `url-shortener/internal/cache/cache.go`, `internal/api/api.go` | Redis entries (positive, negative), one flight per slug and process | `Get`, `Lookup`, `Put`, `Delete`; `handleRedirect`, `handleCreateURL`, `handleDeleteURL` | Redis, Postgres |
| **Click recording** `internal/tasks`, `cmd/worker`, `store.RecordClick` | asynq tasks, `urls.click_count`, `clicks`, row locks | enqueue, `HandleRecordClick`, `RecordClick`, retries, shutdown | asynq (Redis), Postgres |
| **Limiter** `internal/ratelimit/ratelimit.go` (the same file in both services) | one sorted set and expiry per key | `Allow` (a Lua script), `Reset` | Redis |
| **Refresh tokens** `bookmark-manager/internal/api/api.go`, `internal/store/store.go` | `refresh_tokens`, the connections of the pool | login, `handleRefresh`, `RotateRefreshToken`, `RevokeFamily`, `handleLogout`, `DeleteExpiredTokens` | Postgres |
| **Create path and slugs** `store.CreateURL`, `internal/shortener` | `urls_id_seq`, the unique index on slugs | custom and generated slugs, the savepoint retry | Postgres |
| **Credential gate** `internal/api/ratelimit.go`, login | the limiter's buckets | endpoint-wide and per-account limit, reset after a login | the limiter |
| **Bookmarks, tags, categories** `bookmark-manager/internal/store/store.go` | five tables with owner keys | `CreateBookmark`, `EnsureTags`, deletes, listings, search | Postgres |
| **Sweeps** `cmd/worker/main.go`, `bookmark-manager/cmd/api/main.go` | a cron entry, asynq's Unique lock; a ticker per replica | `DeleteExpired`, `DeleteExpiredTokens` | Postgres |
| **Listings** `URLsByUser`, `ListTwoQueries`, `BookmarksByTag` | a cursor held by the client | one page per request | Postgres |
| **Start and stop** `cmd/api/main.go` of both services, `cmd/worker/main.go` | what `run` opened, the listener, the pool, a sweeper goroutine | opening, signals, `Shutdown`, deferred closes | the Go runtime, Postgres, Redis |
| **Auth, configuration** | none of their own | JWT, bcrypt, environment, wiring | libraries |

How they interact: a redirect reads the cache, falls through to the database once per process
and slug, and enqueues a click that carries the row's id. The worker takes clicks from the queue
and writes them in a transaction. Creates and deletes change Postgres first and the cache
afterwards; the sweep changes Postgres only. In the bookmark manager a client exchanges its
refresh token for a new pair; the exchange, a replay's revocation, a logout and the sweep meet
on the rows of one table and on the connections of one pool.

### The lessons and the structures

Around the services stand lessons and structures. Those that run several goroutines, transactions or
deliveries, or keep an invariant over a long sequence of calls, are modelled as well:

| Part | State | Operations |
|---|---|---|
| **Data loader** `graphql-concepts/dataloader` | futures, the batch being collected, a timer | `Load`, `LoadMany`, `Prime`, the timer's callback, `run` |
| **Pipeline** `utilities/pipeline` | goroutines and unbuffered channels | `Generate`, `Filter`, `Square`, `FanIn`, `Collect`, `Records`, `Transform`, `Load` |
| **Fan-out** `utilities/aggregate` | a bounded set of goroutines, results by index | `All`, `FirstError` |
| **Webhooks** `backend-concepts/webhooks` | a map of event ids and times | `Seen`, `Forget`, the handler around them |
| **Messaging** `backend-concepts/messaging` | offsets, a set of processed ids | `Run` in two commit modes, `Idempotent` |
| **WebSockets** `backend-concepts/websockets` | the hub's set, a bounded queue per connection | `Broadcast`, `Send`, both loops, `Run`, `Close`, pings |
| **In-process limiters** `backend-concepts/ratelimit` | counters, logs, buckets per key | `Allow` of four algorithms, sweeps |
| **Transactions** `database-concepts/transactions` | balances, row locks | three `Transfer`s inside `Retry` and `WithTx` |
| **Worker pools** `go-concepts/08-select-and-timeouts`, `testing-concepts/concurrency` | goroutines, unbuffered and bounded channels, a first error | `RunPool`, `RunPoolFailFast`; `Submit`, `Close`, `Collect` |
| **Chat stream** `grpc-concepts/server` | a reader goroutine, a channel, the stream | `Chat.Join` in both modes |
| **Signing keys** `backend-concepts/jwtauth` | a map of keys by kid and the active one, in each process | `Mint`, the look-up of `Verify`, `AddVerifyKey`, `Rotate`, `RemoveVerifyKey` |
| **Structures** `dsa/redblack`, `bst`, `hashmap`, `queue`, `graph`, `patterns/unionfind` | a tree, a table, a buffer, lists | every call that changes them, and their lookups |
| **Algorithms** `dsa/sorting`, `searching`, `patterns/*` | none | functions of one argument |

`go-concepts`, the other concept modules, clients of external services and generated code have the
reasons in section 5.

### What is hard

- **Two writes without one transaction.** Postgres and then Redis, in both orders of failure; a
  cache fill that read before the write and lands after it.
- **At-least-once work.** A click's handler may commit and its worker never learn of it.
- **Clocks.** The limiter reads the clock in the caller and uses it later, in Redis.
- **Rows that race.** Two exchanges of a token, an exchange against a revocation, a delete against
  a click: what READ COMMITTED and row locks do decide.
- **A resource held while another is asked for.** A transaction that takes a second connection.
- **Collapsed work.** Callers that wait for a fetch somebody else started, and may have left.
- **Unique keys.** An INSERT waits for a transaction that has the same key, and means something else
  depending on how that one ends; two such waits can form a cycle.
- **Schedules and replicas.** Every replica fires the same nightly job, and may be stopped in it.
- **Stopping.** Things are closed in an order, while requests and a goroutine still use them.
- **Goroutines that must end.** Whoever sends to somebody who stopped listening has to be let out.
- **Long sequences.** A tree or a table that is right after every call a test makes, and must be after any.

### What makes each part correct

- *Redirect cache*: how long a deleted link can be followed and a created one denied; no entry
  outlives its link; everyone who waits is answered.
- *Click recording*: the counter is the number of rows; a click lands on its own URL, is lost only
  when nothing could save it, and is doubled only when an outcome was lost.
- *Limiter*: the limit over every window, bounded memory, keys that expire, a Retry-After that works.
- *Refresh tokens*: a token has one successor; a session has one token to exchange; what is revoked
  stays revoked; a refusal has a cause in the client's own session.
- *Data loader*: a key is fetched once and has one outcome for all its callers; what is collected is run,
  in batches that fit; everyone is answered, when the batch panics or others leave too.
- *Create path*: slugs are unique, who asked for none is refused only after its attempts, everyone is told
  what it got.
- *Credential gate*: no more password checks than the limits allow, and nobody limited without cause.
- *Bookmarks*: a bookmark with all its tags or none, once, nobody's rows under another's name.
- *Listings*: every row that stood through all the pages is on one of them, in order.
- *Sweep*: one unfinished sweep a night however many replicas fire, and an expired link goes some night.
- *Start and stop*: what is in use is not closed, no call is cut that had the time to end, and the process ends.
- *Signing keys*: a token verifies in every process until it expires, whatever is rotated meanwhile.
- *Lessons*: every goroutine ends; nothing is lost, done twice or dropped without the reason the code gives.
- *Structures and algorithms*: after every call, and on every input, what the data stands for.

`PROJECT.json` lists every component with its status, and every hazard at its line with the
properties that cover it or the reason why none does yet.

## 2. Modules

| Module | Models | Run |
|---|---|---|
| `RedirectCache` | the redirect path, and the creates, deletes and sweeps that race it | `redirect_cache`, `progress` |
| `RedirectReads` | `RedirectCache` with a history of cache deletes | `stale_after_delete` |
| `ClickQueue` | enqueue, queue, worker and `RecordClick` | `click_queue` |
| `RefreshTokens` | the refresh token protocol over the connection pool | `refresh_tokens`, `progress`, `reuse_misses_rotation`, `loser_never_answered` |
| `DataLoader`, `ReadOnce` | the request-scoped loader, and what a loader promises | `lessons` |
| `SlidingWindow` | the limiter and its script | `services`, `late_call_over_limit` |
| `SlugAllocation`, `SlugDirectory` | creating a link, and what creating one promises | `services`, `progress` |
| `CredentialGate` | register and login behind two limiters | `services` |
| `BookmarkTags` | saving bookmarks with tags and categories | `services`, `progress` |
| `KeysetPages` | listings read page by page | `services` |
| `SweepSchedule` | the nightly sweep of all replicas | `services`, `progress` |
| `ServiceRun` | starting and stopping the three processes | `services`, `progress`, `failed_listener`, `second_signal` |
| `KeyRotation` | minting and verifying while keys are rotated in several processes | `services` |
| `Pipeline`, `WebhookDelivery`, `Consumer`, `WebSockets`, `LocalLimiters`, `Transfers`, `WorkerPools`, `ChatStream` | the concurrent lessons | `lessons` |
| `SearchTrees`, `OpenAddressing`, `RingQueue`, `GraphWalks` | structures under any sequence of calls | `lessons` |
| `SortedSlices`, `AnswerSearch`, `Heaps`, `IntervalSets`, `OnePassScans`, `ChoiceProblems` | algorithms on every input up to a bound (`InputSequence` grows it) | `lessons` |
| `LessonSteps` | `AnswerSearch`, `WebhookDelivery`, `OpenAddressing` and `RingQueue` beside each other, for what is said and proved of several of them | `lessons` |
| `MCServices`, `MCLessons` | several modules beside each other | `services`, `progress`; `lessons` |
| `RedirectCacheProofs`, `ClickQueueProofs`, `RefreshTokensProofs` | theorems about the module of that name | proofs |
| `LimiterProofs` | theorems about `SlidingWindow` and `CredentialGate` | proofs |
| `StoreProofs` | theorems about `SlugAllocation`, `BookmarkTags` and `KeysetPages` | proofs |
| `ScheduleProofs` | theorems about `KeyRotation`, `SweepSchedule` and `ServiceRun`, and about the composition in `MCServices` | proofs |
| `ResultProofs` | theorems about `DataLoader`, `Pipeline`, `WorkerPools` and `ChatStream` | proofs |
| `LessonProofs` | theorems about `AnswerSearch`, `WebhookDelivery`, `Consumer`, `Transfers`, `WebSockets`, `LocalLimiters`, `OpenAddressing` and `RingQueue` | proofs |

`NoValue` declares `None`, the absent value that modules checked together share. `WorkerPools` extends `Pipeline` and `ChatStream` to state
`ResultsAreComplete`, which is about all three.

**Several modules in one run.** Parts that share no state are checked in one run: an initial state picks
the `part` that moves and the others keep one fixed initial state, so the state space is the disjoint union
of the parts' own and nothing is gained or lost by the company. `Parts` in a `.cfg` says which take part.
Where a property has a `Given`, it says so of its own part; the fairness of each part is named in the composing module.

**Properties as conjunctions.** A property of a run that says several things is a conjunction of named parts,
defined after them in the component's module (`ClicksAreCounted`, `SessionsHaveOneToken`, ...) or, when its
parts are in several modules, in the composing one (`StructuresHold`, `RequestsAnswered`, ...). Each part has its
comment; the tables below name the parts.

**Mutants.** Next to some definitions stands a second one, named in its comment as a mutant: the same step
with a plausible bug. It is never part of a specification; with it in place of the original the property it
belongs to is violated, which is how the properties were tested. `PROJECT.json` lists, for a conjunction, mutants
that break its parts one at a time.

Each mapped definition has its lines in `PROJECT.json`.

### RedirectCache

State: `rows`, `lastId`, `expiresAt` are the `urls` table, `cache` is Redis, `flights` is the
singleflight group of each process, `reqs` the handlers, `pending` the handlers between their
commit and their cache delete; `createdAt` and `deletedAt` are history. One action per round trip:
`Get` reads Redis (an error falls through like a miss), `DropGarbled` deletes a value that does not
decode, `Join` is `DoChan`, `Fetch`, `Put` and `Set` are the shared fetch with its two deadlines,
`Finish` hands its result to every waiter, `Answer` is the tail of `handleRedirect`. `Create` and
`DeleteURL` end at the commit; `ClearKey` is the cache delete that follows, `ClearKeyFails` the
failure that is logged. A link's slug, target and expiry never change, so an id stands for all
three. All machines share a clock; how late a step may run is bounded by the code's own timeouts
(`LoadTimeout`, `PutTimeout`). Hit counters are left out.

### SlidingWindow

`Arrive` is `Allow` up to the script call: it reads the caller's clock, off by at most `SkewBehind`
or `SkewAhead`, and draws a member nobody else has. `Run` is the script, one atomic step of Redis,
at most `MaxDelay` later. A reply that is lost after the script ran is a `Run` whose answer nobody
reads. `Lost` is a call that fails before. `Reset` is the DEL after a login, `Tick` passes time and
expires keys. Times are integers, as in the script. `ResetIn` is what the script returns; what a client is told of it
is `RetryAfter`, where `refuse` adds 0.999 s and truncates to whole seconds, with `Second` instants to a second and `RoundUp` of them to the 0.999 s.
Limit and Remaining of a decision and the header RateLimit-Reset, which nobody acts on, are left out, and so is the rounding of the
floating-point sum.

### ClickQueue

`task`, `tries` and `held` are the queue as the code sees it: asynq redelivers a task whose handler
failed, ran out of time or lost its worker, and a shutdown puts an active one back. asynq cancels the
handler's context when it gives up, so of an abandoned transaction only a COMMIT that is on its way
can still take effect (`Abandon`, `Commit`, `RollBack`). `Timeout` also covers a broken connection.
The transaction is `Update` (which takes the row lock, or finds the row gone), `Insert` and `Commit`;
`DeleteRow` waits for the lock, takes the clicks with the row (ON DELETE CASCADE), and is the owner's
delete and the sweep's. All rows share one slug, which is deleted and created again. The module states
that the worker stops counting an abandoned handler against `Concurrency`, as asynq does.

### RefreshTokens

`token` is the table; a family is named by its first token. A handler is one record: `consume`,
`insert` and `commit` are `RotateRefreshToken`, `lookup` is the `RefreshTokenByHash` inside its
transaction, `reuse`, `revoke` and `revoking` the reuse branch of `handleRefresh`, `logout` the
UPDATE of `RevokeToken`. An UPDATE works on the rows of its snapshot, waits for the rows a rotation
holds (`Holds`) and asks its condition again. `RevokeFamily` takes its snapshot (`Chain`) and commits
when no row of it is held; Postgres locks the rows one after the other, and two bulk statements that
deadlock on the way end as `RevokeFails`. `InUse` counts connections: one for an open transaction and
one for an UPDATE that waits; statements that finish at once only need one to be free. A client that
leaves is `Fail`; while its COMMIT is on its way its handler stays busy. Every operation's failure the
code swallows is there (`LookupFails`, `RevokeFails`). `presented`, `loggedOut` and `dead` are history.
A handler forgets the instants and ids it no longer reads, and a swept row goes with its marks.
Past the bound on ids an INSERT fails, as it may anyway. `Stride` is how many units the clock moves at
once: with more than one, the time it takes for the sweep to be due is reached within few instants.

### DataLoader

What `Load` does between Lock and Unlock is one step: `Hit` finds the key in the cache, `Miss` makes its
future and puts it into `pending`. The caller that fills the batch takes it and runs it (`pc` is
"running"); otherwise a timer is armed if there is none. `Fire` is the timer going off, `Callback` its
function getting the mutex: in between, another caller may fill and take the batch, and then the callback,
which Stop does not stop, takes the next one early. `callbacks` counts those on their way. `Return` is the
batch function's map, error or panic, `Close` one turn of the loop in `run`, `Receive` and `Leave` the
select in `Load`. `LoadMany` starts the goroutines of `Group` together. A caller that runs a batch cannot
leave before the batch is over, its context notwithstanding; that is as in the code. The abstract
specification `ReadOnce` has no batches: a key is settled once, and who asked for it gets that outcome or
gives up. The mapping takes a key's outcome to be there when its future is closed.

### SlugAllocation

`Ask` is the handler up to the transaction, with a custom slug or none. A generated slug is
`(id * Multiplier) % Modulus`, as `Obfuscate` maps ids to slugs; the assumption is what its modular inverse
gives the code, that different ids get different slugs. `Reserve` takes an id that no rollback gives back.
An INSERT whose slug is in a row of an open transaction waits for that transaction, and then is either in
or meets a committed row, which for a generated slug costs one of `Attempts` and rolls back to the savepoint (`Insert`, `Taken`). `Abort` is
a client that leaves or a connection that breaks. The abstract specification, `SlugDirectory`, knows neither
ids nor transactions: a slug has one owner at a time, a request gets at most one slug, and what it is told
agrees. `ImplementsDirectory` is that refinement.

### CredentialGate

A request enters the endpoint-wide bucket (`Enter`), then that of its account (`LimitAccount`), then runs
bcrypt: `Verify` for a login, `Register` for a new account, against the row of `users` that is there then. `ClearAccount` is
the reset after a login. Both buckets are the script of `SlidingWindow` without its delay; any call may find
Redis down, which refuses at the gate and is ignored at the reset.

### BookmarkTags

`SaveStep` walks `CreateBookmark`: the category check of the composite key, the INSERT of the names in the order of `unnest`
(`todo`), one at a time, each waiting for an open transaction with the same name; the SELECT that follows, on
a new snapshot (`found`); the bookmark with its unique URL; the links; the commit. A cycle of waits costs one of
its transactions its life, which is Postgres's deadlock detector. `DeleteBookmark`, `CreateCategory` and `DeleteCategory` run beside it;
ON DELETE SET NULL is part of the last.

### KeysetPages

A writer's row gets `created_at` when its transaction begins and its id when the INSERT runs, and appears at the
commit, so rows appear in an order that neither follows. `ReadPage` is one request of a client that follows `next`. `standing`
is history: the rows that were there at the first page and still are.

### SweepSchedule

`Fire` is one replica's scheduler: it enqueues the sweep unless the Unique lock is held. The task runs on some replica
(`Take`, `HandleSweepExpired`), may fail and be retried (`HandleSweepFails`), is archived after `MaxSweepRetry` and then leaves the lock to its timeout, as asynq does; a replica that
stops puts its task back. The clock is the tick of the day and wraps around, so the run needs no last day.

### ServiceRun

`OpenOrder` is what `run` opens of each program, one after the other, and its reverse is what its deferred calls close. `Signal` is
SIGINT or SIGTERM, which `NotifyContext` takes until its stop is called; `HearSignal` and `HearFailure` are the select of `run`,
`ShutdownReturns` and `ShutdownGivesUp` the two ends of a drain. A call takes a connection (`AskDatabase`) and uses the cache or the
queue (`Answer`); the sweeper of bookmark-manager runs beside them. `Closed` says which closes block: the wait for the sweeper, and
the pool's for the connections in use. What the libraries promise is external and stated at the head of the module. A tick of the
sweeper cannot come after the context's end, except one that is there already: an hour lies between two.

### KeyRotation

`BeginMint`, `ReadKey` and `Sign` are the three moments of `Mint`: it reads the clock for the claims, then the kid and
the key under one lock, then signs, and may be suspended in between. An operator rotates as the comments tell it to: a key is
in every process's map (`AddVerifyKey`) before one signs with it (`Rotate`), and is removed (`RemoveVerifyKey`) once TTL has
passed since the last process left it (`Unused`). Tokens do not meet, so one stands for all. The processes share a clock.

### The lessons

- `Pipeline`: a goroutine is its program counter and what its select is sending; a send and its receive are one
  step. Two pipelines (`job`) have between them all the stages; `StopReading` is a consumer that returns, `Cancel` its context.
- `WorkerPools`, `All` and `FirstError`: the loop that takes a slot and starts a goroutine, for both policies and limits from unbounded to two.
- `WebhookDelivery`: `Deliver` reads the clock before the mutex, as `Deduper.Seen` does, and the rest of `Seen` is one step under it; `Process`,
  outside of it, succeeds, returns an error (then `Fail` is `Forget`) or panics, which net/http recovers without a `Forget`. A sender delivers an
  event again whenever it likes, the map is swept every so often, and a process may die and forget it all. `panicked`, `outwaited` and `overran` are history.
- `Consumer`: two loops on two partitions share one `Idempotent`. `CommitFails`, `WorkFails`, `CrashConsumer` and `Shutdown` are
  the faults; what a broker delivers after each is what its committed offset says.
- `WebSockets`: broadcasters under the read lock, a queue of `SendBuffer`, three policies, and a connection's writer, reader and
  `Run`, over a peer that may be stuck. With a `SendBuffer` of 0 a send meets the writer in its select or finds no room (`MayPark`).
  Closing takes time: `closed` is when `Close` has closed the channel, `shut` when the handshake that follows is over, and whoever called `Close`
  (`CloseReturns` of a broadcaster, `RunReturns`) waits for that. Below them, with state of its own, one connection's clock: ticks, pings and deadlines;
  the select may prefer a write to a tick that is ready as often as it likes, and `overtaken` counts how often it did.
- `LocalLimiters`: each call reads the clock, then takes the mutex, so calls are decided in another order than their times.
- `Transfers`: three styles of locking, row locks, a deadlock detector, and retries.
- `WorkerPools`, the pools: feeder, workers, closer and collector of `RunPool` and `RunPoolFailFast`, where jobs fail and the context ends;
  and `Pool`, whose `Submit` races `Close` over a channel that nobody closes, with `Collect` draining it.
- `ChatStream`: the reader, the channel of `Incoming` and the handler's own writes, against a client that sends ahead or waits for each
  echo, over a stream that may break at any time. A broken stream fails Recv and Send and ends the context.

### The structures and algorithms

A structure is a variable that the calls of the code change, beside the value a caller has in mind (`rbMap`, `hashMap`,
`line`), and the properties relate the two after every call. Hash functions are inputs, one that collides always among them.
A probe of `OpenAddressing` is given by the rounds it comes to (`Rounds`, `FreeRounds`): it stops where the chain ends or the key is, and
a resize (`Rehashed`) lets every key probe again, in slot order. `MatchAll` of `RingQueue` takes one turn of its loop a step, from the call (`arrived` remembers the line)
to `MatchReturn`; nobody else has the queue meanwhile.
An algorithm is an operator or function over `input`, which `InputSequence` grows, so that a state is an input; its property
compares it with a definition by quantifiers. A graph grows and shrinks by edges, so that the walks and the disjoint sets of
`GraphWalks` meet every graph within their bounds, with the order of neighbours that its history left. Where an algorithm takes
two slices, `ChoiceProblems` gives it the cuts of the input (and, for edit distances, short rotations of it). `AnswerSearch` is a loop, one turn a step, over
ints that wrap.

## 3. What the runs check

| Run | Checks | Shows |
|---|---|---|
| `redirect_cache` | `StaleEntriesEnd`: `DeadLinkEnds`, `NegativeEnds`, `EntryEndsWithLink`, `WaiterHasFlight` | A deleted link is followed for at most one TTL plus the time of one fetch, even when every cache delete is lost; a negative entry for at most its own TTL plus that; an entry ends with its link |
| `stale_after_delete` | `NextReadFresh` **violated** | "A delete makes the next reader fetch, which cannot be stale" is not so: a fetch that raced the delete stores the dead link after it |
| `late_call_over_limit` | `ExactWindow` **violated** | "The limit holds over every window position" fails once a script runs later than one with a later clock |
| `click_queue` | `ClicksAreCounted`: `CounterAgrees`, `NoForeignKeyError`, `ClickOnItsURL`; `TasksEndWithCause`: `TwiceOnlyAfterLostOutcome`, `DoneIsRecorded`, `ArchivedWhenHopeless`; `EveryClickSettles` | Clicks through timeouts, a shutdown and a crash, while URLs come and go; every queued click is recorded or archived in the end |
| `refresh_tokens` | `SessionsHaveOneToken`: `OneSuccessor`, `OneActivePerFamily`, `DeadStaysDead`; `RefusedForCause`, `RevokedNeverUsed` | Two handlers refresh, replay and log out tokens of two logins while statements fail and the sweep deletes what expired |
| `reuse_misses_rotation` | `ReuseEndsChain` **violated** | "Every session in its chain has been revoked" is told while a rotation's successor, outside the UPDATE's snapshot, lives on |
| `loser_never_answered` | `LoserIsAnswered` **violated** | As many losers as the pool has connections hold all of them in transactions and wait for one more each |
| `failed_listener` | `FailedListenerEnds` **violated** | "Every defer in run actually runs", but when bookmark-manager cannot listen, the wait for its sweeper runs before the stop that would end it, and the process stays |
| `second_signal` | `SecondSignalKills` **violated** | "A SECOND signal kills the process", but until `run` returns `NotifyContext` takes every signal, and a second one does nothing |
| `services` | `LimitHolds`: `WindowBound`, `BucketAtMostLimit`, `IdleKeyExpires`, `ResetInExact`, `RetryAfterClose` | With late scripts and skewed clocks the limit holds over windows shortened by the delay and the skew, in bounded memory; `ResetIn` is exact, and Retry-After, in whole seconds, is short by less than a millisecond and long by less than a second |
| | `ImplementsDirectory`; `SlugsAreAllocated`: `IdNamesOneRow`, `GeneratedMeetsCustom`, `RefusedAfterAttempts` | Custom and generated slugs share an index through waits, aborts and deletes, and every answer agrees with what was stored |
| | `CredentialsAreGuarded`: `BcryptWithinLimit`, `GuessesWithinLimit`, `RegisteredOnce`, `LimitedForCause` | Guesses between two successful logins are bounded, whoever shares the bucket, and nothing gets to bcrypt while Redis is down |
| | `BookmarksAreWhole`: `AllTags`, `NoClutter`, `UrlSavedOnce`, `FiledUnderOwn` | Overlapping saves of the same new tags, a failure at any statement and a category deleted meanwhile |
| | `ListingIsComplete`: `NothingSkipped`, `NewestFirst` | Pages while rows commit late, out of order, and go |
| | `OneSweepPerNight` | Replicas fire apart, stop in the middle and start again |
| | `StopsInOrder`: `SweepHasPool`, `NoCallCut` | The three processes, told to stop, failing to start or to listen at any moment, close nothing under a sweep or a call |
| | `TokensVerify` | Two processes mint and verify while three keys come and go |
| `progress` | `RequestsAnswered`: `EveryRedirectAnswered`, `LoserAlwaysAnswered` (with a connection to spare), `EveryCreateAnswered`, `EverySaveAnswered` | Whoever waits for a fetch, a connection, the unique index or a row gets an answer, deadlocked saves included |
| | `StopIsFollowed` | A process that was told to stop, or could not start, ends |
| | `ExpiredLinkGoes` | Some night's sweep deletes an expired link, whatever was refused, retried, archived or cut off |
| `lessons` | `BatchesCarryAll`: `OnePlace`, `FetchedOnce`, `PendingIsTimed`, `BatchFits`; `SettledOnce` | The loader: three goroutines, one LoadMany among them, over full batches, timers, stale callbacks, failures and callers that leave; it implements `ReadOnce` |
| | `ResultsAreComplete`, `MessagesAreHandled`, `ConnectionsAreKept`, `MoneyIsKept`, `DuplicatesHaveReason`, `LocalLimitsHold` | What the concurrent lessons promise of their results |
| | `EveryPartEnds`; `StepsKeepOrder`: `HistoryIsSwept`, `MatchedInOrder`, `RangeShrinks` | Their goroutines, loads, broadcasts, transfers, pools, streams and loops end; what single steps keep |
| | `StructuresHold`: `LookupIsTheMap`, `RoomIsLeft`, `RingHoldsTheLine` | Whatever collides, is deleted and rebuilt, the table answers what was stored; wherever head and tail wrap, the buffer is the line |
| | `OrdersHold` (search trees, sorts, searches, heaps, intervals), `GraphsAreSolved`, `PatternsAgree`, `AnswersAreFound` | Structures and algorithms agree with what they stand for |

The longer runs also check `TypeOK` (`ServicesTypeOK`). The violated properties each quote a comment of the
code; `PROJECT.json` has the quotations under `findings`. `loser_never_answered` and `failed_listener` are bugs in the code, the
others, `second_signal` among them, are comments that promise more than the code does.

**What the two halves of a finding say together.** `NextReadFresh` fails, but `DeadLinkEnds` holds:
the stale redirect is bounded by the TTL, as the code's own backstop argument says. `ReuseEndsChain`
fails, but `DeadStaysDead`, `OneActivePerFamily` and `RevokedNeverUsed` hold: a revocation that meets no
rotation is final, and one that does leaves one token, which a further replay revokes. `ExactWindow`
fails under delay, but `WindowBound` gives what is left of it, and `ExactWhenPunctual` (section 4) proves it
where there is none. `FailedListenerEnds` fails, but `StopIsFollowed` holds: one signal gets a process out of it, and
url-shortener, which has no sweeper, ends by itself. `SecondSignalKills` fails, but a shutdown that is stuck ends by its deadline of 20 seconds: in `ServiceRun`, where
the drain may give up (`ShutdownGivesUp`), `StopIsFollowed` holds whether a second signal comes or not, and `NoCallCut` holds because it is swallowed. What the create's cache delete cannot do is the same race as the delete's: a fetch that found no row
may store its negative entry after it, and `NegativeEnds` bounds how long that lasts.

### Met while modelling

Behaviour that a reader of the code may not expect, that contradicts no promise of its comments or lies outside what the
runs ask, and that the models reproduce unless it says otherwise:

- Reserved words are refused for custom slugs only (`shortener.go:215`); `SlugAllocation` lets a generated slug be one.
- `Collect` returns a nil error when a pipeline above it was cut and it sees the closed channel before its
  context (`pipeline.go:168-188`), so a cut result can look like a whole one: `CompleteUnlessCut` speaks of contexts, not of the error.
- The in-process limiters read the clock before the mutex. A caller that lags resets the fixed window and shifts the
  sliding counter. `SlidingLog` "can never allow more than Limit requests in any span of Window" (`ratelimit.go:232`) because "the slice is
  sorted" (`:275`), which it is while calls keep the order of their times. A late call appends behind a later time; it counts a log from which a call
  with a later clock has dropped hits, and a sweep that judges the log by its last time may drop hits that are later than it. Each costs one lag:
  `LogIsExact` has the whole window while nobody is late, and one shorter by two lags after that. A keyed limiter that forgets idle keys after ten minutes gives a
  fresh burst when its window is longer.
- "They cannot land in different windows" says the comment of `LoadMany` (`dataloader.go:257`). The timer may fire between two of its
  goroutines; in `DataLoader` it may, and `SettledOnce` says that the split costs a query and no caller sees it.
- `refuse` adds 0.999 s before it truncates (`api/ratelimit.go:116`), so a wait that is less than a millisecond over whole seconds is told as those
  seconds, and the client that keeps to them is refused once more; `RetryAfterClose` has the bound.
- When `process` panics (`webhooks.go:447`) net/http recovers, and nobody calls `Forget`: the ID stays recorded, the sender's retry is answered
  "duplicate", and the event is lost until the ID expires. `DuplicateHasReason` names the panic as a reason of its own (`panicked`).
- A client that answers every ping "stays connected indefinitely" (`websockets.go:59-61`) as long as pings are sent. The writer's select chooses
  at random between messages and a tick, and each write may take up to WriteTimeout; when enough of them go first, the next tick finds a silence of ReadTimeout and ends the
  connection. `DroppedForCause` says how many it takes.
- `Send` "never blocks" (`websockets.go:248`), but under `Disconnect` it calls `Close`, which waits for the close handshake, under the hub's read lock; a
  broadcast stays there until the handshake's own time limits end it, and `BroadcastsOver` rests on these.
- The sweep's comment asks for a Unique lock "a little longer than the interval" (`tasks.go:88`), which is a day; the code's lasts
  ten minutes. What it has to refuse is the other replicas' enqueue of the same night, and for that it suffices
  (`SweepAssumption` has it longer than `ClockSkew`).
- `AnyOverlap` compares neighbours by start, since "if any two overlap, two adjacent ones do"
  (`intervals.go:184-189`): an empty interval between two that overlap hides them, so the property asks for the converse only
  where there is none.
- `RotationPoint` needs distinct values, and so do its tests; `RotatedIsFound` asks for them.
- A token without a kid is checked against the active key (`jwtauth.go:430-433`), so one from before kids no longer verifies after a
  `Rotate`, though it "still has to verify during the migration"; `KeyRotation` has tokens with kids only.
- With a context that ends, `RunPool` drops results that workers have already computed.
- `MatchAll` returns the players that wait, not in the order of their arrival.
- `LongestBalancedPrefix` ignores trailing characters that `IsBalanced` accepts.

### Bounds

| Run, part | Instance | Why it is enough |
|---|---|---|
| `redirect_cache` | one slug, process and request, two links, five instants, TTL 2, negative TTL 1 | The entry of a dead link needs one fetch in flight; the slug can be deleted, created again and expire. Slugs and processes do not share state |
| `progress`, redirects | two requests on one flight | collapsing needs two |
| `services`, limiter | limit 2, window 4, delay 1, skew 1, five calls | every order of two scripts around a trim, with a third call to exceed; a second is 3 instants and `RoundUp` 1, so that a wait may be a whole number of seconds, one instant over, which is told too short, or rounded up |
| `click_queue` | two clicks, two ids of one slug, two worker slots, one retry, one requeue, one crash | a click may be tried three times, beside another on the same row |
| `refresh_tokens` | two handlers, three ids, lifetime 1, two instants a `Stride` of 2 apart | two presentations of a token, or a replay beside a rotation, with a successor and a second family; at the second instant what the first issued has expired and the sweep may delete it, between any two steps |
| `progress`, refreshes | two handlers, two ids, three connections | the sweep deletes a replayed row between two lookups |
| `loser_never_answered` | the same with two connections | the smallest pool that two losers fill |
| `services`, slugs | three creators, three slugs, two attempts, six ids | a creator waits while another waits for a third; attempts run out between two custom slugs |
| `services`, gate | two accounts, three visits, gate 2 and guesses 1 | a guess, the owner's login and a third visit on either bucket |
| `services`, bookmarks | three savers, three wishes that share tags in two orders and one URL | a cycle of tag waits with a third in the queue, two savers of one URL, somebody else's category |
| `services`, listings | three writers, pages of one row | a row can come and go on either side of the cursor |
| `services`, sweep | two replicas, day of 3, lock of 2, one retry, one outage, two errors | both fire in one night, and an archived task's lock meets the next one |
| `lessons`, limiters | two callers, limit 2, window 3, lag 1, clock to 4 | a window ends and a call of it is late; the sweep falls between two calls. With two callers no more than one lag is lost; what three do is in section 4 |
| `lessons`, loader | three callers, three keys, maxBatch 2 | a batch can be filled while its callback waits, and a third key is then collected for the stale callback to take. Keys are asked for in one order and at most one is primed, since the loader treats keys alike |
| `lessons`, webhooks | three deliveries of two events, TTL 2, a sweep every instant | a failure and a panic beside a retry; calls that pass the mutex in another order than their clocks. Deliveries are sent in one order, being alike |
| `lessons`, websockets | three broadcasters, one connection, buffers of 0 and 1 | a message is written, one waits and one overflows. Broadcasters come in one order, being alike |
| `lessons`, keep-alive | read time-out 5, write time-out 2, interval 2, two overtaking writes, clock to 16 | with none of them overtaken a tick comes in time, with one or two it comes too late: an answering peer is kept, and dropped for cause |
| `lessons`, concurrent parts | two workers more than there is room for; two faults | what competes for a slot, an id or a lock |
| `services`, start and stop | three programs, two calls on one connection, two signals | a call waits for the other's connection; a signal comes during the drain, and one after stop |
| `failed_listener` | one call | the wait needs the sweeper only |
| `second_signal` | one call, two signals | the second comes during the drain |
| `services`, keys | two processes, three kids, TTL 2, five instants | a key is left by one process and not yet by the other, and a third key follows before the first may go |
| `lessons`, pools and stream | four jobs, two that fail, two workers; three calls of `Submit`; four messages over a channel of two | a second failure, a worker that waits for the collector, a channel that is full while the writer has ended |
| `lessons`, structures | seven keys in the red-black tree, five in the other, four in the table with three hash functions and sizes of 4 and 8, five players | every shape with three black levels; a table that is rebuilt; head and tail wrap |
| `lessons`, algorithms | sequences to length 5 over four values, ints of 4 bits, four nodes with four edges, three intervals on four points | each branch of every algorithm, ties and duplicates. `SortThreshold` is 2 (12 in the code), so that merges and partitions happen; the ninther pivot of slices of 50 and more is out of reach |

Constants named `Max…` bound counters in the guards and are not in the code. Deadlock checking is off
in every run: each specification stops when its bounds are spent.

### Fairness

- `RedirectCache`: a goroutine that can run does (weak fairness of each handler's and each flight's
  steps). Nothing makes a client ask or leave, a write happen or a cache delete succeed.
- `ClickQueue`: the worker polls, retries are forwarded, expired leases recovered, a handler takes its
  next step, and a COMMIT on its way arrives or its connection closes. Nothing makes a fault happen.
- `RefreshTokens`: strong fairness of each handler's progress. The pool hands a freed connection to its
  callers in turn and Postgres a row to its waiters in turn, so a handler that can go on again and
  again does go on. `loser_never_answered` fails under the same fairness: there no handler can.
- `DataLoader` (`LoaderFairness`): goroutines run, an armed timer fires and the batch function returns, as the query behind it
  does. Nobody need call, leave or prime.
- `SlugAllocation`, `BookmarkTags`: each request's own steps; a wait ends with the transaction it waits for, and a
  cycle of waits with the detector's choice.
- `SweepSchedule`: the clock passes, each scheduler fires on its tick, the worker runs tasks, and a replica that stopped is started
  again. Nothing makes a delete succeed; errors are finite (`MaxErrors`), which is what "some night" rests on.
- `ServiceRun`: the process runs and its calls and sweeps end (`RunStep`). No signal has to come, and that is what `failed_listener` turns on.
- Lessons: the Go scheduler runs goroutines that can run, and a call that loops (`MatchAll`, `SearchAnswer`) takes its next turn; a close handshake ends by its own time limits (`Shut`); a stuck peer need not read, a context need not end; the client of a chat goes on to its last message, as in its mode it may. Faults are
  bounded (`MaxFaults`).

The answers are stated as `[]<>`: requests come again and again, and each time the handler returns to where it can
take the next one.

## 4. What is proved

All theorems are of the form `Spec => []Inv`, `Spec => [][A]_vars` or, for the refinement, `Spec => Promise!Spec`; they hold for every value of the
constants that satisfies the named assumption of the module (`ConstantsAssumption`, `GateAssumption`, `TagAssumption`, ...), and they rest on one inductive invariant
per component (`IInv`, `WindowInv`, `GateInv`, `RingInv`, `HashInv`, ...): it holds at first, and every step keeps it. TLC checked each of them on a small instance before
it was proved. The bounds that keep TLC's runs finite are constants of the theorems too: "for every number of requests" means for every value of that constant.

**LimiterProofs**, the limiter — `LimiterTyped`, `LimitHoldsOverEveryWindow`, `MemoryBounded`, `IdleKeysExpire`,
`ExactWhenPunctual`, `ResetInIsExact`, `RetryAfterIsClose`, and together `LimiterKeepsPromise` (`LimitHolds`). `WindowBound` speaks of all calls ever admitted, the script counts what Redis still
holds. The invariant joins the two: a call in flight carries a clock that is timely (`CallsTimely`),
nothing that could still share a window with it was trimmed or expired (`RecentKept`, `ExpiryCovers`),
so a call the script admits has fewer than `Limit` admitted calls in its window. For `ResetIn`, the bucket is finite and so
has an oldest entry (`OldestExists`); removing exactly it is what the wait is for. Retry-After is the same wait in whole seconds: the remainder of a
division says how far it is off (`WholeSeconds`), and a bucket that admits a call admits it later too (`AdmitsLater`).

**LimiterProofs**, the gate before register and login — `GateTyped` and `CredentialsStayGuarded` (`CredentialsAreGuarded`, with all four of its parts), for any number
of requests, both limits and both windows. The endpoint's bucket remembers every recent request that passed it (`GateRemembers`), so no window has had more than its limit
(`GateBound`). An account's bucket does forget, but only when a right password clears it: what it has forgotten in a window is at most one limit for each clearing in that window
(`ClearsForget`), which is the bound on guesses (`GuessBound`). The requests behind a refusal are never taken back, so the cause of a 429 stays (`CausesLast`). The two limiters are
instances of `SlidingWindow`; what the script keeps and admits is the lemma `Buckets`.

**ClickQueueProofs** — `Typed`, `CounterIsExact`, `ForeignKeyHolds`, `ClicksStayOnTheirURL` and together
`ClicksStayCounted` (`ClicksAreCounted`); `DoneMeansRecorded`, `ArchivedMeansHopeless`, `TwiceNeedsLostOutcome` and together
`TasksEndAsCaused` (`TasksEndWithCause`). The row lock carries the
argument: a transaction past its UPDATE holds the lock of its URL (`Locked`), and a locked row is not
deleted (`LockedLive`). A committed attempt nobody lost sight of is the last one of its task, and its
task is held or done (`Seen`), which is why there is no second.

**RefreshTokensProofs** — `Typed`, `SuccessorIsUnique`, `OneTokenPerSession`, `DeadFamiliesStayDead` and together
`SessionsStaySingle` (`SessionsHaveOneToken`); `RefusalsHaveCause`, `RevokedStaysUnused`. A rotation holds its row from the UPDATE to the COMMIT, so
the token it consumes is unused until then and nobody else's (`HeldUnused`, `OneHolder`); ids of inserted
successors are nobody else's (`Children`); a token with a successor is used (`ParentUsed`). Leaving the
clock out, a family has one unused token (`OneUnused`) and a dead family none (`DeadUnused`): that is what
is inductive, since an expired token is not active and yet in the way. For the refusals, presentations
are counted (`Counted`): every use was one, and two handlers with one token are two; every revocation, and
every handler on the reuse branch, then has a logout or a replay behind it (`Causes`).

**ResultProofs**, the loader — `Typed`, `KeysHaveOnePlace`, `KeysAreFetchedOnce`, `CollectedIsTimed`, `BatchesFit` and together
`BatchesCarry` (`BatchesCarryAll`), and
`KeepsPromise`: the loader implements `ReadOnce`, step by step. The invariant says where an open future is
(`OnePlace`) and who runs a batch (`RunnersRun`); so a `Close` settles a key that was not settled, a `Return`
touches no outcome that anybody can see, and a caller that waits has none yet (`CallersAgree`).

**ResultProofs**, pipelines, fan-outs, pools and streams — `ResultsStayComplete` (`ResultsAreComplete`, with all eight of its parts), for any number of values, sources, jobs, workers, submitters and messages, every slot limit and room
of the channel. It rests on five invariants, one for each specification, and all of them say where a thing is. A value that went into a pipeline is with one
goroutine, one that left by the context included, or dropped by a filter, or delivered, and then once (`OneHolder`, `NothingLost`, `DeliveredOnce`); a goroutine that ended otherwise holds nothing, and those that feed it have ended (`EndedInOrder`), so a verdict of "complete" finds
all values delivered. A job that was fed is with one worker, with the collector or among the results (`JobsAreApart`, `NoneIsLost`), and
the error that is kept is the first failure collected (`ErrorIsFirst`). A job that `Submit` handed over is with its worker, in the buffer or drained (`TakenIsSomewhere`). Slots are counted against the goroutines that hold them (`SlotsAreHeld`), and a source that the loop has passed has a result or a
goroutine (`PassedHaveResult`). The messages of a chat are consecutive across its five places: replied, in the writer's hand, in the channel, in the reader's hand, on the way (`InTransit`); why the reader stopped decides what may be missing (`StreamEnds`). The constants are assumed to be
numbers, `None` to be no value of theirs, and `RunPool` to have a worker, since `RunPool` with none returns at once with no results.

**RedirectCacheProofs** — `Typed` and `StaleEntriesEndAlways` (`StaleEntriesEnd`, with all four of its parts). The invariant dates
everything that is remembered: a fetch is due within its time-outs (`FlightDue`); what it has read was so until a write that lies at
most its time-outs before that (`FlightFresh`), since a row that is read is not deleted yet; so an entry it stores ends within `Lag` and one TTL of
the write (`EntryOfLink`, `EntryOfNone`), and so does a request that holds it (`Reader`). Cache deletes are not needed anywhere in the argument:
they only make the bound come true earlier.

**StoreProofs**, creating links — `SlugTyped`, `SlugsStayAllocated` (`SlugsAreAllocated`) and `KeepsDirectory`: creating links implements
`SlugDirectory`, step by step. The sequence is ahead of every id in use (`Numbered`), so ids never meet; an open transaction holds
the index entry of its own slug (`Holds`); a row that is not custom is named by its id (`NamedById`), and as `Obfuscate` is one to one a generated slug can only
meet a custom one. Each attempt met another id, so the attempts are the number of ids met (`Attempted`). A COMMIT is then a claim
of the directory, and answers agree because nobody is told anything before the end (`Told`).

**StoreProofs**, saving bookmarks — `TagsTyped` and `BookmarksStayWhole` (`BookmarksAreWhole`), for any savers, tags and categories and every way in which their transactions interleave.
`uniqueTagNames` is a fold over a list; that it keeps all names and only those (`UniqueAreAll`) is an induction over the length of the list, which is done with the library's
theorem on well-founded relations, since its induction theorems cannot be instantiated. The invariant says what a saver has in hand at each statement (`InHand`): the names left to ensure, those that are its own or committed, the ids found. A
name that met a conflict is committed or nobody's by the time the SELECT runs, because the INSERT waited for whoever held it; so the SELECT finds them all. `OneUrl` and `Opened` carry the
unique key and the owner key of the row over the rest of its transaction.

**StoreProofs**, listings — `ListingTyped` and `ListingsStayComplete` (`ListingIsComplete`), for any number of rows, every page size and both ways of finding the last page. Rows with ids have keys of their own
(`IdsDistinct`, `KeysOfRows`), so a finite set of them can be listed in descending order (`ListedByKey`, by induction over the subsets): that is what the statement of a page
returns, and what it leaves out for want of room is older than all of it (`QueryReturns`). Everything that stood when the listing began and stands now is shown or older than the cursor (`StillToCome`). For this `Query`
is written as the choice of a descending list of the matching rows, which there is exactly one of.

**ScheduleProofs**, keys — `TokensStayValid` (`TokensVerify`), for any processes, keys and TTL, and however long `Mint` is suspended. Whoever signed
with a key either still does or left it no earlier than TTL before the token's expiry (`NotLeftBefore`), so the schedule of removals
cannot remove it before (`Safe`).

**ScheduleProofs**, the nightly sweep — `SweepTyped` and `SweepsStaySingle` (`OneSweepPerNight`), for any number of replicas and retries. Until the last scheduler's clock has fired, a sweep that is not done
holds the lock, and the lock has at least the hours left that the skew has (`FreshHoldsLock`); a second enqueue is therefore refused, and a sweep of an earlier night frees only a lock that is its own.

**ScheduleProofs**, start and stop — `StopsStayOrdered` (`StopsInOrder`), for the three programs and any number of calls. What is open is a prefix of the order in which `run` opens it (`OpenIsPrefix`), so the sweeper
is open only under an open pool (`SweeperIsOpen`, `PoolLater`), and a call that is busy once `run` returns has had its time, or the listener failed (`BusyLate`).

**ScheduleProofs**, the services together — `ServicesTyped` (`ServicesTypeOK`): the composition that the run `services` checks implements the specification of each of its parts (`PartsMove`),
so the type invariants proved of the parts hold of the whole. In the same way every other theorem about a part of it is one about the composition.

**LessonProofs**, searching answers — `SearchTypes`, `LeastIsFound`, `GreatestIsFound`, `AnswersFound` (`AnswersAreFound`) and `RangesShrink`, for
every width of an int and every pair of bounds. The invariant (`Progress`) is the loop's: everything below `lo` fails, and the best value so far, if there is one, works and is just above `hi`; the arithmetic lemmas say that the midpoint, computed in unsigned arithmetic, lies between the
bounds and that no step past it wraps.

**LessonProofs**, webhooks — `HookInvariant`, `DuplicatesKeepReason` (`DuplicatesHaveReason`) and `HistoryStaysSwept` (`HistoryIsSwept`, an action property), for any deliveries and every TTL and sweep interval, with calls
that pass the mutex in any order of their clocks. An ID in the history stands for work that is done, in process or has panicked (`DuplicateHasReason`); until a delivery takes as long as the TTL from the clock it read (`NoneIsLate`), the entry of what
is in process is the one it made (`InProcessIsRecorded`), so the next delivery is refused. A sweep leaves what is younger than it asks (`SweptFacts`); what is recorded after it by an earlier clock is still younger than the TTL at the sweep, unless its call has waited
for the mutex that long (`SeenSinceSweep`).

**LessonProofs**, messaging — `MessagesStayHandled` (`MessagesAreHandled`), for every log, any partitions and both commit modes. The committed offset stands to the position as the mode says (`OffsetsAgree`); an event is safe when its work is done or a message of it
is still to come that no loop is about to commit (`EventsSafe`), which is what crashes, failed commits and duplicates in other partitions must not break; and a key that is reserved belongs to one loop or to work that is done (`OneReservation`).

**LessonProofs**, transfers — `MoneyInvariant` and `MoneyStaysKept` (`MoneyIsKept`), for any transfers, accounts and amounts, in all three styles mixed. A transfer holds exactly the rows of the statements it is past (`LocksAre`), so what it
has written is the committed balance and its own cents (`WrittenIs`). Sums over sets of transfers are folds, and the provers know nothing of folds: `SumCounts` shows that such a sum is the number of its units (pairs of a transfer and one of its cents),
after which adding a transfer is adding to a finite set. For the transfers that lock in order, of two in a circle each would wait for a row higher than the one it holds (`WaitsGoUp`).

**LessonProofs**, connections — `HubInvariant` and `NoHoleUnseen`, `AliveInvariant` and `PeersAreJudged`, and together `ConnectionsStayKept` (`ConnectionsAreKept`), for any broadcasters and connections, every queue size, none included, every policy and
the timeouts that `Config.Validate` admits (`AliveAssumption`). What a broadcast has sent to a connection that nothing was dropped from is written, in its writer's hand or in its queue, so a writer that empties the queue leaves no hole. For the keep-alive, each write that overtakes a tick has its own deadline:
a ping is due within the interval and `1 + overtaken` write time-outs of the last sign of life (`DueInTime`), however many the select has let go first. So a tick that finds an answering peer silent for ReadTimeout has been overtaken often enough for that, which is `DroppedForCause`, and a vanished peer is judged by the ping it was due.

**LessonProofs**, the limiters of one process — `LimInvariant` and `LocalLimitsStay` (`LocalLimitsHold`), for any number of callers, every limit, window and lag, and each of the four algorithms. The counters: a sweep drops no entry of the
present window, so its count is at least what the window has allowed (`WindowCounted`). The log: every hit later than what any call to come may still count is in it (`LogIsComplete`, `Horizon`), and its times are in order up to the lag, which is how far a sweep can be wrong about it; so a call that finds
room proves a stretch within the limit. The bucket: for every instant since which calls were allowed, their tokens and those left do not exceed the burst and the refill since then (`Budgeted`); one that was swept is full again. A first attempt, with a stretch shorter by one lag, failed on the sweep, and TLC then found
the counterexample with three callers; the property has said two lags since.

**LessonProofs**, the ring buffer — `RingInvariant`, `RingHolds` (`RingHoldsTheLine`) and `MatchesInOrder` (`MatchedInOrder`, an action property), for any players, tiers and first capacity. `Holds` says that a
buffer is a line: seen from the head, slot by slot (`Behinds`), the line and then nothing. The remainders of the code are taken out once (`WrapFacts`), since the provers do not reason with `%`; after that
each of the operations has its lemma (`PushBackHolds`, `PopHolds`, `PushFrontHolds`, `RemoveHolds`, `RoomHolds` for `grow`). For `MatchAll`, the matches so far and then the line are always the players that came, with each tier in
its order (`InOrder`): a match moves one player forward past others of other tiers (`MovedUp`), a failed attempt moves one to the back who has nobody of its tier (`MovedBack`). Those moved since the last match stay without a partner (`Lone`),
so when there are as many failures as players nobody has one.

**LessonProofs**, the hash table — `HashInvariant`, `LookupHolds` (`LookupIsTheMap`) and `RoomHoldsOut` (`RoomIsLeft`), and with the ring buffer `StructuresAreHeld` (`StructuresHold`), for any keys and values, every hash function to the naturals and any table sizes
that suffice for the keys. `Held` says that a table holds a map: each key of the map is in one slot, with its value, and a probe comes to that slot. A deletion leaves every round of every probe where it was (`DeleteKeeps`), an insertion fills the first slot on the chain
that is not occupied (`InsertKeeps`), and the load leaves such a slot in every table (`PlaceThere`, a table that is not full has one, and a probe comes to all slots). A resize is a recursion over the old slots; after each slot the new table holds
the map of the keys passed (`RehashKeeps`). `HashAssumption` asks of the sizes only that some size suffices for every number of keys, which the powers of two from 8 do.

**Induction over data.** The library's induction theorems take an operator and cannot be instantiated here. Two proofs do without: `UniqueAreAll` and `ListedByKey` use the theorems on well-founded relations and finite sets; the resize uses `Upward`, induction up to
a bound, stated of a set of numbers instead of a predicate. It follows from `LeastOf` (a set of bounded numbers has a least one), and that from the cardinality of finite sets: without a least one the numbers below it all would map one to one
onto a proper part of themselves. `OrderIsKept` puts the three action properties of `StepsKeepOrder` together.

**Only model-checked**: liveness (fairness is out of the prover's reach), and with it that the loops of `MatchAll` and `SearchAnswer` end; and everything over recursive operators, with which the prover loses its arithmetic:
the search trees, sorts, searches, heaps and intervals of `OrdersHold`, the graphs of `GraphsAreSolved` and the algorithms of `PatternsAgree`. What these do with data of unbounded size would each be an induction of its own over trees, heaps or paths.
The violated properties are counterexamples and need no proof.

## 5. What is not modelled

The reasons are in `PROJECT.json`, component by component. In short:

- *Single statements.* Search, plans, windows and vectors of the database lessons are what Postgres makes of one statement.
- *Calls into libraries.* JWT claims and algorithms, bcrypt, configuration, OAuth, the cloud, mail and AI clients,
  handlers of the HTTP and gRPC tutorials with one goroutine and no state between calls; generated code.
- *Slug encoding.* A permutation of 64-bit values, which TLC cannot enumerate; `SlugAllocation` assumes that it is one to one.
- *Demonstrations.* Most of `go-concepts` and parts of `testing-concepts` show the language, some of it wrong on purpose.
- *Short sequential structures.* Tries, lists, stacks, walks over grids and exhaustive solvers: a model would be the code once more.

Of the parts that are modelled in part, these operations are left out: `TokenBucket.Wait` and the middleware of the in-process limiters;
`WithSavepoint` and the backoff's arithmetic; the signature of a webhook, a delivery without an ID, a handler without a deduper, a TTL of zero and the counters of what was answered; interpolation search and the ninther pivot; `Values` and
`Names` of the fan-out; `Upload`, `Watch` and the interceptors of gRPC; tokens without a kid; `Fetch`, the `Limiter` and the counters of
`testing-concepts`; the two-dimensional tables and searches (word search, Sudoku, grids). The repository is mostly lessons: of its
lines many are demonstrations that print, tables of examples, generated code and clients of services, so the lines the modules stand for are a small share of them
although the parts whose behaviour depends on order, failure or long histories are covered.

Abstractions to remember when reading a result: Postgres is modelled at READ COMMITTED by its
statements, row locks and commits; Redis as one atomic server that loses nothing by itself; asynq by what its
documentation and this code rely on; clocks are shared but for the limiter's callers.

## 6. Plan

What would come next, in this order:

1. **An at-least-once ledger** as the abstract specification of `ClickQueue` (each click recorded, dropped or hopeless, with doubles
   marked), and **a session with one current token** as that of `RefreshTokens`; both mappings are state functions and can be proved step by step.
2. **`WithSavepoint` and `TokenBucket.Wait`**, the two state changes that the lessons' modules still leave out.
