----------------------------- MODULE ServiceRun -----------------------------
(***************************************************************************)
(* How the three processes of the capstones start and stop: run in          *)
(* cmd/api/main.go of bookmark-manager and of url-shortener and in          *)
(* cmd/worker/main.go.  run opens one thing after the other and defers what *)
(* closes it, so its return closes them last first.  What the libraries    *)
(* promise is external: NotifyContext takes signals until its stop is      *)
(* called; Shutdown waits for what is in flight, up to its deadline;       *)
(* pool.Close fails what asks for a connection and waits for those in use. *)
(***************************************************************************)
EXTENDS Naturals, Sequences, SequencesExt, FiniteSets

CONSTANTS
    Programs,       \* of "bookmarks", "shortener", "worker"
    Calls,          \* requests, or the worker's tasks
    Connections,    \* of the pool
    MaxSignals      \* bound: SIGINT or SIGTERM, this often

ASSUME RunAssumption ==
    /\ Programs \subseteq {"bookmarks", "shortener", "worker"}
    /\ Connections \in Nat \ {0} /\ MaxSignals \in Nat /\ IsFiniteSet(Calls)

VARIABLES
    program,
    runStage,       \* of run: starting, serving, draining, returning; ended, the process is gone
    open,           \* what is open, in the order of opening
    signals,        \* signals so far
    cancelled,      \* ctx is cancelled
    listener,       \* no, yes, failed; of the worker: the server takes tasks
    poolClosing,    \* pool.Close was called
    sweeper,        \* none, idle, due (its ticker fired), sweeping, ended
    call,           \* none, running, querying (with a connection), answering, done
    timedOut,       \* history: Shutdown gave up waiting
    cut             \* history: calls that met something closed, or the end of the process

runVars == <<program, runStage, open, signals, cancelled, listener, poolClosing, sweeper, call, timedOut, cut>>

(* Mutant: the sweeper is started, and its Wait deferred, before the pool. *)
SweeperFirst(p) ==
    CASE p = "bookmarks" -> <<"signals", "sweeper", "pool", "redis", "server">>
      [] p = "shortener" -> <<"signals", "pool", "redis", "enqueuer", "server">>
      [] p = "worker"    -> <<"signals", "pool", "scheduler", "server">>

OpenOrder(p) ==
    CASE p = "bookmarks" -> <<"signals", "pool", "redis", "sweeper", "server">>
      [] p = "shortener" -> <<"signals", "pool", "redis", "enqueuer", "server">>
      [] p = "worker"    -> <<"signals", "pool", "scheduler", "server">>

IsOpen(x) == Contains(open, x)

RunInit ==
    /\ program \in Programs
    /\ runStage = "starting" /\ open = <<>>
    /\ signals = 0 /\ cancelled = FALSE
    /\ listener = "no" /\ poolClosing = FALSE /\ sweeper = "none"
    /\ call = [c \in Calls |-> "none"]
    /\ timedOut = FALSE /\ cut = {}

-----------------------------------------------------------------------------
(* run. *)

OpenNext ==
    LET x == OpenOrder(program)[Len(open) + 1] IN
    /\ runStage = "starting"
    /\ open' = Append(open, x)
    /\ sweeper' = IF x = "sweeper" THEN "idle" ELSE sweeper
    /\ listener' = IF x = "server" THEN "yes" ELSE listener
    /\ runStage' = IF x = "server" THEN "serving" ELSE "starting"
    /\ UNCHANGED <<program, signals, cancelled, poolClosing, call, timedOut, cut>>

(* A Ping, a New or a Start fails; nothing does after the sweeper.          *)
StartFails ==
    /\ runStage = "starting" /\ open # <<>> /\ Last(open) # "sweeper"
    /\ runStage' = "returning"
    /\ UNCHANGED <<program, open, signals, cancelled, listener, poolClosing, sweeper, call, timedOut, cut>>

(* ListenAndServe returns another error than ErrServerClosed: the port is   *)
(* taken, or accepting fails later.                                        *)
ListenFails ==
    /\ runStage = "serving" /\ listener = "yes" /\ program # "worker"
    /\ listener' = "failed"
    /\ UNCHANGED <<program, runStage, open, signals, cancelled, poolClosing, sweeper, call, timedOut, cut>>

(* case err := <-errc: return err.  Nothing shuts the server down.          *)
HearFailure ==
    /\ runStage = "serving" /\ listener = "failed"
    /\ runStage' = "returning" /\ open' = Front(open)
    /\ UNCHANGED <<program, signals, cancelled, listener, poolClosing, sweeper, call, timedOut, cut>>

(* case <-ctx.Done(): Shutdown closes the listener and waits. *)
HearSignal ==
    /\ runStage = "serving" /\ cancelled
    /\ runStage' = "draining"
    /\ listener' = IF listener = "yes" THEN "no" ELSE listener
    /\ UNCHANGED <<program, open, signals, cancelled, poolClosing, sweeper, call, timedOut, cut>>

Busy == {c \in Calls : call[c] \notin {"none", "done"}}

(* Mutant: Shutdown is given ctx, which is cancelled. *)
DrainedAtOnce == TRUE

Drained == Busy = {}

ServerStopped == runStage' = "returning" /\ open' = Front(open)

ShutdownReturns ==
    /\ runStage = "draining" /\ Drained
    /\ ServerStopped
    /\ UNCHANGED <<program, signals, cancelled, listener, poolClosing, sweeper, call, timedOut, cut>>

(* The 20 seconds of shutdownCtx or of ShutdownTimeout are over.            *)
ShutdownGivesUp ==
    /\ runStage = "draining" /\ Busy # {}
    /\ ServerStopped
    /\ timedOut' = TRUE
    /\ UNCHANGED <<program, signals, cancelled, listener, poolClosing, sweeper, call, cut>>

InUse == Cardinality({c \in Calls : call[c] = "querying"}) + (IF sweeper = "sweeping" THEN 1 ELSE 0)

ClosePool ==
    /\ runStage = "returning" /\ open # <<>> /\ Last(open) = "pool" /\ ~poolClosing
    /\ poolClosing' = TRUE
    /\ UNCHANGED <<program, runStage, open, signals, cancelled, listener, sweeper, call, timedOut, cut>>

(* sweeper.Wait and pool.Close block; stop and the other closes do not.     *)
Closed(x) ==
    CASE x = "sweeper" -> sweeper = "ended"
      [] x = "pool"    -> poolClosing /\ InUse = 0
      [] OTHER         -> TRUE

(* The deferred calls, and scheduler.Shutdown, which run makes itself. *)
CloseLast ==
    /\ runStage = "returning" /\ open # <<>> /\ Closed(Last(open))
    /\ open' = Front(open)
    /\ UNCHANGED <<program, runStage, signals, cancelled, listener, poolClosing, sweeper, call, timedOut, cut>>

ProcessEnds == runStage' = "ended" /\ cut' = cut \cup Busy

MainReturns ==
    /\ runStage = "returning" /\ open = <<>>
    /\ ProcessEnds
    /\ UNCHANGED <<program, open, signals, cancelled, listener, poolClosing, sweeper, call, timedOut>>

(* Until stop is called, every signal goes to NotifyContext, and the first  *)
(* cancels ctx; without it the default handler ends the process.           *)
Signal ==
    /\ runStage # "ended" /\ signals < MaxSignals
    /\ signals' = signals + 1
    /\ IF IsOpen("signals")
       THEN cancelled' = TRUE /\ UNCHANGED <<runStage, cut>>
       ELSE ProcessEnds /\ UNCHANGED cancelled
    /\ UNCHANGED <<program, open, listener, poolClosing, sweeper, call, timedOut>>

-----------------------------------------------------------------------------
(* What uses the things that run opens. *)

CallGoes(c, s) == runStage # "ended" /\ call' = [call EXCEPT ![c] = s]

Accept(c) ==
    /\ runStage = "serving" /\ listener = "yes" /\ call[c] = "none"
    /\ CallGoes(c, "running")
    /\ UNCHANGED <<program, runStage, open, signals, cancelled, listener, poolClosing, sweeper, timedOut, cut>>

(* A query waits for a connection; what runs without one goes on.           *)
AskDatabase(c) ==
    /\ call[c] = "running"
    /\ IF poolClosing
       THEN CallGoes(c, "done") /\ cut' = cut \cup {c}
       ELSE InUse < Connections /\ CallGoes(c, "querying") /\ UNCHANGED cut
    /\ UNCHANGED <<program, runStage, open, signals, cancelled, listener, poolClosing, sweeper, timedOut>>

DatabaseAnswers(c) ==
    /\ call[c] = "querying"
    /\ CallGoes(c, "answering")
    /\ UNCHANGED <<program, runStage, open, signals, cancelled, listener, poolClosing, sweeper, timedOut, cut>>

Clients == Range(OpenOrder(program)) \cap {"redis", "enqueuer"}

(* The cache, a limiter or the enqueued click, in front of or behind the    *)
(* query, or instead of it.                                                *)
Answer(c) ==
    /\ call[c] \in {"running", "answering"}
    /\ CallGoes(c, "done")
    /\ \E used \in SUBSET Clients :
           cut' = IF \A x \in used : IsOpen(x) THEN cut ELSE cut \cup {c}
    /\ UNCHANGED <<program, runStage, open, signals, cancelled, listener, poolClosing, sweeper, timedOut>>

(* sweepExpiredTokens. *)
SweeperGoes(s) ==
    /\ runStage # "ended" /\ sweeper' = s
    /\ UNCHANGED <<program, runStage, open, signals, cancelled, listener, poolClosing, call, timedOut, cut>>

(* An hour is between two ticks, and the DELETE of a cancelled ctx fails at *)
(* once: only a tick that is already there can come after the end of ctx.   *)
TickComes    == sweeper = "idle" /\ ~cancelled /\ SweeperGoes("due")
StartSweep   == sweeper = "due" /\ InUse < Connections /\ SweeperGoes("sweeping")
SweepReturns == sweeper = "sweeping" /\ SweeperGoes("idle")

(* Mutant: the loop waits for its ticker only. *)
NeverHears == FALSE

HearsDone   == cancelled
SweeperEnds == sweeper \in {"idle", "due"} /\ HearsDone /\ SweeperGoes("ended")

RunStep ==
    \/ OpenNext \/ HearFailure \/ HearSignal \/ ShutdownReturns \/ ClosePool \/ CloseLast \/ MainReturns
    \/ StartSweep \/ SweepReturns \/ SweeperEnds
    \/ \E c \in Calls : AskDatabase(c) \/ DatabaseAnswers(c) \/ Answer(c)

RunNext ==
    \/ RunStep \/ StartFails \/ ListenFails \/ ShutdownGivesUp \/ Signal \/ TickComes
    \/ \E c \in Calls : Accept(c)

(* The process runs and its calls end.  No signal has to come. *)
RunFairness == WF_runVars(RunStep)

RunSpec == RunInit /\ [][RunNext]_runVars /\ RunFairness

-----------------------------------------------------------------------------
(* Properties. *)

(* "A sweep in progress is never left holding a closed pool": not after a   *)
(* signal, a failed listener or a failed start.                            *)
SweepHasPool == poolClosing => sweeper # "sweeping"

(* A stop costs no call anything unless Shutdown gave up waiting for it, or *)
(* the listener failed: none meets a closed pool, cache or queue, and none *)
(* is running when the process ends.  A further signal changes nothing: it  *)
(* is swallowed while run drains (see SecondSignalKills).                  *)
NoCallCut == cut # {} => timedOut \/ listener = "failed"

(* These last until the process has ended. *)
MustEnd ==
    \/ cancelled
    \/ runStage = "returning" /\ listener # "failed"
    \/ program = "shortener" /\ listener = "failed"

(* A process that was told to stop or could not start ends, whatever its    *)
(* calls and its sweeper are at, and so does the API of url-shortener when  *)
(* its listener fails; for bookmark-manager's that takes a signal.         *)
StopIsFollowed == []<>(MustEnd => runStage = "ended")

(* "main does nothing but call run and exit, so every defer in run actually *)
(* runs": a listener that fails ends the process, in every program.         *)
FailedListenerEnds == listener = "failed" ~> runStage = "ended"

(* "stop restores the default handler, so a SECOND signal kills the process *)
(* rather than being swallowed by a shutdown that is stuck": a signal that  *)
(* follows another one ends the process (run of both APIs).                 *)
SecondSignalKills == [][signals > 0 /\ signals' > signals => runStage' = "ended"]_runVars

(* A process stops in the order in which its parts need each other. *)
StopsInOrder == SweepHasPool /\ NoCallCut
=============================================================================
