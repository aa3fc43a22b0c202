------------------------------ MODULE Pipeline ------------------------------
(***************************************************************************)
(* Two pipelines of utilities/pipeline/pipeline.go: Generate, Filter, two   *)
(* Squares fanned out and in, Collect; and Records, Transform, Load.        *)
(* Channels are unbuffered: a send and its receive are one step, and what   *)
(* a goroutine holds is what its select is sending.  The order in which     *)
(* the consumer keeps what it received is left out.                         *)
(***************************************************************************)
EXTENDS Naturals, Sequences, FiniteSets, Bags, NoValue

CONSTANTS
    Items,       \* how many values the source sends, 1 .. Items
    Refused      \* those that Filter drops and that a Stage of Transform fails

ASSUME PipeAssumption ==
    /\ Items \in Nat
    /\ None \notin Nat \cup [record : Nat, failed : BOOLEAN] \cup {"complete", "cut", "left"}

Squares == {"square1", "square2"}
Mergers == {"merge1", "merge2"}
Numbers == {"generate", "filter", "closer", "collect"} \cup Squares \cup Mergers
Rows    == {"records", "transform", "load"}

VARIABLES
    job,         \* which of the two pipelines runs
    left,        \* what the source has yet to send
    holding,     \* the value each goroutine is sending, None while it receives
    running,     \* goroutines that have not returned
    cancelled,   \* ctx.Done() is closed
    cut,         \* stages that returned because of it
    result,      \* the bag of what the consumer received
    verdict      \* what it returned: complete, cut, or left (it only stopped)

pipeVars == <<job, left, holding, running, cancelled, cut, result, verdict>>

Sources == {"generate", "records"}
Sinks   == {"collect", "load"}

(* Who sends on the channel that q receives from. *)
Feeders(q) ==
    CASE q = "filter" -> {"generate"}
      [] q \in Squares -> {"filter"}
      [] q = "merge1" -> {"square1"}
      [] q = "merge2" -> {"square2"}
      [] q = "collect" -> Mergers
      [] q = "transform" -> {"records"}
      [] q = "load" -> {"transform"}
      [] OTHER -> {}

PipeInit ==
    /\ left = [i \in 1..Items |-> i]
    /\ holding = [p \in Numbers \cup Rows |-> None]
    /\ job \in {Numbers, Rows} /\ running = job
    /\ cancelled = FALSE
    /\ cut = {} /\ result = EmptyBag /\ verdict = None

-----------------------------------------------------------------------------
(* What a stage makes of a value; None for one that Filter does not keep.  *)
(* A record that fails goes on, with its error.                            *)
StageOf(q, v) ==
    CASE q = "filter" -> IF v \in Refused THEN None ELSE v
      [] q \in Squares -> v * v
      [] q = "transform" -> [record |-> v, failed |-> v \in Refused]
      [] OTHER -> v

(* The loop of Generate and of Records comes to its next value. *)
NextValue(p) ==
    /\ p \in Sources \cap running /\ holding[p] = None /\ left # <<>>
    /\ holding' = [holding EXCEPT ![p] = Head(left)]
    /\ left' = Tail(left)
    /\ UNCHANGED <<job, running, cancelled, cut, result, verdict>>

(* A send that meets the receive of the next stage. *)
Hand(p, q) ==
    /\ q \in running \ Sinks /\ p \in Feeders(q) \cap running
    /\ holding[p] # None /\ holding[q] = None
    /\ holding' = [holding EXCEPT ![p] = None, ![q] = StageOf(q, holding[p])]
    /\ UNCHANGED <<job, left, running, cancelled, cut, result, verdict>>

(* The consumer's select takes a value. *)
Consume(p, q) ==
    /\ q \in Sinks \cap running /\ p \in Feeders(q) \cap running /\ holding[p] # None
    /\ holding' = [holding EXCEPT ![p] = None]
    /\ result' = result (+) SetToBag({holding[p]})
    /\ UNCHANGED <<job, left, running, cancelled, cut, verdict>>

(* Mutant: the merged channel is closed after the first input. *)
DrainedEarly(q) ==
    CASE q \in Sources   -> left = <<>>
      [] q = "closer"    -> ~ Mergers \subseteq running
      [] q = "collect"   -> "closer" \notin running
      [] OTHER           -> Feeders(q) \cap running = {}

(* Nothing more comes: the values are used up, the WaitGroup is at zero, or *)
(* the channel is closed.                                                  *)
Drained(q) ==
    CASE q \in Sources   -> left = <<>>
      [] q = "closer"    -> Mergers \cap running = {}
      [] q = "collect"   -> "closer" \notin running
      [] OTHER           -> Feeders(q) \cap running = {}

(* The loop ends, and the deferred close closes the output. *)
CloseQueue(q) ==
    /\ q \in running \ Sinks /\ holding[q] = None /\ Drained(q)
    /\ running' = running \ {q}
    /\ UNCHANGED <<job, left, holding, cancelled, cut, result, verdict>>

(* Mutant: the goroutines of FanIn send without looking at the context. *)
SendingUnlessMerging(q) == q \in running \ Mergers /\ holding[q] # None

(* Only a goroutine that is sending looks at the context. *)
Sending(q) == q \in running /\ holding[q] # None

LeaveByContext(q) ==
    /\ cancelled /\ Sending(q)
    /\ running' = running \ {q}
    /\ cut' = cut \cup {q}
    /\ UNCHANGED <<job, left, holding, cancelled, result, verdict>>

(* Collect and Load return: their channel is closed, or their select takes *)
(* ctx.Done(); if both are ready it takes either.                          *)
Finish(q) ==
    /\ q \in Sinks \cap running
    /\ \/ Drained(q) /\ verdict' = "complete"
       \/ cancelled /\ verdict' = "cut"
    /\ running' = running \ {q}
    /\ UNCHANGED <<job, left, holding, cancelled, cut, result>>

(* A consumer of another kind breaks out of its loop. *)
StopReading(q) ==
    /\ q \in Sinks \cap running
    /\ running' = running \ {q}
    /\ verdict' = "left"
    /\ UNCHANGED <<job, left, holding, cancelled, cut, result>>

Cancel ==
    /\ ~cancelled
    /\ cancelled' = TRUE
    /\ UNCHANGED <<job, left, holding, running, cut, result, verdict>>

PipeStep ==
    \/ \E p \in running : NextValue(p) \/ CloseQueue(p) \/ LeaveByContext(p) \/ Finish(p)
    \/ \E p, q \in running : Hand(p, q) \/ Consume(p, q)

PipeNext == PipeStep \/ Cancel \/ \E q \in Sinks : StopReading(q)

PipeSpec == PipeInit /\ [][PipeNext]_pipeVars

(* Goroutines run.  Nobody need cancel, and no consumer need stop. *)
PipeFairness == WF_pipeVars(PipeStep)

-----------------------------------------------------------------------------
(* Properties. *)

(* What a run that nothing cuts short delivers: each value once, by way of *)
(* the stages.                                                             *)
Everything ==
    IF job = Numbers
    THEN SetToBag({v * v : v \in 1..Items \ Refused})
    ELSE SetToBag({StageOf("transform", v) : v \in 1..Items})

(* Unless a stage left because of the context, a consumer that saw its     *)
(* channel closed has received every value exactly once, though two copies *)
(* of a stage and two goroutines of FanIn end at different times.          *)
CompleteUnlessCut == verdict = "complete" /\ cut = {} => result = Everything

(* No goroutine stays for ever, unless a consumer stopped reading and      *)
(* nobody cancelled: a cancelled pipeline ends, wherever its stages were   *)
(* blocked and whether or not anybody reads.                               *)
PipelineOver == running = {} \/ (verdict = "left" /\ ~cancelled)
=============================================================================
