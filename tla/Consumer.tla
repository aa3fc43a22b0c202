------------------------------ MODULE Consumer ------------------------------
(***************************************************************************)
(* Two Run loops of backend-concepts/messaging/messaging.go in one process, *)
(* on two partitions, their handler wrapped in one Idempotent.  The broker  *)
(* keeps the log and each partition's committed offset; a producer that     *)
(* retried has put one event on the log more than once.                     *)
(***************************************************************************)
EXTENDS Naturals, Sequences

CONSTANTS
    Partitions,
    LogOf,        \* the business ids on each partition, in order
    CommitModes,  \* the modes a run may be configured with: after, before
    MaxFaults     \* bound: failed commits and handlers, crashes, shutdowns

ASSUME ConsAssumption ==
    /\ \A p \in Partitions : Len(LogOf[p]) \in Nat
    /\ CommitModes \subseteq {"after", "before"} /\ MaxFaults \in Nat

VARIABLES
    mode,         \* CommitMode
    committed,    \* per partition, the offset a new reader starts from
    position,     \* per partition, the offset of the message in hand, or next
    loop,         \* per partition, where its Run is
    seenIds,      \* Idempotent.seen
    handled,      \* per partition, how often each message's work was done
    doneHere,     \* ids whose work this process has done, with how often
    stopping,     \* the loops' context is cancelled
    faults,       \* faults so far
    disturbed     \* there was a crash, or a commit that failed

consVars == <<mode, committed, position, loop, seenIds, handled, doneHere, stopping, faults, disturbed>>

Offsets(p) == 1..Len(LogOf[p])
Messages   == UNION {{p} \X Offsets(p) : p \in Partitions}
IdOf(m)    == LogOf[m[1]][m[2]]
MessageIds == {IdOf(m) : m \in Messages}
IdAt(p)    == LogOf[p][position[p]]

ConsInit ==
    /\ mode \in CommitModes
    /\ committed = [p \in Partitions |-> 1] /\ position = committed
    /\ loop = [p \in Partitions |-> "fetch"]
    /\ seenIds = {}
    /\ handled = [p \in Partitions |-> [i \in Offsets(p) |-> 0]]
    /\ doneHere = [k \in MessageIds |-> 0]
    /\ stopping = FALSE /\ faults = 0 /\ disturbed = FALSE

-----------------------------------------------------------------------------
Goto(p, l) == loop' = [loop EXCEPT ![p] = l]

(* The loop is through with its message. *)
NextMessage(p) ==
    /\ Goto(p, "fetch")
    /\ position' = [position EXCEPT ![p] = @ + 1]

Fault == faults < MaxFaults /\ faults' = faults + 1

(* FetchMessage does not commit.  A cancelled context ends the loop here;   *)
(* a message that is already there may be returned first.                  *)
Fetch(p) ==
    /\ loop[p] = "fetch"
    /\ \/ position[p] \in Offsets(p) /\ Goto(p, IF mode = "before" THEN "commit" ELSE "handle")
       \/ stopping /\ Goto(p, "ended")
    /\ UNCHANGED <<mode, committed, position, seenIds, handled, doneHere, stopping, faults, disturbed>>

(* Mutant: the offset of the message, not of the next one. *)
StoredSame(p) == [committed EXCEPT ![p] = position[p]]

(* What the broker keeps: where to go on. *)
Stored(p) == [committed EXCEPT ![p] = position[p] + 1]

Commit(p) ==
    /\ loop[p] = "commit"
    /\ committed' = Stored(p)
    /\ IF mode = "before" THEN Goto(p, "handle") /\ UNCHANGED position ELSE NextMessage(p)
    /\ UNCHANGED <<mode, seenIds, handled, doneHere, stopping, faults, disturbed>>

(* Mutant: the commit uses the loop's context, and fails once it is         *)
(* cancelled.                                                              *)
CommitFailsStopping(p) ==
    /\ loop[p] = "commit" /\ stopping
    /\ Goto(p, "ended")
    /\ UNCHANGED <<mode, committed, position, seenIds, handled, doneHere, stopping, faults, disturbed>>

(* Run returns the error; the broker may have stored the offset.  Shutting *)
(* down is no reason to fail: the commit has a context of its own.         *)
CommitFails(p) ==
    /\ loop[p] = "commit" /\ Fault
    /\ committed' \in {committed, Stored(p)}
    /\ Goto(p, "ended")
    /\ disturbed' = TRUE
    /\ UNCHANGED <<mode, position, seenIds, handled, doneHere, stopping>>

(* The handler has returned nil. *)
Handled(p) == IF mode = "after" THEN Goto(p, "commit") /\ UNCHANGED position ELSE NextMessage(p)

(* Mutant: the key is neither looked up nor recorded. *)
ReserveNothing(p) ==
    /\ loop[p] = "handle"
    /\ Goto(p, "working")
    /\ UNCHANGED <<mode, committed, position, seenIds, handled, doneHere, stopping, faults, disturbed>>

(* Wrap: a key that is already there is skipped, another one reserved.      *)
Reserve(p) ==
    /\ loop[p] = "handle"
    /\ IF IdAt(p) \in seenIds
       THEN Handled(p)
       ELSE Goto(p, "working") /\ UNCHANGED position
    /\ seenIds' = seenIds \cup {IdAt(p)}
    /\ UNCHANGED <<mode, committed, handled, doneHere, stopping, faults, disturbed>>

Work(p) ==
    /\ loop[p] = "working"
    /\ handled' = [handled EXCEPT ![p][position[p]] = @ + 1]
    /\ doneHere' = [doneHere EXCEPT ![IdAt(p)] = @ + 1]
    /\ Handled(p)
    /\ UNCHANGED <<mode, committed, seenIds, stopping, faults, disturbed>>

WorkFails(p) ==
    /\ loop[p] = "working" /\ Fault
    /\ Goto(p, "failing")
    /\ UNCHANGED <<mode, committed, position, seenIds, handled, doneHere, stopping, disturbed>>

(* Mutant: the reservation stays. *)
EndReserved(p) ==
    /\ loop[p] = "failing"
    /\ Goto(p, "ended")
    /\ UNCHANGED <<mode, committed, position, seenIds, handled, doneHere, stopping, faults, disturbed>>

(* Wrap releases the key, and Run returns the error without a commit.      *)
Release(p) ==
    /\ loop[p] = "failing"
    /\ seenIds' = seenIds \ {IdAt(p)}
    /\ Goto(p, "ended")
    /\ UNCHANGED <<mode, committed, position, handled, doneHere, stopping, faults, disturbed>>

(* A new consumer for the partition, in the same process. *)
Reopen(p) ==
    /\ loop[p] = "ended" /\ ~stopping
    /\ position' = [position EXCEPT ![p] = committed[p]]
    /\ Goto(p, "fetch")
    /\ UNCHANGED <<mode, committed, seenIds, handled, doneHere, stopping, faults, disturbed>>

Shutdown ==
    /\ ~stopping /\ Fault
    /\ stopping' = TRUE
    /\ UNCHANGED <<mode, committed, position, loop, seenIds, handled, doneHere, disturbed>>

(* A new process, with an empty memory. *)
Fresh ==
    /\ position' = committed
    /\ loop' = [p \in Partitions |-> "fetch"]
    /\ seenIds' = {}
    /\ doneHere' = [k \in MessageIds |-> 0]
    /\ stopping' = FALSE
    /\ UNCHANGED <<mode, committed, handled>>

StartConsumer ==
    /\ stopping /\ \A p \in Partitions : loop[p] = "ended"
    /\ Fresh
    /\ UNCHANGED <<faults, disturbed>>

CrashConsumer ==
    /\ Fault
    /\ Fresh
    /\ disturbed' = TRUE

ConsStep ==
    \/ \E p \in Partitions : Fetch(p) \/ Commit(p) \/ Reserve(p) \/ Work(p) \/ Release(p) \/ Reopen(p)
    \/ StartConsumer

ConsNext ==
    \/ ConsStep \/ Shutdown \/ CrashConsumer
    \/ \E p \in Partitions : CommitFails(p) \/ WorkFails(p)

ConsSpec == ConsInit /\ [][ConsNext]_consVars

(* Loops run, and what has ended is started again. *)
ConsFairness == WF_consVars(ConsStep)

-----------------------------------------------------------------------------
(* Properties. *)

Done(k)     == \E m \in Messages : IdOf(m) = k /\ handled[m[1]][m[2]] > 0
StillDue(k) == \E m \in Messages : IdOf(m) = k /\ m[2] >= committed[m[1]]

(* At least once: an event whose message is committed has had its work     *)
(* done, or another message of it is still to come.  A duplicate that was  *)
(* skipped while the first attempt was in flight is not lost when that     *)
(* attempt fails, or the process dies in it.                               *)
NoMessageSkipped ==
    mode = "after" => \A m \in Messages :
        m[2] < committed[m[1]] => Done(IdOf(m)) \/ StillDue(IdOf(m))

(* At most once, when the commit comes first, whatever crashes; and without *)
(* a crash or a failed commit no message is handled twice in either mode,  *)
(* shutting down and starting again included.                              *)
HandledOnce ==
    mode = "before" \/ ~disturbed =>
        \A m \in Messages : handled[m[1]][m[2]] <= 1

(* In one process the work of an event is done once, on whichever           *)
(* partitions and however often it is delivered.                           *)
OncePerProcess == \A k \in MessageIds : doneHere[k] <= 1

(* Every partition is consumed to its end, once faults stop. *)
LogConsumed == \A p \in Partitions : committed[p] = Len(LogOf[p]) + 1

(* Run and the idempotent wrapper: no event is skipped in the mode that     *)
(* commits last, none is handled twice in the one that commits first, and   *)
(* one process does an event's work once.                                   *)
MessagesAreHandled == NoMessageSkipped /\ HandledOnce /\ OncePerProcess
=============================================================================
