---------------------------- MODULE LocalLimiters ----------------------------
(***************************************************************************)
(* One key of the in-process limiters of backend-concepts/ratelimit: the    *)
(* fixed window, the sliding log, the sliding counter and the token bucket. *)
(* Each reads the clock before it takes its mutex, so calls may take it in  *)
(* another order than their times; a call for another key may sweep this    *)
(* one's entry.                                                            *)
(***************************************************************************)
EXTENDS Integers, Sequences, FiniteSetsExt, NoValue

CONSTANTS
    LimCallers,
    Limit, Window,       \* Limit requests in Window; the bucket bursts to Limit
    EntryTTL,          \* keyedLimiters.ttl
    MaxLag,            \* bound: how late a call takes the mutex
    MaxLimTime         \* the bound of the clock

(* The bucket's budget needs an entry to be kept until it is full again.   *)
ASSUME LimiterAssumption ==
    /\ Limit \in Nat \ {0} /\ Window \in Nat \ {0}
    /\ MaxLag \in 0..(Window - 1)
    /\ EntryTTL \in Nat /\ EntryTTL >= Window
    /\ MaxLimTime \in Nat

(* What the map holds for a key. *)
EntriesOf(algorithm) ==
    CASE algorithm = "fixed"   -> [start : Int, count : Nat]
      [] algorithm = "log"     -> Seq(Nat)
      [] algorithm = "counter" -> [start : Int, current : Nat, previous : Nat]
      [] algorithm = "bucket"  -> [tokens : Nat, last : Nat, seen : Nat]

ASSUME NoEntryAssumption == \A a \in {"fixed", "log", "counter", "bucket"} : None \notin EntriesOf(a)

VARIABLES
    algo,
    limNow,
    readAt,       \* the time each caller has read, None outside of a call
    entry,        \* what the map holds for the key
    limSwept,     \* lastSweep
    allowedAt,    \* how many calls were allowed, by the time they had read
    latest,       \* the greatest time of a call so far
    laggard       \* some call took the mutex after one with a later time

limVars == <<algo, limNow, readAt, entry, limSwept, allowedAt, latest, laggard>>

LimInit ==
    /\ algo \in {"fixed", "log", "counter", "bucket"}
    /\ limNow = 0
    /\ readAt = [c \in LimCallers |-> None]
    /\ entry = None
    /\ limSwept = -Window       \* the zero time is long past
    /\ allowedAt = [t \in 0..MaxLimTime |-> 0]
    /\ latest = 0 /\ laggard = FALSE

-----------------------------------------------------------------------------
(* now.Truncate(Window) *)
StartOf(t) == t - (t % Window)

(* Mutant: an entry of the window before is swept while it still weighs,    *)
(* and a bucket before it is full.                                         *)
ExpiredEarly(e, t) ==
    CASE algo = "fixed"   -> e.start <= StartOf(t) - Window
      [] algo = "log"     -> e = <<>> \/ e[Len(e)] <= t - Window
      [] algo = "counter" -> e.start <= StartOf(t) - Window
      [] algo = "bucket"  -> e.seen < t

(* What a sweep at t drops. *)
Expired(e, t) ==
    CASE algo = "fixed"   -> e.start <= StartOf(t) - Window
      [] algo = "log"     -> e = <<>> \/ e[Len(e)] <= t - Window
      [] algo = "counter" -> e.start <= StartOf(t) - 2 * Window
      [] algo = "bucket"  -> e.seen < t - EntryTTL

SweepDue(t) == t - limSwept >= Window
AfterSweep(t) == IF SweepDue(t) /\ entry # None /\ Expired(entry, t) THEN None ELSE entry

(* Mutant: a hit counts until half a window later. *)
KeptHalf(log, t) == SelectSeq(log, LAMBDA h : h > t - Window \div 2)

(* The prefix of hits that left the window is dropped. *)
Kept(log, t) ==
    LET out == {i \in 1..Len(log) : \A j \in 1..i : log[j] <= t - Window}
    IN SubSeq(log, Cardinality(out) + 1, Len(log))

Fixed(e, t) == IF e # None /\ e.start = StartOf(t) THEN e ELSE [start |-> StartOf(t), count |-> 0]

(* The pair rolls by one window; after a gap, or backwards, it is emptied.  *)
Rolled(e, t) ==
    LET start == StartOf(t) IN
    CASE e # None /\ e.start = start          -> e
      [] e # None /\ start - e.start = Window -> [start |-> start, current |-> 0, previous |-> e.current]
      [] OTHER                                -> [start |-> start, current |-> 0, previous |-> 0]

(* rate.Limiter: what has been refilled at t, in parts of 1 / Window of a   *)
(* token.  A time before the last one refills nothing.                     *)
Refilled(e, t) ==
    IF e = None THEN Limit * Window
    ELSE LET gained == e.tokens + Limit * (t - e.last)
         IN IF t < e.last THEN e.tokens ELSE IF gained > Limit * Window THEN Limit * Window ELSE gained

(* Mutant: the present window is not counted. *)
WeightedPast(p, t) == p.previous * (Window - (t - p.start))

(* The estimate, times Window. *)
Weighted(p, t) == p.previous * (Window - (t - p.start)) + p.current * Window

(* The entry after a call at t that found e, and whether it was allowed.  A *)
(* denied call's token, reserved and given back at once, is left out.      *)
Decide(e, t) ==
    CASE algo = "fixed" ->
           LET f == Fixed(e, t) IN
           IF f.count >= Limit THEN <<f, FALSE>> ELSE <<[f EXCEPT !.count = @ + 1], TRUE>>
      [] algo = "log" ->
           LET log == Kept(IF e = None THEN <<>> ELSE e, t) IN
           IF Len(log) >= Limit THEN <<log, FALSE>> ELSE <<Append(log, t), TRUE>>
      [] algo = "counter" ->
           LET p == Rolled(e, t) IN
           IF Weighted(p, t) >= Limit * Window THEN <<p, FALSE>> ELSE <<[p EXCEPT !.current = @ + 1], TRUE>>
      [] algo = "bucket" ->
           LET tokens == Refilled(e, t) IN
           IF tokens < Window
           THEN <<[tokens |-> tokens, last |-> t, seen |-> t], FALSE>>
           ELSE <<[tokens |-> tokens - Window, last |-> t, seen |-> t], TRUE>>

(* A call reads the clock. *)
ReadClock(c) ==
    /\ readAt[c] = None
    /\ readAt' = [readAt EXCEPT ![c] = limNow]
    /\ UNCHANGED <<algo, limNow, entry, limSwept, allowedAt, latest, laggard>>

Locked(c) ==
    /\ readAt[c] # None
    /\ readAt' = [readAt EXCEPT ![c] = None]
    /\ limSwept' = IF SweepDue(readAt[c]) THEN readAt[c] ELSE limSwept
    /\ latest' = IF readAt[c] > latest THEN readAt[c] ELSE latest
    /\ laggard' = (laggard \/ readAt[c] < latest)
    /\ UNCHANGED <<algo, limNow>>

(* Then it takes the mutex, sweeps, and decides. *)
Allow(c) ==
    /\ Locked(c)
    /\ LET t == readAt[c]
           d == Decide(AfterSweep(t), t)
       IN
       /\ entry' = d[1]
       /\ allowedAt' = [allowedAt EXCEPT ![t] = IF d[2] THEN @ + 1 ELSE @]

(* A call for another key. *)
AllowOther(c) ==
    /\ Locked(c)
    /\ entry' = AfterSweep(readAt[c])
    /\ UNCHANGED allowedAt

PassLimTime ==
    /\ limNow < MaxLimTime
    /\ \A c \in LimCallers : readAt[c] # None => limNow - readAt[c] < MaxLag
    /\ limNow' = limNow + 1
    /\ UNCHANGED <<algo, readAt, entry, limSwept, allowedAt, latest, laggard>>

LimNext == PassLimTime \/ \E c \in LimCallers : ReadClock(c) \/ Allow(c) \/ AllowOther(c)

LimSpec == LimInit /\ [][LimNext]_limVars

-----------------------------------------------------------------------------
(* Properties. *)

(* Calls allowed with a time in first .. last, of counts by time. *)
AllowedIn(counts, first, last) == MapThenSumSet(LAMBDA t : counts[t], first..last \cap 0..MaxLimTime)

(* While calls keep the order of their times, no aligned window gets more   *)
(* than Limit; a laggard of the window before starts the counters afresh.  *)
WindowsWithinLimit ==
    algo \in {"fixed", "counter"} /\ ~laggard =>
        \A t \in 0..MaxLimTime : AllowedIn(allowedAt, StartOf(t), StartOf(t) + Window - 1) <= Limit

(* SlidingLog is exact while calls keep the order of their times.  A call   *)
(* may come MaxLag after the one that has dropped what it should count, and *)
(* the sweep judges a log by its last time, which is then up to MaxLag less *)
(* than another in it: that much shorter is the stretch that never has more.*)
Lost == IF laggard THEN 2 * MaxLag ELSE 0
LogIsExact ==
    algo = "log" => \A t \in 0..MaxLimTime : AllowedIn(allowedAt, t - (Window - Lost) + 1, t) <= Limit

(* The bucket never gives more than its burst and what has been refilled,   *)
(* though idle entries are swept and begin full.                           *)
BucketWithinBudget ==
    algo = "bucket" /\ ~laggard => \A s, t \in 0..MaxLimTime :
        s <= t => AllowedIn(allowedAt, s, t) * Window <= Limit * Window + Limit * (t - s)

(* Each of the four algorithms keeps the limit that it can promise when the *)
(* time is read before its lock is taken.                                   *)
LocalLimitsHold == WindowsWithinLimit /\ LogIsExact /\ BucketWithinBudget
=============================================================================
