--------------------------- MODULE SlidingWindow ---------------------------
(***************************************************************************)
(* The Redis-backed sliding window limiter that guards register and login  *)
(* (capstones/url-shortener/internal/ratelimit/ratelimit.go, and its copy  *)
(* in capstones/bookmark-manager).  A call reads its own clock, then asks  *)
(* Redis to run one script that trims, counts and adds; calls overlap, and *)
(* the scripts run in an order of their own.                               *)
(***************************************************************************)
EXTENDS Integers, FiniteSets

CONSTANTS
    Keys,
    Limit, Window,
    Slack,       \* what PEXPIRE adds to the window (one second)
    MaxDelay,    \* the longest time from reading the clock to the script
    SkewBehind, SkewAhead,   \* how far a caller's clock is off
    Second, RoundUp,         \* instants in a second, and in the 0.999 s of refuse
    MaxCalls,    \* bound: calls made
    MaxTime      \* bound: the last instant

ASSUME ConstantsAssumption ==
    /\ Limit \in Nat \ {0} /\ Window \in Nat \ {0}
    /\ Slack \in Nat /\ MaxDelay \in Nat
    /\ SkewBehind \in Nat /\ SkewAhead \in Nat
    /\ Second \in Nat \ {0} /\ RoundUp \in 0..(Second - 1)
    /\ MaxCalls \in Nat /\ MaxTime \in Nat

VARIABLES
    now,        \* Redis's clock
    sent,       \* members handed out so far
    calls,      \* Allow calls whose script has not run
    bucket,     \* the sorted set of each key
    until,      \* when the key expires
    admitted    \* history: what was admitted since the key was last reset

vars == <<now, sent, calls, bucket, until, admitted>>

Entry   == [n : 1..MaxCalls, at : Int]
Call    == [key : Keys, n : 1..MaxCalls, at : Int, by : Nat]
KeepFor == Window + Slack

TypeOK ==
    /\ now \in 0..MaxTime
    /\ sent \in 0..MaxCalls
    /\ calls \in SUBSET Call
    /\ bucket \in [Keys -> SUBSET Entry]
    /\ until \in [Keys -> Nat]
    /\ admitted \in [Keys -> SUBSET Entry]

Init ==
    /\ now = 0
    /\ sent = 0
    /\ calls = {}
    /\ bucket = [k \in Keys |-> {}]
    /\ until = [k \in Keys |-> 0]
    /\ admitted = [k \in Keys |-> {}]

-----------------------------------------------------------------------------
(* Allow reads the caller's clock and makes a member no other call has. *)
Arrive(k, skew) ==
    /\ sent < MaxCalls
    /\ sent' = sent + 1
    /\ calls' = calls \cup {[key |-> k, n |-> sent', at |-> now + skew, by |-> now + MaxDelay]}
    /\ UNCHANGED <<now, bucket, until, admitted>>

(* ZREMRANGEBYSCORE key -inf now-window; the mutant trims an instant too much. *)
KeptTooFew(k, at) == {e \in bucket[k] : e.at > at - Window + 1}

Kept(k, at) == {e \in bucket[k] : e.at > at - Window}

(* ZCARD against the limit; the mutant is off by one. *)
AdmitsOneMore(k, at) == Cardinality(Kept(k, at)) <= Limit

Admits(k, at) == Cardinality(Kept(k, at)) < Limit

(* The oldest entry that survives decides when a slot frees up; the mutant takes the newest. *)
ResetInNewest(k, at) ==
    LET newest == CHOOSE e \in Kept(k, at) : \A f \in Kept(k, at) : f.at <= e.at
    IN  newest.at + Window - at

ResetIn(k, at) ==
    LET oldest == CHOOSE e \in Kept(k, at) : \A f \in Kept(k, at) : e.at <= f.at
    IN  IF oldest.at + Window - at < 0 THEN 0 ELSE oldest.at + Window - at

(* The Retry-After of refuse, in whole seconds and at least one: ResetIn and *)
(* RoundUp, truncated.  The mutant only truncates.                         *)
RetryTruncated(k, at) == LET n == ResetIn(k, at) \div Second IN IF n < 1 THEN 1 ELSE n

RetryAfter(k, at) == LET n == (ResetIn(k, at) + RoundUp) \div Second IN IF n < 1 THEN 1 ELSE n

(* The set member: unique per call, scored by the caller's clock, not the clock alone. *)
MemberByTime(c) == [n |-> 0, at |-> c.at]
Member(c)       == [n |-> c.n, at |-> c.at]

(* The script, one atomic step in Redis.  The mutant leaves PEXPIRE out. *)
RunNeverExpires(c) ==
    /\ c \in calls
    /\ calls' = calls \ {c}
    /\ bucket' = [bucket EXCEPT ![c.key] =
                    Kept(c.key, c.at) \cup (IF Admits(c.key, c.at) THEN {Member(c)} ELSE {})]
    /\ admitted' = [admitted EXCEPT ![c.key] =
                    @ \cup (IF Admits(c.key, c.at) THEN {Member(c)} ELSE {})]
    /\ UNCHANGED <<now, sent, until>>

Run(c) ==
    /\ c \in calls
    /\ calls' = calls \ {c}
    /\ IF Admits(c.key, c.at)
       THEN /\ bucket' = [bucket EXCEPT ![c.key] = Kept(c.key, c.at) \cup {Member(c)}]
            /\ until' = [until EXCEPT ![c.key] = now + KeepFor]
            /\ admitted' = [admitted EXCEPT ![c.key] = @ \cup {Member(c)}]
       ELSE /\ bucket' = [bucket EXCEPT ![c.key] = Kept(c.key, c.at)]
            /\ UNCHANGED <<until, admitted>>
    /\ UNCHANGED <<now, sent>>

(* The call fails before Redis runs it: an error, and the endpoint fails closed. *)
Lost(c) ==
    /\ c \in calls
    /\ calls' = calls \ {c}
    /\ UNCHANGED <<now, sent, bucket, until, admitted>>

(* DEL, after a successful login. *)
Reset(k) ==
    /\ bucket' = [bucket EXCEPT ![k] = {}]
    /\ until' = [until EXCEPT ![k] = 0]
    /\ admitted' = [admitted EXCEPT ![k] = {}]
    /\ UNCHANGED <<now, sent, calls>>

(* Time passes; Redis drops a key whose time is up. *)
Tick ==
    /\ now < MaxTime
    /\ \A c \in calls : now < c.by
    /\ now' = now + 1
    /\ bucket' = [k \in Keys |-> IF until[k] <= now' THEN {} ELSE bucket[k]]
    /\ UNCHANGED <<sent, calls, until, admitted>>

Next ==
    \/ \E k \in Keys, skew \in -SkewBehind..SkewAhead : Arrive(k, skew)
    \/ \E c \in calls : Run(c) \/ Lost(c)
    \/ \E k \in Keys : Reset(k)
    \/ Tick

Spec == Init /\ [][Next]_vars

-----------------------------------------------------------------------------
(* Properties. *)

(* The admitted calls of a key whose clock lies in the window of the given *)
(* length that ends at t.                                                  *)
AdmittedIn(k, t, length) == {a \in admitted[k] : t - length < a.at /\ a.at <= t}

(* The limit holds over every window position, the windows shortened by    *)
(* how late and how skewed a call's clock can be when its script runs: it  *)
(* is exact when scripts run at the instant their callers read.            *)
WindowBound ==
    \A k \in Keys : \A b \in admitted[k] :
        Cardinality(AdmittedIn(k, b.at, Window - MaxDelay - SkewBehind - SkewAhead)) <= Limit

(* The package's own words: the limit holds over every window position.    *)
ExactWindow ==
    \A k \in Keys : \A b \in admitted[k] : Cardinality(AdmittedIn(k, b.at, Window)) <= Limit

(* Memory is proportional to the limit: the script's count and the ZADD    *)
(* after it never leave more than Limit members, however calls overlap.    *)
BucketAtMostLimit == \A k \in Keys : Cardinality(bucket[k]) <= Limit

(* A refused caller that waits ResetIn, a duration, finds a slot if nobody *)
(* else calls, and no shorter wait would do.  No client sees ResetIn.      *)
ResetInExact ==
    \A c \in calls :
        ~Admits(c.key, c.at) =>
            /\ Admits(c.key, c.at + ResetIn(c.key, c.at))
            /\ \A r \in 0..(ResetIn(c.key, c.at) - 1) : ~Admits(c.key, c.at + r)

(* What the client is told, in whole seconds: who waits Retry-After may come *)
(* too early, but by less than what RoundUp lacks of a second (1 ms); and,  *)
(* but for the first, every second of the wait is needed.                  *)
RetryAfterClose ==
    \A c \in calls :
        ~Admits(c.key, c.at) =>
            LET n == RetryAfter(c.key, c.at) IN
            /\ Admits(c.key, c.at + n * Second + (Second - 1 - RoundUp))
            /\ n > 1 => ~Admits(c.key, c.at + (n - 1) * Second)

(* A key that holds entries is due to expire, within the window and Slack  *)
(* of now, so an idle client leaves nothing behind.                        *)
IdleKeyExpires ==
    \A k \in Keys : bucket[k] # {} => now < until[k] /\ until[k] <= now + KeepFor

(* What the limiter promises: the limit over every window, in memory that   *)
(* is bounded and given back, a ResetIn that is exact, and a Retry-After    *)
(* that is less than a millisecond short and less than a second long.       *)
LimitHolds == WindowBound /\ BucketAtMostLimit /\ IdleKeyExpires /\ ResetInExact /\ RetryAfterClose
=============================================================================
