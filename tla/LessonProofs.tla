---------------------------- MODULE LessonProofs ----------------------------
(***************************************************************************)
(* The lessons: SearchAnswer for ints of every width, the history of       *)
(* webhook deliveries for every TTL and sweep interval, the consumer loops *)
(* for every log, the three ways to transfer money for all accounts and    *)
(* amounts, the connections of a hub for any number of broadcasters and    *)
(* any timeouts, and the limiters of one process for any number of         *)
(* callers, the ring buffer and its matchmaker for any players and         *)
(* capacity, and the hash table for any keys, hash functions and sizes.    *)
(***************************************************************************)
EXTENDS LessonSteps, Consumer, Transfers, WebSockets, LocalLimiters, FiniteSetTheorems, SequenceTheorems, TLAPS

-----------------------------------------------------------------------------
(* SearchAnswer. *)

(* Unsigned arithmetic gives the true midpoint of every two ints. *)
LEMMA MidpointIsTrue ==
    ASSUME NEW l \in Ints, NEW h \in Ints, l <= h
    PROVE  /\ Midpoint(l, h) = l + (h - l) \div 2
           /\ Midpoint(l, h) \in Ints
           /\ l <= Midpoint(l, h) /\ Midpoint(l, h) <= h
           /\ l < h => Midpoint(l, h) < h
<1> DEFINE half == (h - l) \div 2
<1>1. /\ half \in Int /\ 0 <= half /\ 2 * half <= h - l
      /\ l < h => half < h - l
  BY WidthAssumption DEF Ints, MinInt
<1>2. WrapUint(Unsigned(h) - Unsigned(l)) = h - l
  BY WidthAssumption DEF Ints, MinInt, Modulus, WrapUint, Unsigned
<1>3. Midpoint(l, h) = Signed(WrapUint(Unsigned(l) + half))
  BY <1>2 DEF Midpoint
<1> HIDE DEF half
<1>4. Signed(WrapUint(Unsigned(l) + half)) = l + half
  BY <1>1, WidthAssumption DEF Ints, MinInt, Modulus, Signed, WrapUint, Unsigned
<1>5. l <= l + half /\ l + half <= h /\ (l < h => l + half < h) /\ l + half \in Ints
  BY <1>1, WidthAssumption DEF Ints, MinInt
<1> QED  BY <1>3, <1>4, <1>5 DEF half

(* What the loop keeps: the range holds what is still possible, everything *)
(* below it fails, and the best so far is just above it.                   *)
Progress ==
    /\ searching  => /\ low <= lo /\ lo <= hi /\ hi <= high
                     /\ lo = low \/ lo <= boundary
                     /\ IF found THEN hi = best - 1 /\ Ok(best) /\ best <= high ELSE hi = high
    /\ ~searching => IF low <= high /\ boundary <= high
                     THEN found /\ best = (IF low >= boundary THEN low ELSE boundary)
                     ELSE ~found

SearchInv == SearchTypeOK /\ Progress

(* The loop begins with the whole range. *)
LEMMA InitProgress == SearchInit => SearchInv
<1> SUFFICES ASSUME SearchInit PROVE SearchInv
  OBVIOUS
<1>1. /\ low \in Ints /\ high \in Ints /\ lo = low /\ hi = high /\ best = 0 /\ found = FALSE
      /\ boundary \in MinInt..(MaxInt + 1) /\ searching = (low <= high)
  BY DEF SearchInit
<1>2. 0 \in Ints
  BY WidthAssumption DEF Ints, MinInt
<1>3. searching = (low <= high)
  BY <1>1
<1>4. CASE low <= high
  <2>1. searching = TRUE
    BY <1>3, <1>4, Zenon
  <2>2. SearchTypeOK
    BY <1>1, <1>2, <2>1 DEF SearchTypeOK
  <2>3. Progress
    BY <1>1, <1>4, <2>1, WidthAssumption DEF Progress, Ints, MinInt
  <2> QED  BY <2>2, <2>3 DEF SearchInv
<1>5. CASE ~(low <= high)
  <2> DEFINE within == low <= high
  <2>0. within = FALSE
    BY <1>5, SMT
  <2> HIDE DEF within
  <2>1. searching = FALSE
    BY <1>3, <2>0 DEF within
  <2>2. SearchTypeOK
    BY <1>1, <1>2, <2>1 DEF SearchTypeOK
  <2>3. Progress
    BY <1>1, <1>5, <2>1 DEF Progress
  <2> QED  BY <2>2, <2>3 DEF SearchInv
<1> QED  BY <1>4, <1>5

(* A turn of the loop, with its midpoint named. *)
LEMMA TurnKeepsInv == SearchInv /\ [SearchNext]_searchVars => SearchInv'
<1> SUFFICES ASSUME SearchInv, [SearchNext]_searchVars PROVE SearchInv'
  OBVIOUS
<1> DEFINE mid == Midpoint(lo, hi)
<1>1. ASSUME searching
      PROVE  /\ mid \in Ints /\ lo <= mid /\ mid <= hi
  BY <1>1, MidpointIsTrue DEF SearchInv, SearchTypeOK, Progress
<1>2. CASE LookBelow
  <2> HIDE DEF mid
  <2>1. /\ searching /\ boundary <= mid /\ best' = mid /\ found' = TRUE
        /\ low' = low /\ high' = high /\ boundary' = boundary /\ lo' = lo
    BY <1>2 DEF LookBelow, Ok, mid
  <2>2. mid \in Ints /\ lo <= mid /\ mid <= hi
    BY <1>1, <2>1
  <2>3. CASE mid = lo
    <3>1. hi' = hi /\ searching' = FALSE
      BY <1>2, <2>3 DEF LookBelow, mid
    <3>2. SearchTypeOK'
      BY <2>1, <2>2, <3>1 DEF SearchInv, SearchTypeOK, Ints, MinInt
    <3>3. Progress'
      BY <2>1, <2>2, <2>3, <3>1, WidthAssumption DEF SearchInv, SearchTypeOK, Progress, Ok, Ints, MinInt
    <3> QED  BY <3>2, <3>3 DEF SearchInv
  <2>4. CASE mid # lo
    <3>1. Wrap(mid - 1) = mid - 1 /\ mid - 1 \in Ints
      BY <2>2, <2>4, WidthAssumption DEF Wrap, Ints, MinInt, SearchInv, SearchTypeOK
    <3>2. hi' = mid - 1 /\ searching' = (lo <= mid - 1)
      BY <1>2, <2>4, <3>1 DEF LookBelow, mid
    <3> lo <= mid - 1
      BY <2>2, <2>4 DEF Ints, MinInt, SearchInv, SearchTypeOK
    <3>3. lo <= mid - 1 /\ searching' = TRUE
      BY <3>2, Zenon
    <3>4. SearchTypeOK'
      BY <2>1, <2>2, <3>1, <3>2, <3>3 DEF SearchInv, SearchTypeOK
    <3>5. Progress'
      BY <2>1, <2>2, <3>2, <3>3, WidthAssumption DEF SearchInv, SearchTypeOK, Progress, Ok, Ints, MinInt
    <3> QED  BY <3>4, <3>5 DEF SearchInv
  <2> QED  BY <2>3, <2>4
<1>3. CASE LookAbove
  <2> HIDE DEF mid
  <2>1. /\ searching /\ mid < boundary /\ best' = best /\ found' = found
        /\ low' = low /\ high' = high /\ boundary' = boundary /\ hi' = hi
    BY <1>1, <1>3, WidthAssumption DEF LookAbove, Ok, mid, SearchInv, SearchTypeOK, Ints, MinInt
  <2>2. mid \in Ints /\ lo <= mid /\ mid <= hi
    BY <1>1, <2>1
  <2>3. CASE mid = hi
    <3>1. lo' = lo /\ searching' = FALSE
      BY <1>3, <2>3 DEF LookAbove, mid
    <3>2. SearchTypeOK'
      BY <2>1, <2>2, <3>1 DEF SearchInv, SearchTypeOK, Ints, MinInt
    <3>3. Progress'
      BY <2>1, <2>2, <2>3, <3>1, WidthAssumption DEF SearchInv, SearchTypeOK, Progress, Ok, Ints, MinInt
    <3> QED  BY <3>2, <3>3 DEF SearchInv
  <2>4. CASE mid # hi
    <3>1. Wrap(mid + 1) = mid + 1 /\ mid + 1 \in Ints
      BY <2>2, <2>4, WidthAssumption DEF Wrap, Ints, MinInt, SearchInv, SearchTypeOK
    <3>2. lo' = mid + 1 /\ searching' = (mid + 1 <= hi)
      BY <1>3, <2>4, <3>1 DEF LookAbove, mid
    <3> mid + 1 <= hi
      BY <2>2, <2>4 DEF Ints, MinInt, SearchInv, SearchTypeOK
    <3>3. mid + 1 <= hi /\ searching' = TRUE
      BY <3>2, Zenon
    <3>4. SearchTypeOK'
      BY <2>1, <2>2, <3>1, <3>2, <3>3 DEF SearchInv, SearchTypeOK
    <3>5. Progress'
      BY <2>1, <2>2, <3>2, <3>3, WidthAssumption DEF SearchInv, SearchTypeOK, Progress, Ok, Ints, MinInt
    <3> QED  BY <3>4, <3>5 DEF SearchInv
  <2> QED  BY <2>3, <2>4
<1>4. CASE UNCHANGED searchVars
  BY <1>4 DEF searchVars, SearchInv, SearchTypeOK, Progress, Ok
<1> QED  BY <1>2, <1>3, <1>4 DEF SearchNext

(* The inductive invariant holds in every state. *)
THEOREM SearchKeepsInv == SearchSpec => []SearchInv
BY InitProgress, TurnKeepsInv, PTL DEF SearchSpec

(* The loop's variables stay ints of the machine, whatever the arguments. *)
THEOREM SearchTypes == SearchSpec => []SearchTypeOK
<1>1. SearchInv => SearchTypeOK  BY DEF SearchInv
<1> QED  BY <1>1, SearchKeepsInv, PTL

(* SearchAnswer ends on the least value that works, for every width, every *)
(* pair of bounds and every monotonic predicate (rotated.go:145).          *)
THEOREM LeastIsFound == SearchSpec => []AnswerIsLeast
<1>1. SearchInv => AnswerIsLeast  BY DEF SearchInv, Progress, AnswerIsLeast
<1> QED  BY <1>1, SearchKeepsInv, PTL

(* SearchMax, read off that end, is the greatest value that works          *)
(* (binarysearchanswer.go:82).                                             *)
THEOREM GreatestIsFound == SearchSpec => []AnswerIsGreatest
<1>1. ASSUME SearchInv PROVE AnswerIsGreatest
  <2> SUFFICES ASSUME ~searching PROVE AnswerIsGreatest
    BY DEF AnswerIsGreatest
  <2>1. /\ low \in Ints /\ high \in Ints /\ boundary \in Int /\ best \in Ints /\ MaxInt \in Nat
        /\ IF low <= high /\ boundary <= high
           THEN found /\ best = (IF low >= boundary THEN low ELSE boundary)
           ELSE ~found
    BY <1>1, WidthAssumption DEF SearchInv, SearchTypeOK, Progress, Ints, MinInt
  <2>2. CASE low > high
    BY <2>1, <2>2 DEF AnswerIsGreatest, SearchMax, Ints, MinInt
  <2>3. CASE low <= high /\ boundary > high
    BY <2>1, <2>3 DEF AnswerIsGreatest, SearchMax, Ints, MinInt
  <2>4. CASE low <= high /\ boundary <= high /\ boundary <= low
    BY <2>1, <2>4 DEF AnswerIsGreatest, SearchMax, Ints, MinInt
  <2>5. CASE low <= high /\ boundary <= high /\ low < boundary
    <3>1. found /\ best = boundary /\ best # low /\ Wrap(best - 1) = boundary - 1
      BY <2>1, <2>5 DEF Wrap, Ints, MinInt
    <3> QED  BY <2>1, <2>5, <3>1 DEF AnswerIsGreatest, SearchMax, Ints, MinInt
  <2> QED  BY <2>1, <2>2, <2>3, <2>4, <2>5 DEF Ints, MinInt
<1> QED  BY <1>1, SearchKeepsInv, PTL

(* Every turn of the loop shrinks its range or ends it, also where a bound *)
(* is the least or the greatest int: no input makes it hang.               *)
THEOREM RangesShrink == SearchSpec => RangeShrinks
<1>1. ASSUME SearchInv, [SearchNext]_searchVars
      PROVE  [lo' >= lo /\ hi' <= hi /\ (searching' => hi' - lo' < hi - lo)]_searchVars
  <2> SUFFICES ASSUME SearchNext
               PROVE  lo' >= lo /\ hi' <= hi /\ (searching' => hi' - lo' < hi - lo)
    BY <1>1
  <2> DEFINE mid == Midpoint(lo, hi)
  <2> searching
    BY DEF SearchNext, LookBelow, LookAbove
  <2> lo \in Ints /\ hi \in Ints /\ lo <= hi
    BY <1>1 DEF SearchInv, SearchTypeOK, Progress
  <2> mid \in Ints /\ lo <= mid /\ mid <= hi
    BY MidpointIsTrue
  <2>1. searching /\ mid \in Ints /\ lo <= mid /\ mid <= hi /\ lo \in Int /\ hi \in Int /\ mid \in Int
    BY WidthAssumption DEF Ints, MinInt
  <2>2. mid # lo => Wrap(mid - 1) = mid - 1
    BY <1>1, <2>1, WidthAssumption DEF Wrap, Ints, MinInt, SearchInv, SearchTypeOK
  <2>3. mid # hi => Wrap(mid + 1) = mid + 1
    BY <1>1, <2>1, WidthAssumption DEF Wrap, Ints, MinInt, SearchInv, SearchTypeOK
  <2>4. \/ lo' = lo /\ hi' = hi /\ searching' = FALSE
        \/ lo' = lo /\ hi' = mid - 1
        \/ hi' = hi /\ lo' = mid + 1
    BY <2>2, <2>3 DEF SearchNext, LookBelow, LookAbove
  <2> HIDE DEF mid
  <2> QED  BY <2>1, <2>4
<1> QED  BY <1>1, SearchKeepsInv, PTL DEF SearchSpec, RangeShrinks

(* The search over answers as a whole, at every width of int. *)
THEOREM AnswersFound == SearchSpec => []AnswersAreFound
<1>1. SearchTypeOK /\ AnswerIsLeast /\ AnswerIsGreatest => AnswersAreFound
  BY DEF AnswersAreFound
<1> QED BY <1>1, SearchTypes, LeastIsFound, GreatestIsFound, PTL

-----------------------------------------------------------------------------
(* Webhook deliveries: the inductive invariant, by parts. *)

Open == {"asking", "processing", "failing"}

HookTypeOK ==
    /\ hookNow \in Nat /\ lastSweep \in Nat
    /\ seen \in [Events -> Nat \cup {None}]
    /\ event \in [Deliveries -> Events \cup {None}]
    /\ stage \in [Deliveries -> {"unsent", "answered"} \cup Open]
    /\ asked \in [Deliveries -> Nat \cup {None}]
    /\ outwaited \in BOOLEAN /\ overran \in BOOLEAN

(* A delivery that was sent is of an event, and one that is not answered    *)
(* has read the clock.                                                     *)
SentHasEvent ==
    \A d \in Deliveries : /\ stage[d] # "unsent" => event[d] \in Events
                          /\ stage[d] \in Open => asked[d] \in Nat /\ asked[d] <= hookNow

(* The two histories say what they should. *)
NoneIsLate ==
    \A d \in Deliveries :
        /\ ~outwaited /\ stage[d] = "asking" => hookNow - asked[d] < SeenTTL
        /\ ~overran /\ stage[d] \in Open => hookNow - asked[d] < SeenTTL

(* What is remembered is younger than the last sweep would have left it,    *)
(* also where it was recorded after the sweep by an earlier clock.         *)
SeenSinceSweep ==
    /\ lastSweep <= hookNow
    /\ \A e \in Events : seen[e] # None =>
           seen[e] <= hookNow /\ (~outwaited => lastSweep < seen[e] + SeenTTL)

(* The ID of what is in process is recorded, at the time it was asked. *)
InProcessIsRecorded ==
    ~overran => \A d \in Deliveries : InProcess(d) => seen[event[d]] = asked[d]

HookInv ==
    /\ HookTypeOK /\ SentHasEvent /\ NoneIsLate /\ SeenSinceSweep
    /\ DuplicateHasReason /\ InProcessIsRecorded /\ OneAtATime

(* What a call that read the clock at t leaves of the map: what is younger  *)
(* than the TTL, and if it does not sweep, what the last sweep has left.   *)
LEMMA SweptFacts ==
    ASSUME HookInv, NEW t \in Nat
    PROVE  /\ Swept(t) \in [Events -> Nat \cup {None}]
           /\ \A e \in Events : Swept(t)[e] # None =>
                  /\ Swept(t)[e] = seen[e]
                  /\ HistoryDue(t) => t < Swept(t)[e] + SeenTTL
                  /\ ~HistoryDue(t) => t < lastSweep + SweepEvery
           /\ \A e \in Events : seen[e] # None /\ t - seen[e] < SeenTTL => Swept(t)[e] = seen[e]
<1> USE HookAssumption DEF HookInv, HookTypeOK
<1>1. CASE HistoryDue(t)
  BY <1>1 DEF Swept, Old
<1>2. CASE ~HistoryDue(t)
  BY <1>2 DEF Swept, Old, HistoryDue
<1> QED BY <1>1, <1>2

(* Seen. *)
LEMMA SeenKeeps == ASSUME HookInv, NEW d \in Deliveries, Seen(d) PROVE HookInv'
<1> USE HookAssumption DEF HookInv
<1> DEFINE e == event[d]
           t == asked[d]
<1>1. /\ stage[d] = "asking" /\ UNCHANGED <<hookNow, event, processed, outwaited, overran>>
      /\ lastSweep' = IF HistoryDue(t) THEN t ELSE lastSweep
      /\ \/ /\ Known(t, e) /\ stage' = [stage EXCEPT ![d] = "answered"] /\ asked' = [asked EXCEPT ![d] = None]
            /\ seen' = Swept(t) /\ panicked' = panicked
         \/ /\ ~Known(t, e) /\ stage' = [stage EXCEPT ![d] = "processing"] /\ asked' = asked
            /\ seen' = [Swept(t) EXCEPT ![e] = t] /\ panicked' = panicked \ {e}
  BY DEF Seen
<1>2. e \in Events /\ ~InProcess(d) /\ t \in Nat /\ t <= hookNow /\ t # None
  BY <1>1 DEF SentHasEvent, InProcess, Open
<1>3. /\ ~outwaited => hookNow - t < SeenTTL
      /\ ~overran => hookNow - t < SeenTTL
  BY <1>1 DEF NoneIsLate, Open
<1> HIDE DEF e, t
<1>4. HookTypeOK'
  <2>1. Swept(t) \in [Events -> Nat \cup {None}]
    BY <1>2, SweptFacts
  <2>2. seen' \in [Events -> Nat \cup {None}] /\ lastSweep' \in Nat
    BY <1>1, <1>2, <2>1 DEF HookTypeOK
  <2> QED BY <1>1, <2>2 DEF HookTypeOK, Open
<1>5. /\ \A k \in Events \ {e} : seen'[k] = Swept(t)[k]
      /\ \A c \in Deliveries \ {d} : stage'[c] = stage[c] /\ asked'[c] = asked[c] /\ (InProcess(c)' <=> InProcess(c))
      /\ \/ Known(t, e) /\ ~InProcess(d)' /\ stage'[d] = "answered" /\ seen'[e] = Swept(t)[e] /\ panicked' = panicked
         \/ /\ ~Known(t, e) /\ InProcess(d)' /\ stage'[d] = "processing" /\ seen'[e] = t /\ asked'[d] = t
            /\ panicked' = panicked \ {e}
      /\ stage'[d] # "unsent" /\ stage'[d] # "asking"
  BY <1>1, <1>2, SweptFacts DEF HookTypeOK, InProcess, t
<1>6. SentHasEvent' /\ NoneIsLate'
  BY <1>1, <1>2, <1>3, <1>5 DEF SentHasEvent, NoneIsLate, HookTypeOK, Open, e
<1>7. SeenSinceSweep'
  <2>1. lastSweep' <= hookNow /\ lastSweep \in Nat /\ lastSweep <= hookNow /\ hookNow \in Nat
    BY <1>1, <1>2 DEF SeenSinceSweep, HookTypeOK
  <2>2. ASSUME NEW k \in Events, seen'[k] # None, seen'[k] = Swept(t)[k]
        PROVE  seen'[k] <= hookNow /\ (~outwaited => lastSweep' < seen'[k] + SeenTTL)
    BY <1>1, <1>2, <2>2, SweptFacts DEF SeenSinceSweep, HookTypeOK
  <2>3. t <= hookNow /\ (~outwaited => lastSweep' < t + SeenTTL)
    BY <1>1, <1>2, <1>3, <2>1
  <2> QED BY <1>1, <1>5, <2>1, <2>2, <2>3 DEF SeenSinceSweep
<1>8. DuplicateHasReason'
  <2> SUFFICES ASSUME NEW k \in Events, seen'[k] # None
               PROVE  k \in processed \cup panicked' \/ \E c \in Deliveries : event[c] = k /\ InProcess(c)'
    BY <1>1 DEF DuplicateHasReason
  <2>1. CASE k = e /\ InProcess(d)'
    BY <2>1 DEF e
  <2>2. CASE ~(k = e /\ InProcess(d)')
    <3>1. seen'[k] = Swept(t)[k] /\ (k \in panicked => k \in panicked')
      BY <1>5, <2>2
    <3>2. seen[k] # None
      BY <1>2, <3>1, SweptFacts
    <3>3. k \in processed \cup panicked \/ \E c \in Deliveries : event[c] = k /\ InProcess(c)
      BY <3>2 DEF DuplicateHasReason
    <3> QED BY <1>2, <1>5, <3>1, <3>3
  <2> QED BY <2>1, <2>2
<1>9. ASSUME ~overran, NEW c \in Deliveries \ {d}, InProcess(c)
      PROVE  event[c] \in Events /\ Known(t, event[c]) /\ Swept(t)[event[c]] = asked[c]
  <2>1. seen[event[c]] = asked[c] /\ hookNow - asked[c] < SeenTTL /\ asked[c] \in Nat /\ event[c] \in Events
    BY <1>9 DEF InProcessIsRecorded, SentHasEvent, NoneIsLate, InProcess, Open
  <2>2. asked[c] # None /\ t - asked[c] < SeenTTL
    BY <1>2, <2>1 DEF HookTypeOK
  <2> QED BY <1>2, <2>1, <2>2, SweptFacts DEF Known, Old, HookTypeOK
<1>10. InProcessIsRecorded'
  <2> SUFFICES ASSUME ~overran, NEW c \in Deliveries, InProcess(c)' PROVE seen'[event[c]] = asked'[c]
    BY <1>1 DEF InProcessIsRecorded
  <2>1. CASE c = d
    BY <1>5, <2>1 DEF e
  <2>2. CASE c # d
    BY <1>5, <1>9, <2>2
  <2> QED BY <2>1, <2>2
<1>11. OneAtATime'
  <2> SUFFICES ASSUME ~overran, NEW b \in Deliveries, NEW c \in Deliveries, InProcess(b)', InProcess(c)', event[b] = event[c]
               PROVE  b = c
    BY <1>1 DEF OneAtATime
  <2>1. b # d /\ c # d => b = c
    BY <1>5 DEF OneAtATime
  <2>2. b = d /\ c # d => FALSE
    BY <1>5, <1>9 DEF e
  <2>3. c = d /\ b # d => FALSE
    BY <1>5, <1>9 DEF e
  <2> QED BY <2>1, <2>2, <2>3
<1> QED BY <1>4, <1>6, <1>7, <1>8, <1>10, <1>11

(* The handler's other steps. *)
LEMMA HandlerKeeps ==
    ASSUME HookInv, NEW d \in Deliveries, (\E e \in Events : Deliver(d, e)) \/ Process(d) \/ Fail(d)
    PROVE  HookInv'
<1> USE HookAssumption DEF HookInv
<1>1. CASE \E e \in Events : Deliver(d, e)
  <2>1. PICK e \in Events : Deliver(d, e)
    BY <1>1
  <2>2. /\ UNCHANGED <<hookNow, seen, lastSweep, processed, panicked, outwaited, overran>> /\ ~InProcess(d) /\ ~InProcess(d)'
        /\ event'[d] = e /\ asked'[d] = hookNow
        /\ \A c \in Deliveries \ {d} : event'[c] = event[c] /\ stage'[c] = stage[c] /\ asked'[c] = asked[c]
        /\ \A c \in Deliveries : InProcess(c)' <=> InProcess(c)
    BY <2>1 DEF Deliver, InProcess, HookTypeOK
  <2>3. HookTypeOK'
    BY <2>1 DEF Deliver, HookTypeOK, Open
  <2>4. SentHasEvent' /\ NoneIsLate' /\ SeenSinceSweep'
    BY <2>2 DEF SentHasEvent, NoneIsLate, SeenSinceSweep, HookTypeOK
  <2>5. DuplicateHasReason'
    BY <2>2 DEF DuplicateHasReason
  <2>6. InProcessIsRecorded' /\ OneAtATime'
    BY <2>2 DEF InProcessIsRecorded, OneAtATime
  <2> QED BY <2>3, <2>4, <2>5, <2>6
<1>2. CASE Process(d)
  <2>1. /\ UNCHANGED <<hookNow, seen, lastSweep, event, outwaited, overran>> /\ stage[d] = "processing"
        /\ \A c \in Deliveries \ {d} : stage'[c] = stage[c] /\ asked'[c] = asked[c]
        /\ stage'[d] \in {"answered", "failing"} /\ (stage'[d] \in Open => asked'[d] = asked[d])
        /\ \A c \in Deliveries : InProcess(c)' => InProcess(c) /\ asked'[c] = asked[c]
        /\ event[d] \in processed' \cup panicked' \/ InProcess(d)'
        /\ processed \subseteq processed' /\ panicked \subseteq panicked'
    BY <1>2 DEF Process, InProcess, HookTypeOK, Open
  <2>2. HookTypeOK'
    BY <1>2 DEF Process, HookTypeOK, Open
  <2>3. SentHasEvent' /\ NoneIsLate' /\ SeenSinceSweep'
    BY <2>1 DEF SentHasEvent, NoneIsLate, SeenSinceSweep, Open
  <2>4. DuplicateHasReason'
    <3> SUFFICES ASSUME NEW k \in Events, seen[k] # None
                 PROVE  k \in processed' \cup panicked' \/ \E c \in Deliveries : event[c] = k /\ InProcess(c)'
      BY <2>1 DEF DuplicateHasReason
    <3>1. k \in processed \cup panicked \/ \E c \in Deliveries : event[c] = k /\ InProcess(c)
      BY DEF DuplicateHasReason
    <3>2. \A c \in Deliveries \ {d} : InProcess(c) => InProcess(c)'
      BY <2>1 DEF InProcess
    <3> QED BY <2>1, <3>1, <3>2
  <2>5. InProcessIsRecorded' /\ OneAtATime'
    BY <2>1 DEF InProcessIsRecorded, OneAtATime
  <2> QED BY <2>2, <2>3, <2>4, <2>5
<1>3. CASE Fail(d)
  <2>1. /\ UNCHANGED <<hookNow, lastSweep, event, processed, outwaited, overran>> /\ InProcess(d) /\ event[d] \in Events
        /\ seen' = [seen EXCEPT ![event[d]] = None] /\ panicked' = panicked \ {event[d]}
        /\ ~InProcess(d)' /\ stage'[d] = "answered"
        /\ \A c \in Deliveries \ {d} : stage'[c] = stage[c] /\ asked'[c] = asked[c]
        /\ \A c \in Deliveries \ {d} : InProcess(c)' <=> InProcess(c)
    BY <1>3 DEF Fail, InProcess, HookTypeOK, SentHasEvent
  <2>2. HookTypeOK'
    BY <1>3, <2>1 DEF Fail, HookTypeOK, Open
  <2>3. SentHasEvent' /\ NoneIsLate'
    BY <2>1 DEF SentHasEvent, NoneIsLate, Open
  <2>4. SeenSinceSweep'
    BY <2>1 DEF SeenSinceSweep, HookTypeOK
  <2>5. DuplicateHasReason'
    <3> SUFFICES ASSUME NEW k \in Events, seen'[k] # None
                 PROVE  k \in processed \cup panicked' \/ \E c \in Deliveries : event[c] = k /\ InProcess(c)'
      BY <2>1 DEF DuplicateHasReason
    <3>1. k # event[d] /\ seen[k] # None
      BY <2>1 DEF HookTypeOK
    <3>2. k \in processed \cup panicked \/ \E c \in Deliveries : event[c] = k /\ InProcess(c)
      BY <3>1 DEF DuplicateHasReason
    <3> QED BY <2>1, <3>1, <3>2
  <2>6. OneAtATime'
    BY <2>1 DEF OneAtATime
  <2>7. InProcessIsRecorded'
    <3> SUFFICES ASSUME ~overran, NEW c \in Deliveries, InProcess(c)' PROVE seen'[event[c]] = asked'[c]
      BY <2>1 DEF InProcessIsRecorded
    <3>1. c # d /\ InProcess(c) /\ event[c] # event[d] /\ event[c] \in Events
      BY <2>1 DEF OneAtATime, SentHasEvent, InProcess
    <3> QED BY <2>1, <3>1 DEF InProcessIsRecorded, HookTypeOK
  <2> QED BY <2>2, <2>3, <2>4, <2>5, <2>6, <2>7
<1> QED BY <1>1, <1>2, <1>3

(* The process dies, or time passes. *)
LEMMA ClockKeeps == ASSUME HookInv, CrashHook \/ PassHookTime \/ UNCHANGED hookVars PROVE HookInv'
<1> USE HookAssumption DEF HookInv
<1>1. CASE CrashHook
  <2>1. /\ UNCHANGED <<hookNow, event, processed, outwaited, overran>> /\ lastSweep' = 0
        /\ \A e \in Events : seen'[e] = None
        /\ \A d \in Deliveries : ~InProcess(d)' /\ stage'[d] \notin Open /\ (stage'[d] # "unsent" => stage[d] # "unsent")
    BY <1>1 DEF CrashHook, InProcess, Open
  <2>2. HookTypeOK'
    BY <1>1 DEF CrashHook, HookTypeOK
  <2>3. SentHasEvent' /\ NoneIsLate'
    BY <2>1 DEF SentHasEvent, NoneIsLate, Open
  <2>4. SeenSinceSweep' /\ DuplicateHasReason'
    BY <2>1 DEF SeenSinceSweep, DuplicateHasReason, HookTypeOK
  <2>5. InProcessIsRecorded' /\ OneAtATime'
    BY <2>1 DEF InProcessIsRecorded, OneAtATime
  <2> QED BY <2>2, <2>3, <2>4, <2>5
<1>2. CASE PassHookTime
  <2>1. /\ UNCHANGED <<seen, lastSweep, event, stage, asked, processed, panicked>> /\ hookNow' = hookNow + 1
        /\ \A d \in Deliveries : InProcess(d)' = InProcess(d)
        /\ outwaited' = (outwaited \/ Late({"asking"}, hookNow'))
        /\ overran' = (overran \/ Late({"asking", "processing", "failing"}, hookNow'))
    BY <1>2 DEF PassHookTime, InProcess
  <2>2. HookTypeOK'
    <3>1. hookNow' \in Nat
      BY <2>1 DEF HookTypeOK
    <3>2. outwaited' \in BOOLEAN /\ overran' \in BOOLEAN
      BY <2>1, Zenon DEF HookTypeOK, Late
    <3> QED BY <2>1, <3>1, <3>2 DEF HookTypeOK
  <2>3. hookNow \in Nat /\ (~outwaited' => ~outwaited) /\ (~overran' => ~overran)
    BY <2>1 DEF HookTypeOK
  <2>4. SentHasEvent' /\ SeenSinceSweep'
    BY <2>1, <2>3 DEF SentHasEvent, SeenSinceSweep, HookTypeOK
  <2>5. ASSUME NEW d \in Deliveries, stage[d] \in Open
        PROVE  /\ ~overran' => hookNow' - asked[d] < SeenTTL
               /\ ~outwaited' /\ stage[d] = "asking" => hookNow' - asked[d] < SeenTTL
    <3>1. asked[d] \in Nat /\ hookNow' \in Nat
      BY <2>1, <2>3, <2>5 DEF SentHasEvent
    <3>2. ~overran' => ~(hookNow' - asked[d] >= SeenTTL)
      BY <2>1, <2>5, Zenon DEF Late, Open
    <3>3. stage[d] = "asking" => stage[d] \in {"asking"}
      OBVIOUS
    <3>4. ~outwaited' /\ stage[d] = "asking" => ~(hookNow' - asked[d] >= SeenTTL)
      BY <2>1, <3>3, Zenon DEF Late
    <3> QED BY <3>1, <3>2, <3>4
  <2>6. NoneIsLate'
    BY <2>1, <2>5 DEF NoneIsLate, Open
  <2>7. DuplicateHasReason'
    BY <2>1 DEF DuplicateHasReason
  <2>8. InProcessIsRecorded' /\ OneAtATime'
    BY <2>1, <2>3 DEF InProcessIsRecorded, OneAtATime
  <2> QED BY <2>2, <2>4, <2>6, <2>7, <2>8
<1>3. CASE UNCHANGED hookVars
  <2>1. UNCHANGED <<hookNow, seen, lastSweep, event, stage, asked, processed, panicked, outwaited, overran>>
        /\ \A d \in Deliveries : InProcess(d)' = InProcess(d)
    BY <1>3 DEF hookVars, InProcess
  <2>2. HookTypeOK' /\ SentHasEvent' /\ NoneIsLate' /\ SeenSinceSweep'
    BY <2>1 DEF HookTypeOK, SentHasEvent, NoneIsLate, SeenSinceSweep
  <2>3. DuplicateHasReason' /\ InProcessIsRecorded' /\ OneAtATime'
    BY <2>1 DEF DuplicateHasReason, InProcessIsRecorded, OneAtATime
  <2> QED BY <2>2, <2>3
<1> QED BY <1>1, <1>2, <1>3

(* The inductive invariant holds in every state: an ID that is recorded     *)
(* stands for work done, under way or panicked, and the ID of what is in    *)
(* process is recorded at the time it was asked (Handler, Seen, Forget).   *)
THEOREM HookInvariant == HookSpec => []HookInv
<1>1. HookInit => HookInv
  <2> SUFFICES ASSUME HookInit PROVE HookInv
    OBVIOUS
  <2>1. HookTypeOK
    <3>1. hookNow \in Nat /\ lastSweep \in Nat
      BY HookAssumption DEF HookInit
    <3>2. outwaited \in BOOLEAN /\ overran \in BOOLEAN
      BY Zenon DEF HookInit
    <3>3. /\ seen \in [Events -> Nat \cup {None}] /\ event \in [Deliveries -> Events \cup {None}]
          /\ asked \in [Deliveries -> Nat \cup {None}]
          /\ stage \in [Deliveries -> {"unsent", "answered"} \cup Open]
      BY DEF HookInit
    <3> QED BY <3>1, <3>2, <3>3 DEF HookTypeOK
  <2>2. \A d \in Deliveries : stage[d] = "unsent" /\ ~InProcess(d)
    BY DEF HookInit, InProcess
  <2>3. lastSweep <= hookNow /\ \A e \in Events : seen[e] = None
    BY HookAssumption DEF HookInit
  <2>4. SentHasEvent /\ NoneIsLate
    BY <2>2 DEF SentHasEvent, NoneIsLate, Open
  <2> QED BY <2>1, <2>2, <2>3, <2>4
      DEF HookInv, SeenSinceSweep, DuplicateHasReason, InProcessIsRecorded, OneAtATime
<1>2. HookInv /\ [HookNext]_hookVars => HookInv'
  BY SeenKeeps, HandlerKeeps, ClockKeeps DEF HookNext
<1> QED BY <1>1, <1>2, PTL DEF HookSpec

(* Seen, Forget and Handler: an ID answers "duplicate" only for work done,  *)
(* under way or panicked, and no event is in process twice at once while    *)
(* no delivery takes SeenTTL, for any number of deliveries and any TTL.    *)
THEOREM DuplicatesKeepReason == HookSpec => []DuplicatesHaveReason
<1>1. HookInv => DuplicatesHaveReason
  BY DEF HookInv, DuplicatesHaveReason
<1> QED BY <1>1, HookInvariant, PTL

(* Seen: no call leaves an ID behind that is older than the TTL and one     *)
(* sweep interval, unless one has waited for the mutex as long as that.    *)
THEOREM HistoryStaysSwept == HookSpec => HistoryIsSwept
<1>1. ASSUME HookInv, NEW d \in Deliveries, Seen(d) /\ ~outwaited, NEW e \in Events
      PROVE  seen'[e] = None \/ asked[d] - seen'[e] < SeenTTL + SweepEvery
  <2> DEFINE t == asked[d]
  <2>1. t \in Nat /\ lastSweep \in Nat /\ seen \in [Events -> Nat \cup {None}]
    BY <1>1 DEF Seen, HookInv, HookTypeOK, SentHasEvent, Open
  <2>2. seen' = Swept(t) \/ seen' = [Swept(t) EXCEPT ![event[d]] = t]
    BY <1>1 DEF Seen
  <2> HIDE DEF t
  <2>3. seen'[e] = Swept(t)[e] \/ seen'[e] = t
    BY <1>1, <2>1, <2>2, SweptFacts
  <2>4. ASSUME Swept(t)[e] # None PROVE t - Swept(t)[e] < SeenTTL + SweepEvery
    <3>1. Swept(t)[e] = seen[e] /\ seen[e] \in Nat
      BY <1>1, <2>1, <2>4, SweptFacts
    <3>2. lastSweep < seen[e] + SeenTTL
      BY <1>1, <2>4, <3>1 DEF HookInv, SeenSinceSweep
    <3>3. t < Swept(t)[e] + SeenTTL \/ t < lastSweep + SweepEvery
      BY <1>1, <2>1, <2>4, SweptFacts
    <3> QED BY <2>1, <3>1, <3>2, <3>3, HookAssumption
  <2> QED BY <2>1, <2>3, <2>4, HookAssumption DEF t
<1>2. HookInv => [\A d \in Deliveries : Seen(d) /\ ~outwaited =>
                     \A e \in Events : seen'[e] = None \/ asked[d] - seen'[e] < SeenTTL + SweepEvery]_hookVars
  BY <1>1
<1> QED BY <1>2, HookInvariant, PTL DEF HistoryIsSwept

-----------------------------------------------------------------------------
(* The consumer. *)

(* The inductive invariant, by parts. *)
ConsTypeOK ==
    /\ mode \in {"after", "before"}
    /\ committed \in [Partitions -> Nat \ {0}] /\ position \in [Partitions -> Nat \ {0}]
    /\ loop \in [Partitions -> {"fetch", "commit", "handle", "working", "failing", "ended"}]
    /\ handled = [p \in Partitions |-> handled[p]]
    /\ \A p \in Partitions : handled[p] \in [Offsets(p) -> Nat]
    /\ doneHere \in [MessageIds -> Nat]
    /\ disturbed \in BOOLEAN

(* Who has a message in hand, and how the committed offset stands to it. *)
Holding(p)  == loop[p] \in {"handle", "working", "failing"}
InHand(p) == loop[p] \in {"working", "failing"}
OffsetsAgree ==
    \A p \in Partitions :
        /\ Holding(p) \/ loop[p] = "commit" => position[p] \in Offsets(p)
        /\ mode = "after" /\ loop[p] # "ended" => position[p] = committed[p]
        /\ mode = "before" /\ loop[p] \in {"fetch", "commit"} => position[p] = committed[p]
        /\ mode = "before" /\ Holding(p) => committed[p] = position[p] + 1

(* The work in hand is reserved, by one loop, and not done in this process. *)
OneReservation ==
    /\ \A p \in Partitions : InHand(p) => IdAt(p) \in seenIds /\ doneHere[IdAt(p)] = 0
    /\ \A p, q \in Partitions : InHand(p) /\ InHand(q) /\ IdAt(p) = IdAt(q) => p = q
    /\ \A k \in MessageIds : doneHere[k] <= 1 /\ (doneHere[k] > 0 => k \in seenIds)

(* Nothing was handled that is still to come, unless a crash or a failed   *)
(* commit has set the offset back.                                         *)
NothingAhead ==
    mode = "before" \/ ~disturbed => \A p \in Partitions :
        /\ \A i \in Offsets(p) :
               /\ handled[p][i] <= 1
               /\ i >= committed[p] =>
                      handled[p][i] = 0 \/ (mode = "after" /\ loop[p] = "commit" /\ i = position[p])
        /\ Holding(p) => handled[p][position[p]] = 0

(* An event is safe when its work is done, or some message of it is still  *)
(* to come that no loop is about to commit.                                *)
WasDone(k) == \E p \in Partitions : \E i \in Offsets(p) : LogOf[p][i] = k /\ handled[p][i] > 0
Pending(k) == \E p \in Partitions : \E i \in Offsets(p) :
                  LogOf[p][i] = k /\ i >= committed[p] /\ ~(loop[p] = "commit" /\ position[p] = i)
Safe(k)    == WasDone(k) \/ Pending(k)

EventsSafe ==
    mode = "after" =>
        /\ \A p \in Partitions : \A i \in Offsets(p) : i < committed[p] => Safe(LogOf[p][i])
        /\ \A p \in Partitions : loop[p] = "commit" => Safe(IdAt(p))
        /\ \A k \in seenIds : WasDone(k) \/ \E q \in Partitions : InHand(q) /\ IdAt(q) = k

ConsInv == ConsTypeOK /\ OffsetsAgree /\ OneReservation /\ NothingAhead /\ EventsSafe

-----------------------------------------------------------------------------
(* The messages of the log, by partition and offset. *)
LEMMA MessageFacts ==
    /\ \A m \in Messages : m[1] \in Partitions /\ m[2] \in Offsets(m[1])
    /\ \A p \in Partitions : \A i \in Offsets(p) : <<p, i>> \in Messages /\ LogOf[p][i] \in MessageIds
<1>1. \A m \in Messages : m[1] \in Partitions /\ m[2] \in Offsets(m[1])
  BY DEF Messages
<1>2. \A p \in Partitions : \A i \in Offsets(p) : <<p, i>> \in Messages
  BY DEF Messages
<1>3. ASSUME NEW p \in Partitions, NEW i \in Offsets(p) PROVE LogOf[p][i] \in MessageIds
  <2>1. IdOf(<<p, i>>) = LogOf[p][i]
    BY DEF IdOf
  <2> QED BY <1>2, <2>1 DEF MessageIds
<1> QED BY <1>1, <1>2, <1>3

(* Offsets begin at 1. *)
LEMMA OffsetFacts == \A p \in Partitions : Offsets(p) \subseteq Nat \ {0}
<1> SUFFICES ASSUME NEW p \in Partitions, NEW i \in Offsets(p) PROVE i \in Nat \ {0}
  OBVIOUS
<1>1. Len(LogOf[p]) \in Nat
  BY ConsAssumption
<1> QED BY <1>1 DEF Offsets

(* FetchMessage, which returns a message or ends the loop. *)
LEMMA FetchKeeps == ASSUME ConsInv, NEW p \in Partitions, Fetch(p) PROVE ConsInv'
<1> USE DEF ConsInv
<1>1. /\ loop[p] = "fetch" /\ UNCHANGED <<mode, committed, position, seenIds, handled, doneHere, disturbed>>
      /\ loop' \in [Partitions -> {"fetch", "commit", "handle", "working", "failing", "ended"}]
      /\ \A q \in Partitions \ {p} : loop'[q] = loop[q]
      /\ \/ loop'[p] = "ended"
         \/ position[p] \in Offsets(p) /\ loop'[p] = (IF mode = "before" THEN "commit" ELSE "handle")
  BY DEF Fetch, Goto, ConsTypeOK
<1>2. ConsTypeOK'
  BY <1>1 DEF ConsTypeOK, Offsets
<1>3. \A q \in Partitions : /\ IdAt(q)' = IdAt(q) /\ InHand(q)' = InHand(q) /\ Offsets(q)' = Offsets(q)
                            /\ q # p => Holding(q)' = Holding(q)
  BY <1>1 DEF IdAt, InHand, Holding, Offsets
<1>4. OffsetsAgree'
  BY <1>1, <1>3 DEF OffsetsAgree, Holding, ConsTypeOK
<1>5. OneReservation'
  BY <1>1, <1>3 DEF OneReservation
<1>6. NothingAhead'
  BY <1>1, <1>3 DEF NothingAhead, Holding, OffsetsAgree, ConsTypeOK
<1>7. EventsSafe'
  <2> SUFFICES ASSUME mode = "after" PROVE EventsSafe'
    BY <1>1 DEF EventsSafe
  <2>1. \A q \in Partitions : (loop'[q] = "commit") <=> (loop[q] = "commit")
    BY <1>1
  <2>2. \A k : (WasDone(k)' <=> WasDone(k)) /\ (Pending(k)' <=> Pending(k))
    BY <1>1, <1>3, <2>1 DEF WasDone, Pending
  <2>3. \A k : Safe(k)' <=> Safe(k)
    BY <2>2 DEF Safe
  <2> QED BY <1>1, <1>3, <2>1, <2>2, <2>3 DEF EventsSafe
<1> QED BY <1>2, <1>4, <1>5, <1>6, <1>7

(* CommitMessages, whether it succeeds or not. *)
LEMMA CommitKeeps == ASSUME ConsInv, NEW p \in Partitions, Commit(p) \/ CommitFails(p) PROVE ConsInv'
<1> USE DEF ConsInv
<1> DEFINE pos == position[p]
<1>1. /\ loop[p] = "commit" /\ UNCHANGED <<mode, seenIds, handled, doneHere>>
      /\ pos \in Nat \ {0} /\ pos \in Offsets(p) /\ committed[p] = pos
      /\ committed' \in [Partitions -> Nat \ {0}] /\ position' \in [Partitions -> Nat \ {0}]
      /\ loop' \in [Partitions -> {"fetch", "commit", "handle", "working", "failing", "ended"}]
      /\ \A q \in Partitions \ {p} : loop'[q] = loop[q] /\ position'[q] = position[q] /\ committed'[q] = committed[q]
      /\ \/ /\ committed'[p] = pos + 1 /\ disturbed' = disturbed
            /\ \/ mode = "before" /\ loop'[p] = "handle" /\ position'[p] = pos
               \/ mode = "after" /\ loop'[p] = "fetch" /\ position'[p] = pos + 1
         \/ /\ committed'[p] \in {pos, pos + 1} /\ disturbed' = TRUE
            /\ loop'[p] = "ended" /\ position'[p] = pos
  <2>1. loop[p] = "commit" /\ pos \in Nat \ {0} /\ pos \in Offsets(p) /\ committed[p] = pos
    BY DEF Commit, CommitFails, ConsTypeOK, OffsetsAgree
  <2>2. CASE Commit(p)
    BY <2>1, <2>2 DEF Commit, Stored, Goto, NextMessage, ConsTypeOK
  <2>3. CASE CommitFails(p)
    BY <2>1, <2>3 DEF CommitFails, Stored, Goto, ConsTypeOK
  <2> QED BY <2>1, <2>2, <2>3
<1> HIDE DEF pos
<1>2. ConsTypeOK'
  BY <1>1 DEF ConsTypeOK, Offsets
<1>3. /\ \A q \in Partitions : Offsets(q)' = Offsets(q)
      /\ \A q \in Partitions : InHand(q)' = InHand(q)
      /\ \A q \in Partitions \ {p} : IdAt(q)' = IdAt(q) /\ Holding(q)' = Holding(q)
      /\ ~InHand(p) /\ IdAt(p) = LogOf[p][pos]
  BY <1>1 DEF IdAt, InHand, Holding, Offsets, pos
<1>4. OffsetsAgree'
  <2>1. ASSUME NEW q \in Partitions \ {p}
        PROVE  /\ Holding(q)' \/ loop'[q] = "commit" => position'[q] \in Offsets(q)'
               /\ mode' = "after" /\ loop'[q] # "ended" => position'[q] = committed'[q]
               /\ mode' = "before" /\ loop'[q] \in {"fetch", "commit"} => position'[q] = committed'[q]
               /\ mode' = "before" /\ Holding(q)' => committed'[q] = position'[q] + 1
    BY <1>1, <1>3 DEF OffsetsAgree
  <2>2. /\ Holding(p)' \/ loop'[p] = "commit" => position'[p] \in Offsets(p)'
        /\ mode' = "after" /\ loop'[p] # "ended" => position'[p] = committed'[p]
        /\ mode' = "before" /\ loop'[p] \in {"fetch", "commit"} => position'[p] = committed'[p]
        /\ mode' = "before" /\ Holding(p)' => committed'[p] = position'[p] + 1
    BY <1>1, <1>3 DEF Holding
  <2> QED BY <2>1, <2>2 DEF OffsetsAgree
<1>5. OneReservation'
  <2>1. \A q \in Partitions : InHand(q) => q # p /\ IdAt(q)' = IdAt(q)
    BY <1>3
  <2> QED BY <1>1, <1>3, <2>1 DEF OneReservation
<1>6. NothingAhead'
  <2> SUFFICES ASSUME mode = "before" \/ ~disturbed', NEW q \in Partitions
               PROVE  /\ \A i \in Offsets(q) :
                             /\ handled[q][i] <= 1
                             /\ i >= committed'[q] =>
                                    handled[q][i] = 0 \/ (mode = "after" /\ loop'[q] = "commit" /\ i = position'[q])
                      /\ Holding(q)' => handled[q][position'[q]] = 0
    BY <1>1, <1>3 DEF NothingAhead
  <2>1. mode = "before" \/ (~disturbed /\ committed'[p] = pos + 1)
    BY <1>1
  <2>2. CASE q # p
    BY <1>1, <1>3, <2>1, <2>2 DEF NothingAhead
  <2>3. CASE q = p
    <3>1. \A i \in Offsets(p) : i \in Nat
      BY OffsetFacts
    <3>2. \A i \in Offsets(p) : /\ handled[p][i] <= 1
                                /\ i > pos => handled[p][i] = 0
                                /\ mode = "before" /\ i >= pos => handled[p][i] = 0
      BY <1>1, <2>1, <3>1 DEF NothingAhead, pos
    <3> QED BY <1>1, <2>1, <2>3, <3>1, <3>2 DEF Holding, ConsTypeOK
  <2> QED BY <2>2, <2>3
<1>7. EventsSafe'
  <2> SUFFICES ASSUME mode = "after" PROVE EventsSafe'
    BY <1>1 DEF EventsSafe
  <2>1. \A k : WasDone(k)' <=> WasDone(k)
    BY <1>1, <1>3 DEF WasDone
  <2>2. ASSUME NEW k, Pending(k) PROVE Pending(k)'
    <3>0. PICK q \in Partitions : \E i \in Offsets(q) :
              LogOf[q][i] = k /\ i >= committed[q] /\ ~(loop[q] = "commit" /\ position[q] = i)
      BY <2>2 DEF Pending
    <3>1. PICK i \in Offsets(q) :
              LogOf[q][i] = k /\ i >= committed[q] /\ ~(loop[q] = "commit" /\ position[q] = i)
      BY <3>0
    <3>2. i \in Nat
      BY OffsetFacts
    <3>3. i >= committed'[q] /\ ~(loop'[q] = "commit" /\ position'[q] = i)
      BY <1>1, <3>1, <3>2 DEF pos
    <3> QED BY <1>3, <3>1, <3>3 DEF Pending
  <2>3. \A k : Safe(k) => Safe(k)'
    BY <2>1, <2>2 DEF Safe
  <2>4. ASSUME NEW q \in Partitions, NEW i \in Offsets(q), i < committed'[q] PROVE Safe(LogOf[q][i])
    <3>1. i \in Nat
      BY OffsetFacts
    <3>2. i < committed[q] \/ (q = p /\ i = pos)
      BY <1>1, <2>4, <3>1
    <3>3. Safe(LogOf[p][pos])
      BY <1>1, <1>3 DEF EventsSafe
    <3> QED BY <3>2, <3>3 DEF EventsSafe
  <2>5. \A q \in Partitions : loop'[q] = "commit" => q # p /\ loop[q] = "commit"
    BY <1>1
  <2>6. \A k \in seenIds : WasDone(k) \/ \E q \in Partitions : InHand(q)' /\ IdAt(q)' = k
    BY <1>3 DEF EventsSafe
  <2> QED BY <1>1, <1>3, <2>1, <2>3, <2>4, <2>5, <2>6 DEF EventsSafe
<1> QED BY <1>2, <1>4, <1>5, <1>6, <1>7

(* The loop goes on from the handler: to the commit, or to the next message. *)
LEMMA HandledGoes ==
    ASSUME ConsInv, NEW p \in Partitions, Holding(p), Handled(p)
    PROVE  /\ loop' \in [Partitions -> {"fetch", "commit", "handle", "working", "failing", "ended"}]
           /\ position' \in [Partitions -> Nat \ {0}]
           /\ \A q \in Partitions \ {p} : loop'[q] = loop[q] /\ position'[q] = position[q]
           /\ \/ mode = "after" /\ loop'[p] = "commit" /\ position'[p] = position[p]
              \/ mode = "before" /\ loop'[p] = "fetch" /\ position'[p] = position[p] + 1
BY DEF ConsInv, ConsTypeOK, Handled, Goto, NextMessage

(* Wrap finds the key, or reserves it. *)
LEMMA ReserveKeeps == ASSUME ConsInv, NEW p \in Partitions, Reserve(p) PROVE ConsInv'
<1> USE DEF ConsInv
<1>0. PICK k : k = IdAt(p)
  OBVIOUS
<1>1. /\ loop[p] = "handle" /\ UNCHANGED <<mode, committed, handled, doneHere, disturbed>>
      /\ seenIds' = seenIds \cup {k} /\ Holding(p) /\ ~InHand(p)
      /\ position[p] \in Offsets(p) /\ position[p] \in Nat \ {0} /\ k \in MessageIds
  BY <1>0, MessageFacts DEF Reserve, Holding, InHand, ConsTypeOK, OffsetsAgree, IdAt
<1>2. /\ loop' \in [Partitions -> {"fetch", "commit", "handle", "working", "failing", "ended"}]
      /\ position' \in [Partitions -> Nat \ {0}]
      /\ \A q \in Partitions \ {p} : loop'[q] = loop[q] /\ position'[q] = position[q]
      /\ \/ k \in seenIds /\ mode = "after" /\ loop'[p] = "commit" /\ position'[p] = position[p]
         \/ k \in seenIds /\ mode = "before" /\ loop'[p] = "fetch" /\ position'[p] = position[p] + 1
         \/ k \notin seenIds /\ loop'[p] = "working" /\ position'[p] = position[p]
  <2>1. CASE k \in seenIds
    BY <1>0, <1>1, <2>1, HandledGoes DEF Reserve
  <2>2. CASE k \notin seenIds
    BY <1>0, <1>1, <2>2 DEF Reserve, Goto, ConsTypeOK
  <2> QED BY <2>1, <2>2
<1>3. /\ \A q \in Partitions : Offsets(q)' = Offsets(q)
      /\ \A q \in Partitions \ {p} : IdAt(q)' = IdAt(q) /\ Holding(q)' = Holding(q) /\ InHand(q)' = InHand(q)
      /\ (InHand(p)' \/ loop'[p] = "commit") => IdAt(p)' = k
      /\ InHand(p)' => k \notin seenIds
  BY <1>0, <1>2 DEF IdAt, InHand, Holding, Offsets
<1>4. ConsTypeOK'
  BY <1>1, <1>2 DEF ConsTypeOK, Offsets
<1>5. OffsetsAgree'
  <2>1. ASSUME NEW q \in Partitions \ {p}
        PROVE  /\ Holding(q)' \/ loop'[q] = "commit" => position'[q] \in Offsets(q)'
               /\ mode' = "after" /\ loop'[q] # "ended" => position'[q] = committed'[q]
               /\ mode' = "before" /\ loop'[q] \in {"fetch", "commit"} => position'[q] = committed'[q]
               /\ mode' = "before" /\ Holding(q)' => committed'[q] = position'[q] + 1
    BY <1>1, <1>2, <1>3 DEF OffsetsAgree
  <2>2. /\ Holding(p)' \/ loop'[p] = "commit" => position'[p] \in Offsets(p)'
        /\ mode' = "after" /\ loop'[p] # "ended" => position'[p] = committed'[p]
        /\ mode' = "before" /\ loop'[p] \in {"fetch", "commit"} => position'[p] = committed'[p]
        /\ mode' = "before" /\ Holding(p)' => committed'[p] = position'[p] + 1
    BY <1>1, <1>2, <1>3 DEF Holding, OffsetsAgree
  <2> QED BY <2>1, <2>2 DEF OffsetsAgree
<1>6. OneReservation'
  <2>1. k \notin seenIds => doneHere[k] = 0
    BY <1>1 DEF OneReservation, ConsTypeOK
  <2>2. \A q \in Partitions \ {p} : InHand(q) => IdAt(q) \in seenIds
    BY DEF OneReservation
  <2>3. \A q \in Partitions : InHand(q)' => IdAt(q)' \in seenIds' /\ doneHere[IdAt(q)'] = 0
    BY <1>1, <1>3, <2>1 DEF OneReservation
  <2>4. \A q, r \in Partitions : InHand(q)' /\ InHand(r)' /\ IdAt(q)' = IdAt(r)' => q = r
    BY <1>3, <2>2 DEF OneReservation
  <2>5. \A e \in MessageIds : doneHere'[e] <= 1 /\ (doneHere'[e] > 0 => e \in seenIds')
    BY <1>1 DEF OneReservation
  <2> QED BY <1>1, <2>3, <2>4, <2>5 DEF OneReservation
<1>7. NothingAhead'
  <2> SUFFICES ASSUME mode = "before" \/ ~disturbed, NEW q \in Partitions
               PROVE  /\ \A i \in Offsets(q) :
                             /\ handled[q][i] <= 1
                             /\ i >= committed[q] =>
                                    handled[q][i] = 0 \/ (mode = "after" /\ loop'[q] = "commit" /\ i = position'[q])
                      /\ Holding(q)' => handled[q][position'[q]] = 0
    BY <1>1, <1>3 DEF NothingAhead
  <2>1. CASE q # p
    BY <1>1, <1>2, <1>3, <2>1 DEF NothingAhead
  <2>2. CASE q = p
    BY <1>1, <1>2, <2>2 DEF NothingAhead, Holding
  <2> QED BY <2>1, <2>2
<1>8. EventsSafe'
  <2> SUFFICES ASSUME mode = "after" PROVE EventsSafe'
    BY <1>1 DEF EventsSafe
  <2>1. \A e : WasDone(e)' <=> WasDone(e)
    BY <1>1, <1>3 DEF WasDone
  <2>2. ASSUME NEW q \in Partitions, InHand(q), q # p PROVE Pending(IdAt(q))'
    <3>1. position[q] \in Offsets(q) /\ position[q] = committed[q] /\ loop[q] # "commit" /\ position[q] \in Nat
      BY <2>2 DEF OffsetsAgree, InHand, Holding, ConsTypeOK
    <3>2. IdAt(q)' = IdAt(q) /\ IdAt(q) = LogOf[q][position[q]]
      BY <1>3, <2>2 DEF IdAt
    <3> QED BY <1>1, <1>2, <1>3, <2>2, <3>1, <3>2 DEF Pending
  <2>3. k \in seenIds => Safe(k)'
    <3> SUFFICES ASSUME k \in seenIds PROVE Safe(k)'
      OBVIOUS
    <3>1. WasDone(k) \/ \E q \in Partitions : InHand(q) /\ IdAt(q) = k
      BY DEF EventsSafe
    <3>2. ASSUME NEW q \in Partitions, InHand(q), IdAt(q) = k PROVE Pending(k)'
      <4>1. q # p /\ IdAt(q)' = k
        BY <1>1, <1>3, <3>2
      <4> QED BY <2>2, <3>2, <4>1
    <3> QED BY <2>1, <3>1, <3>2 DEF Safe
  <2>4. ASSUME NEW e, Pending(e) PROVE Safe(e)'
    <3>0. PICK q \in Partitions : \E i \in Offsets(q) :
              LogOf[q][i] = e /\ i >= committed[q] /\ ~(loop[q] = "commit" /\ position[q] = i)
      BY <2>4 DEF Pending
    <3>1. PICK i \in Offsets(q) :
              LogOf[q][i] = e /\ i >= committed[q] /\ ~(loop[q] = "commit" /\ position[q] = i)
      BY <3>0
    <3>2. CASE q = p /\ loop'[p] = "commit" /\ position'[p] = i
      <4>1. e = k /\ k \in seenIds
        BY <1>0, <1>2, <3>1, <3>2 DEF IdAt
      <4> QED BY <2>3, <4>1
    <3>3. CASE ~(q = p /\ loop'[p] = "commit" /\ position'[p] = i)
      BY <1>1, <1>2, <1>3, <3>1, <3>3 DEF Pending, Safe
    <3> QED BY <3>2, <3>3
  <2>5. \A e : Safe(e) => Safe(e)'
    BY <2>1, <2>4 DEF Safe
  <2>6. \A q \in Partitions : loop'[q] = "commit" => Safe(IdAt(q))'
    BY <1>2, <1>3, <2>3, <2>5 DEF EventsSafe
  <2>7. \A e \in seenIds' : WasDone(e) \/ \E q \in Partitions : InHand(q)' /\ IdAt(q)' = e
    <3> SUFFICES ASSUME NEW e \in seenIds' PROVE WasDone(e) \/ \E q \in Partitions : InHand(q)' /\ IdAt(q)' = e
      OBVIOUS
    <3>1. CASE e \in seenIds
      <4>1. WasDone(e) \/ \E q \in Partitions : InHand(q) /\ IdAt(q) = e
        BY <3>1 DEF EventsSafe
      <4>2. ~InHand(p)
        BY <1>1
      <4> QED BY <1>3, <4>1, <4>2
    <3>2. CASE e \notin seenIds
      <4>1. e = k /\ InHand(p)'
        BY <1>1, <1>2, <3>2 DEF InHand
      <4> QED BY <1>3, <4>1
    <3> QED BY <3>1, <3>2
  <2> QED BY <1>1, <1>3, <2>1, <2>5, <2>6, <2>7 DEF EventsSafe
<1> QED BY <1>4, <1>5, <1>6, <1>7, <1>8

(* The handler's work, its failure and the release of its key. *)
LEMMA WorkKeeps == ASSUME ConsInv, NEW p \in Partitions, Work(p) PROVE ConsInv'
<1> USE DEF ConsInv
<1>0. PICK k : k = IdAt(p)
  OBVIOUS
<1>a. PICK pos : pos = position[p]
  OBVIOUS
<1>1. /\ loop[p] = "working" /\ UNCHANGED <<mode, committed, seenIds, disturbed>>
      /\ Holding(p) /\ InHand(p) /\ Handled(p)
      /\ pos \in Offsets(p) /\ pos \in Nat \ {0} /\ k \in MessageIds /\ k = LogOf[p][pos]
  BY <1>0, <1>a, MessageFacts DEF Work, Holding, InHand, ConsTypeOK, OffsetsAgree, IdAt
<1>2. /\ \A q \in Partitions \ {p} : handled'[q] = handled[q]
      /\ handled'[p] = [handled[p] EXCEPT ![pos] = handled[p][pos] + 1]
      /\ handled' = [q \in Partitions |-> handled'[q]]
      /\ handled[p] \in [Offsets(p) -> Nat]
      /\ doneHere' = [doneHere EXCEPT ![k] = doneHere[k] + 1]
  BY <1>0, <1>1, <1>a DEF Work, ConsTypeOK
<1>3. /\ loop' \in [Partitions -> {"fetch", "commit", "handle", "working", "failing", "ended"}]
      /\ position' \in [Partitions -> Nat \ {0}]
      /\ \A q \in Partitions \ {p} : loop'[q] = loop[q] /\ position'[q] = position[q]
      /\ \/ mode = "after" /\ loop'[p] = "commit" /\ position'[p] = pos
         \/ mode = "before" /\ loop'[p] = "fetch" /\ position'[p] = pos + 1
  BY <1>1, <1>a, HandledGoes
<1>4. /\ \A q \in Partitions : Offsets(q)' = Offsets(q)
      /\ \A q \in Partitions \ {p} : IdAt(q)' = IdAt(q) /\ Holding(q)' = Holding(q) /\ InHand(q)' = InHand(q)
      /\ ~Holding(p)' /\ ~InHand(p)' /\ (mode = "after" => IdAt(p)' = k)
  BY <1>0, <1>3, <1>a DEF IdAt, InHand, Holding, Offsets
<1>5. /\ \A i \in Offsets(p) : i # pos => handled'[p][i] = handled[p][i]
      /\ handled'[p][pos] = handled[p][pos] + 1 /\ handled[p][pos] \in Nat
      /\ handled'[p] \in [Offsets(p) -> Nat]
  BY <1>1, <1>2
<1>6. ConsTypeOK'
  <2>1. \A q \in Partitions : handled'[q] \in [Offsets(q)' -> Nat]
    BY <1>2, <1>4, <1>5 DEF ConsTypeOK
  <2>2. doneHere' \in [MessageIds -> Nat]
    BY <1>1, <1>2 DEF ConsTypeOK
  <2> QED BY <1>1, <1>2, <1>3, <2>1, <2>2 DEF ConsTypeOK
<1>7. OffsetsAgree'
  <2>1. ASSUME NEW q \in Partitions \ {p}
        PROVE  /\ Holding(q)' \/ loop'[q] = "commit" => position'[q] \in Offsets(q)'
               /\ mode' = "after" /\ loop'[q] # "ended" => position'[q] = committed'[q]
               /\ mode' = "before" /\ loop'[q] \in {"fetch", "commit"} => position'[q] = committed'[q]
               /\ mode' = "before" /\ Holding(q)' => committed'[q] = position'[q] + 1
    BY <1>1, <1>3, <1>4 DEF OffsetsAgree
  <2>2. /\ Holding(p)' \/ loop'[p] = "commit" => position'[p] \in Offsets(p)'
        /\ mode' = "after" /\ loop'[p] # "ended" => position'[p] = committed'[p]
        /\ mode' = "before" /\ loop'[p] \in {"fetch", "commit"} => position'[p] = committed'[p]
        /\ mode' = "before" /\ Holding(p)' => committed'[p] = position'[p] + 1
    BY <1>1, <1>3, <1>4, <1>a DEF OffsetsAgree
  <2> QED BY <2>1, <2>2 DEF OffsetsAgree
<1>8. OneReservation'
  <2>1. doneHere[k] = 0 /\ k \in seenIds /\ \A q \in Partitions \ {p} : InHand(q) => IdAt(q) # k
    BY <1>0, <1>1 DEF OneReservation
  <2>2. \A e \in MessageIds : doneHere'[e] = IF e = k THEN 1 ELSE doneHere[e]
    BY <1>1, <1>2, <2>1 DEF ConsTypeOK
  <2>3. \A q \in Partitions : InHand(q)' => /\ q # p /\ InHand(q) /\ IdAt(q)' = IdAt(q)
    BY <1>4
  <2>4. \A q \in Partitions : InHand(q)' => IdAt(q) \in seenIds /\ doneHere'[IdAt(q)] = 0
    <3> SUFFICES ASSUME NEW q \in Partitions, InHand(q)' PROVE IdAt(q) \in seenIds /\ doneHere'[IdAt(q)] = 0
      OBVIOUS
    <3>1. q # p /\ InHand(q) /\ IdAt(q) # k /\ IdAt(q) \in seenIds /\ doneHere[IdAt(q)] = 0
      BY <2>1, <2>3 DEF OneReservation
    <3>2. IdAt(q) \in MessageIds
      BY <3>1, MessageFacts DEF OffsetsAgree, IdAt, InHand, Holding
    <3> QED BY <2>2, <3>1, <3>2
  <2>5. \A q, r \in Partitions : InHand(q)' /\ InHand(r)' /\ IdAt(q)' = IdAt(r)' => q = r
    BY <2>3 DEF OneReservation
  <2>6. \A e \in MessageIds : doneHere'[e] <= 1 /\ (doneHere'[e] > 0 => e \in seenIds)
    BY <2>1, <2>2 DEF OneReservation
  <2> QED BY <1>1, <2>3, <2>4, <2>5, <2>6 DEF OneReservation
<1>9. NothingAhead'
  <2> SUFFICES ASSUME mode = "before" \/ ~disturbed, NEW q \in Partitions
               PROVE  /\ \A i \in Offsets(q) :
                             /\ handled'[q][i] <= 1
                             /\ i >= committed[q] =>
                                    handled'[q][i] = 0 \/ (mode = "after" /\ loop'[q] = "commit" /\ i = position'[q])
                      /\ Holding(q)' => handled'[q][position'[q]] = 0
    BY <1>1, <1>4 DEF NothingAhead
  <2>1. CASE q # p
    BY <1>1, <1>2, <1>3, <1>4, <2>1 DEF NothingAhead
  <2>2. CASE q = p
    <3>1. handled[p][pos] = 0 /\ \A i \in Offsets(p) : i \in Nat
      BY <1>1, <1>a, OffsetFacts DEF NothingAhead
    <3>2. \A i \in Offsets(p) : handled'[p][i] <= 1
      BY <1>5, <3>1 DEF NothingAhead
    <3>3. \A i \in Offsets(p) : i >= committed[p] /\ i # pos => handled'[p][i] = 0
      BY <1>1, <1>5, <1>a DEF NothingAhead
    <3>4. mode = "before" => pos < committed[p]
      BY <1>1, <1>a DEF OffsetsAgree
    <3> QED BY <1>1, <1>3, <1>4, <2>2, <3>1, <3>2, <3>3, <3>4 DEF ConsTypeOK
  <2> QED BY <2>1, <2>2
<1>10. EventsSafe'
  <2> SUFFICES ASSUME mode = "after" PROVE EventsSafe'
    BY <1>1 DEF EventsSafe
  <2>0. \A q \in Partitions : \A i \in Offsets(q) : handled[q][i] > 0 => handled'[q][i] > 0
    <3> SUFFICES ASSUME NEW q \in Partitions, NEW i \in Offsets(q), handled[q][i] > 0 PROVE handled'[q][i] > 0
      OBVIOUS
    <3>1. CASE q = p /\ i = pos
      BY <1>5, <3>1
    <3>2. CASE ~(q = p /\ i = pos)
      BY <1>2, <1>5, <3>2
    <3> QED BY <3>1, <3>2
  <2>1. \A e : WasDone(e) => WasDone(e)'
    BY <1>4, <2>0 DEF WasDone
  <2>2. WasDone(k)'
    BY <1>1, <1>4, <1>5 DEF WasDone
  <2>3. ASSUME NEW e, Pending(e) PROVE Safe(e)'
    <3>0. PICK q \in Partitions : \E i \in Offsets(q) :
              LogOf[q][i] = e /\ i >= committed[q] /\ ~(loop[q] = "commit" /\ position[q] = i)
      BY <2>3 DEF Pending
    <3>1. PICK i \in Offsets(q) :
              LogOf[q][i] = e /\ i >= committed[q] /\ ~(loop[q] = "commit" /\ position[q] = i)
      BY <3>0
    <3>2. CASE q = p /\ i = pos
      BY <1>1, <2>2, <3>1, <3>2 DEF Safe
    <3>3. CASE ~(q = p /\ i = pos)
      BY <1>1, <1>3, <1>4, <3>1, <3>3 DEF Pending, Safe
    <3> QED BY <3>2, <3>3
  <2>4. \A e : Safe(e) => Safe(e)'
    BY <2>1, <2>3 DEF Safe
  <2>5. \A q \in Partitions : loop'[q] = "commit" => Safe(IdAt(q))'
    BY <1>3, <1>4, <2>2, <2>4 DEF EventsSafe, Safe
  <2>6. ASSUME NEW e \in seenIds PROVE WasDone(e)' \/ \E q \in Partitions : InHand(q)' /\ IdAt(q)' = e
    <3>1. WasDone(e) \/ \E q \in Partitions : InHand(q) /\ IdAt(q) = e
      BY DEF EventsSafe
    <3>2. ASSUME NEW q \in Partitions, InHand(q), IdAt(q) = e PROVE (q = p /\ e = k) \/ (InHand(q)' /\ IdAt(q)' = e)
      BY <1>0, <1>4, <3>2
    <3> QED BY <2>1, <2>2, <3>1, <3>2
  <2> QED BY <1>1, <1>4, <2>4, <2>5, <2>6 DEF EventsSafe
<1> QED BY <1>6, <1>7, <1>8, <1>9, <1>10

(* The handler failed, and its key is released; a new reader begins at the *)
(* committed offset.                                                       *)
LEMMA LoopKeeps ==
    ASSUME ConsInv, NEW p \in Partitions, WorkFails(p) \/ Release(p) \/ Reopen(p)
    PROVE  ConsInv'
<1> USE DEF ConsInv
<1>0. PICK k : k = IdAt(p)
  OBVIOUS
<1>1. /\ UNCHANGED <<mode, committed, handled, doneHere, disturbed>>
      /\ loop' \in [Partitions -> {"fetch", "commit", "handle", "working", "failing", "ended"}]
      /\ position' \in [Partitions -> Nat \ {0}]
      /\ \A q \in Partitions \ {p} : loop'[q] = loop[q] /\ position'[q] = position[q]
      /\ \/ /\ loop[p] = "working" /\ loop'[p] = "failing" /\ position'[p] = position[p] /\ seenIds' = seenIds
         \/ /\ loop[p] = "failing" /\ loop'[p] = "ended" /\ position'[p] = position[p] /\ seenIds' = seenIds \ {k}
         \/ /\ loop[p] = "ended" /\ loop'[p] = "fetch" /\ position'[p] = committed[p] /\ seenIds' = seenIds
  BY <1>0 DEF WorkFails, Release, Reopen, Goto, ConsTypeOK
<1>2. /\ \A q \in Partitions : Offsets(q)' = Offsets(q)
      /\ \A q \in Partitions : InHand(q)' => InHand(q) /\ IdAt(q)' = IdAt(q)
      /\ \A q \in Partitions \ {p} : IdAt(q)' = IdAt(q) /\ Holding(q)' = Holding(q) /\ InHand(q)' = InHand(q)
      /\ loop[p] = "working" => InHand(p)' /\ IdAt(p)' = k
  BY <1>0, <1>1 DEF IdAt, InHand, Holding, Offsets
<1>3. ConsTypeOK'
  BY <1>1 DEF ConsTypeOK, Offsets
<1>4. OffsetsAgree'
  BY <1>1, <1>2 DEF OffsetsAgree, Holding
<1>5. OneReservation'
  <2>1. \A q \in Partitions : InHand(q)' => IdAt(q) \in seenIds' /\ doneHere[IdAt(q)] = 0
    BY <1>0, <1>1, <1>2 DEF OneReservation, InHand
  <2>2. \A q, r \in Partitions : InHand(q)' /\ InHand(r)' /\ IdAt(q)' = IdAt(r)' => q = r
    BY <1>2 DEF OneReservation
  <2>3. \A e \in MessageIds : doneHere[e] > 0 => e \in seenIds'
    BY <1>0, <1>1 DEF OneReservation, InHand
  <2> QED BY <1>1, <1>2, <2>1, <2>2, <2>3 DEF OneReservation
<1>6. NothingAhead'
  BY <1>1, <1>2 DEF NothingAhead, Holding
<1>7. EventsSafe'
  <2> SUFFICES ASSUME mode = "after" PROVE EventsSafe'
    BY <1>1 DEF EventsSafe
  <2>1. \A q \in Partitions : loop'[q] = "commit" => q # p /\ loop[q] = "commit" /\ position'[q] = position[q]
    BY <1>1
  <2>2. \A e : (WasDone(e) => WasDone(e)') /\ (Pending(e) => Pending(e)')
    BY <1>1, <1>2, <2>1 DEF WasDone, Pending
  <2>3. \A e : Safe(e) => Safe(e)'
    BY <2>2 DEF Safe
  <2>4. ASSUME NEW e \in seenIds' PROVE WasDone(e)' \/ \E q \in Partitions : InHand(q)' /\ IdAt(q)' = e
    <3>1. WasDone(e) \/ \E q \in Partitions : InHand(q) /\ IdAt(q) = e
      BY <1>1 DEF EventsSafe
    <3>2. ASSUME NEW q \in Partitions, InHand(q), IdAt(q) = e PROVE InHand(q)' /\ IdAt(q)' = e
      BY <1>0, <1>1, <1>2, <3>2 DEF InHand
    <3> QED BY <2>2, <3>1, <3>2
  <2>5. \A q \in Partitions : loop'[q] = "commit" => Safe(IdAt(q))'
    BY <1>2, <2>1, <2>3 DEF EventsSafe
  <2> QED BY <1>1, <1>2, <2>3, <2>4, <2>5 DEF EventsSafe
<1> QED BY <1>3, <1>4, <1>5, <1>6, <1>7

(* A new process, after the loops ended or after a crash; and steps that   *)
(* touch no loop.                                                          *)
LEMMA ProcessKeeps ==
    ASSUME ConsInv, StartConsumer \/ CrashConsumer \/ Shutdown \/ UNCHANGED consVars
    PROVE  ConsInv'
<1> USE DEF ConsInv
<1>1. CASE Shutdown \/ UNCHANGED consVars
  <2>1. UNCHANGED <<mode, committed, position, loop, seenIds, handled, doneHere, disturbed>>
    BY <1>1 DEF Shutdown, consVars
  <2>2. /\ \A q \in Partitions : Offsets(q)' = Offsets(q) /\ IdAt(q)' = IdAt(q) /\ InHand(q)' = InHand(q) /\ Holding(q)' = Holding(q)
        /\ \A e : WasDone(e)' = WasDone(e) /\ Pending(e)' = Pending(e) /\ Safe(e)' = Safe(e)
    BY <2>1 DEF Offsets, IdAt, InHand, Holding, WasDone, Pending, Safe
  <2>3. ConsTypeOK' /\ OffsetsAgree' /\ OneReservation' /\ NothingAhead'
    BY <2>1, <2>2 DEF ConsTypeOK, OffsetsAgree, OneReservation, NothingAhead
  <2>4. EventsSafe'
    BY <2>1, <2>2 DEF EventsSafe
  <2> QED BY <2>3, <2>4
<1>2. CASE StartConsumer \/ CrashConsumer
  <2>1. /\ UNCHANGED <<mode, committed, handled>> /\ position' = committed /\ seenIds' = {}
        /\ loop' = [p \in Partitions |-> "fetch"] /\ doneHere' = [k \in MessageIds |-> 0]
        /\ disturbed' = TRUE \/ (disturbed' = disturbed /\ \A p \in Partitions : loop[p] = "ended")
    BY <1>2 DEF StartConsumer, CrashConsumer, Fresh
  <2>2. /\ \A q \in Partitions : Offsets(q)' = Offsets(q) /\ ~InHand(q)' /\ ~Holding(q)' /\ loop'[q] = "fetch"
        /\ \A q \in Partitions : committed[q] \in Nat
    BY <2>1 DEF Offsets, InHand, Holding, ConsTypeOK
  <2>3. ConsTypeOK'
    BY <2>1, <2>2 DEF ConsTypeOK
  <2>4. OffsetsAgree' /\ OneReservation'
    BY <2>1, <2>2 DEF OffsetsAgree, OneReservation
  <2>5. NothingAhead'
    <3> SUFFICES ASSUME mode = "before" \/ ~disturbed', NEW q \in Partitions, NEW i \in Offsets(q)
                 PROVE  handled[q][i] <= 1 /\ (i >= committed[q] => handled[q][i] = 0)
      BY <2>1, <2>2 DEF NothingAhead
    <3>1. mode = "before" \/ (~disturbed /\ loop[q] = "ended")
      BY <2>1
    <3> QED BY <3>1 DEF NothingAhead
  <2>6. EventsSafe'
    <3> SUFFICES ASSUME mode = "after" PROVE EventsSafe'
      BY <2>1 DEF EventsSafe
    <3>1. \A e : (WasDone(e) => WasDone(e)') /\ (Pending(e) => Pending(e)')
      BY <2>1, <2>2 DEF WasDone, Pending
    <3> QED BY <2>1, <2>2, <3>1 DEF EventsSafe, Safe
  <2> QED BY <2>3, <2>4, <2>5, <2>6
<1> QED BY <1>1, <1>2

(* Nothing is fetched. *)
LEMMA ConsStarts == ConsInit => ConsInv
<1> SUFFICES ASSUME ConsInit PROVE ConsInv
  OBVIOUS
<1>1. /\ \A p \in Partitions : committed[p] = 1 /\ position[p] = 1 /\ loop[p] = "fetch" /\ ~Holding(p) /\ ~InHand(p)
      /\ \A p \in Partitions : handled[p] = [i \in Offsets(p) |-> 0]
      /\ seenIds = {}
  BY DEF ConsInit, Holding, InHand
<1>2. ConsTypeOK
  <2>1. mode \in {"after", "before"} /\ disturbed \in BOOLEAN
    <3>1. mode \in {"after", "before"}
      BY ConsAssumption DEF ConsInit
    <3>2. disturbed \in BOOLEAN
      BY Zenon DEF ConsInit
    <3> QED BY <3>1, <3>2
  <2>2. /\ committed \in [Partitions -> Nat \ {0}] /\ position \in [Partitions -> Nat \ {0}]
        /\ loop \in [Partitions -> {"fetch", "commit", "handle", "working", "failing", "ended"}]
        /\ handled = [p \in Partitions |-> handled[p]] /\ doneHere \in [MessageIds -> Nat]
    BY DEF ConsInit
  <2>3. ASSUME NEW p \in Partitions PROVE handled[p] \in [Offsets(p) -> Nat]
    <3>1. handled[p] = [i \in Offsets(p) |-> 0]
      BY <1>1
    <3> QED BY <3>1
  <2> QED BY <2>1, <2>2, <2>3 DEF ConsTypeOK
<1>3. OffsetsAgree
  BY <1>1 DEF OffsetsAgree
<1>4. OneReservation
  BY <1>1 DEF OneReservation, ConsInit
<1>5. NothingAhead
  <2>1. ASSUME NEW p \in Partitions, NEW i \in Offsets(p) PROVE handled[p][i] = 0
    <3>1. handled[p] = [j \in Offsets(p) |-> 0]
      BY <1>1
    <3> QED BY <3>1
  <2>2. \A p \in Partitions : \A i \in Offsets(p) : handled[p][i] = 0 /\ handled[p][i] <= 1
    BY <2>1
  <2> QED BY <1>1, <2>2 DEF NothingAhead
<1>6. EventsSafe
  BY <1>1, OffsetFacts DEF EventsSafe
<1> QED BY <1>2, <1>3, <1>4, <1>5, <1>6 DEF ConsInv

(* The inductive invariant holds in every state. *)
THEOREM ConsInvariant == ConsSpec => []ConsInv
<1>1. ConsInv /\ [ConsNext]_consVars => ConsInv'
  BY FetchKeeps, CommitKeeps, ReserveKeeps, WorkKeeps, LoopKeeps, ProcessKeeps DEF ConsNext, ConsStep
<1> QED BY <1>1, ConsStarts, PTL DEF ConsSpec

(* What the consumer promises follows from it. *)
LEMMA ConsSuffices == ConsInv => MessagesAreHandled
<1> SUFFICES ASSUME ConsInv PROVE MessagesAreHandled
  OBVIOUS
<1> USE DEF ConsInv
<1>1. ASSUME mode = "after", NEW m \in Messages, m[2] < committed[m[1]]
      PROVE  Done(IdOf(m)) \/ StillDue(IdOf(m))
  <2>1. Safe(LogOf[m[1]][m[2]])
    BY <1>1, MessageFacts DEF EventsSafe
  <2>2. PICK p \in Partitions : \E i \in Offsets(p) :
            LogOf[p][i] = IdOf(m) /\ (handled[p][i] > 0 \/ i >= committed[p])
    BY <2>1 DEF Safe, WasDone, Pending, IdOf
  <2>3. PICK i \in Offsets(p) : LogOf[p][i] = IdOf(m) /\ (handled[p][i] > 0 \/ i >= committed[p])
    BY <2>2
  <2>4. <<p, i>> \in Messages /\ IdOf(<<p, i>>) = IdOf(m)
    BY <2>3, MessageFacts DEF IdOf
  <2>5. <<p, i>>[1] = p /\ <<p, i>>[2] = i
    OBVIOUS
  <2> QED BY <2>3, <2>4, <2>5 DEF Done, StillDue
<1>2. NoMessageSkipped
  BY <1>1 DEF NoMessageSkipped
<1>3. HandledOnce
  BY MessageFacts DEF HandledOnce, NothingAhead
<1>4. OncePerProcess
  BY DEF OncePerProcess, OneReservation
<1> QED BY <1>2, <1>3, <1>4 DEF MessagesAreHandled

(* The consumer loops with the idempotent handler: committing after the    *)
(* handler loses no event, committing before it handles none twice, and no *)
(* event is worked on twice in one process.                                *)
THEOREM MessagesStayHandled == ConsSpec => []MessagesAreHandled
BY ConsInvariant, ConsSuffices, PTL

-----------------------------------------------------------------------------
(* Transfers: sums. *)

(* Induction over the subsets of a finite set, for the members of a set. *)
LEMMA SubsetInduction ==
    ASSUME NEW S, IsFiniteSet(S), NEW G, {} \in G,
           \A s \in SUBSET S : s # {} /\ (\A x \in s : s \ {x} \in G) => s \in G
    PROVE  \A s \in SUBSET S : s \in G
<1> DEFINE bad == {s \in SUBSET S : s \notin G}
<1> SUFFICES ASSUME bad # {} PROVE FALSE
  OBVIOUS
<1>1. bad \subseteq FiniteSubsetsOf(S) /\ IsWellFoundedOn(StrictSubsetOrdering(S), FiniteSubsetsOf(S))
  BY FS_FiniteSubsetsOfFinite, FS_StrictSubsetOrderingWellFounded
<1> HIDE DEF bad
<1>2. PICK s \in bad : \A t \in bad : ~(<<t, s>> \in StrictSubsetOrdering(S))
  BY <1>1, WFMin
<1>3. s \in SUBSET S /\ s \notin G
  BY <1>2 DEF bad
<1>4. ASSUME NEW x \in s PROVE s \ {x} \in G
  <2>1. s \ {x} \in SUBSET S /\ s \ {x} # s /\ s \ {x} \subseteq s
    BY <1>3
  <2>2. <<s \ {x}, s>> \in StrictSubsetOrdering(S)
    BY <1>3, <2>1 DEF StrictSubsetOrdering
  <2> QED BY <1>2, <2>1, <2>2 DEF bad
<1> QED BY <1>3, <1>4

(* The units that make up a sum of weights, one by one. *)
Units(w, s) == {u \in s \X (Nat \ {0}) : u[2] <= w[u[1]]}

(* One element has as many units as it weighs. *)
LEMMA UnitsOfOne ==
    ASSUME NEW x, NEW w, w[x] \in Nat
    PROVE  IsFiniteSet(Units(w, {x})) /\ Cardinality(Units(w, {x})) = w[x]
<1> DEFINE g == [i \in 1..w[x] |-> <<x, i>>]
<1>1. IsFiniteSet(1..w[x]) /\ Cardinality(1..w[x]) = w[x]
  BY FS_Interval
<1>2. g \in Bijection(1..w[x], Units(w, {x}))
  <2>1. g \in [1..w[x] -> Units(w, {x})]
    BY DEF Units
  <2>2. \A i, j \in 1..w[x] : g[i] = g[j] => i = j
    OBVIOUS
  <2>3. \A u \in Units(w, {x}) : u[2] \in 1..w[x] /\ g[u[2]] = u
    BY DEF Units
  <2> QED BY <2>1, <2>2, <2>3 DEF Bijection, Injection, Surjection, IsInjective
<1> QED BY <1>1, <1>2, FS_Bijection DEF ExistsBijection

(* One more element adds its weight. *)
LEMMA UnitsAdd ==
    ASSUME NEW s, NEW x \in s, NEW w, \A y \in s : w[y] \in Nat, IsFiniteSet(Units(w, s \ {x}))
    PROVE  IsFiniteSet(Units(w, s)) /\ Cardinality(Units(w, s)) = w[x] + Cardinality(Units(w, s \ {x}))
<1> DEFINE A == Units(w, s \ {x})
           B == Units(w, {x})
<1>1. Units(w, s) = A \cup B /\ A \cap B = {}
  BY DEF Units
<1>2. IsFiniteSet(A) /\ IsFiniteSet(B) /\ Cardinality(B) = w[x] /\ Cardinality(A) \in Nat /\ w[x] \in Nat
  BY UnitsOfOne, FS_CardinalityType
<1> HIDE DEF A, B
<1>3. IsFiniteSet(A \cup B) /\ Cardinality(A \cup B) = Cardinality(A) + Cardinality(B) - Cardinality(A \cap B)
  BY <1>2, FS_Union
<1>4. Cardinality(A \cap B) = 0
  BY <1>1, FS_EmptySet
<1>5. Cardinality(A \cup B) = w[x] + Cardinality(A)
  BY <1>2, <1>3, <1>4
<1> QED BY <1>1, <1>3, <1>5 DEF A

(* A finite set has finitely many units. *)
LEMMA UnitsFinite ==
    ASSUME NEW S, IsFiniteSet(S), NEW w, \A y \in S : w[y] \in Nat
    PROVE  \A s \in SUBSET S : IsFiniteSet(Units(w, s)) /\ Cardinality(Units(w, s)) \in Nat
<1> DEFINE G == {s \in SUBSET S : IsFiniteSet(Units(w, s))}
<1>1. {} \in G
  BY FS_EmptySet DEF Units
<1>2. ASSUME NEW s \in SUBSET S, s # {}, \A x \in s : s \ {x} \in G PROVE s \in G
  <2>1. PICK x \in s : TRUE
    BY <1>2
  <2> QED BY <1>2, <2>1, UnitsAdd
<1> HIDE DEF G
<1>3. \A s \in SUBSET S : s \in G
  BY <1>1, <1>2, SubsetInduction
<1> QED BY <1>3, FS_CardinalityType DEF G

(* A sum over a set, taken element by element, counts the units. *)
Chosen(s) == CHOOSE x \in s : TRUE
Sums(f, w, S) ==
    f = [s \in SUBSET S |-> IF s = {} THEN 0 ELSE w[Chosen(s)] + f[s \ {Chosen(s)}]]

(* So the function that adds up a set is the count of its units. *)
LEMMA SumCounts ==
    ASSUME NEW S, IsFiniteSet(S), NEW w, \A y \in S : w[y] \in Nat,
           NEW f, Sums(f, w, S)
    PROVE  \A s \in SUBSET S : f[s] = Cardinality(Units(w, s))
<1> DEFINE G == {s \in SUBSET S : f[s] = Cardinality(Units(w, s))}
<1>1. {} \in G
  BY FS_EmptySet DEF Units, Sums
<1>2. ASSUME NEW s \in SUBSET S, s # {}, \A x \in s : s \ {x} \in G PROVE s \in G
  <2> DEFINE x == Chosen(s)
  <2>1. x \in s
    BY <1>2 DEF Chosen
  <2>2. f[s] = w[x] + f[s \ {x}]
    BY <1>2 DEF Sums
  <2>3. f[s \ {x}] = Cardinality(Units(w, s \ {x})) /\ IsFiniteSet(Units(w, s \ {x}))
    BY <1>2, <2>1, UnitsFinite
  <2> HIDE DEF x
  <2>4. Cardinality(Units(w, s)) = w[x] + Cardinality(Units(w, s \ {x}))
    BY <2>1, <2>3, UnitsAdd
  <2> QED BY <2>2, <2>3, <2>4
<1> HIDE DEF G
<1>3. \A s \in SUBSET S : s \in G
  BY <1>1, <1>2, SubsetInduction
<1> QED BY <1>3 DEF G

(* And there is such a function. *)
LEMMA SumExists ==
    ASSUME NEW S, IsFiniteSet(S), NEW w, \A y \in S : w[y] \in Nat
    PROVE  \E f : Sums(f, w, S)
<1> DEFINE f == [s \in SUBSET S |-> Cardinality(Units(w, s))]
<1>1. ASSUME NEW s \in SUBSET S
      PROVE  Cardinality(Units(w, s)) = IF s = {} THEN 0 ELSE w[Chosen(s)] + f[s \ {Chosen(s)}]
  <2>1. CASE s = {}
    <3>1. Units(w, {}) = {}
      BY DEF Units
    <3> QED BY <2>1, <3>1, FS_EmptySet
  <2>2. CASE s # {}
    <3>1. Chosen(s) \in s
      BY <2>2 DEF Chosen
    <3>2. IsFiniteSet(Units(w, s \ {Chosen(s)})) /\ f[s \ {Chosen(s)}] = Cardinality(Units(w, s \ {Chosen(s)}))
      BY <3>1, UnitsFinite
    <3> QED BY <2>2, <3>1, <3>2, UnitsAdd
  <2> QED BY <2>1, <2>2
<1>2. f = [s \in SUBSET S |-> IF s = {} THEN 0 ELSE w[Chosen(s)] + f[s \ {Chosen(s)}]]
  BY <1>1
<1> QED BY <1>2 DEF Sums

CentsOf == [t \in MoneyMoves |-> Cents(t)]

(* The cents of the transfers in a set are the units of their amounts. *)
LEMMA MovedCounts ==
    ASSUME NEW S \in SUBSET MoneyMoves, IsFiniteSet(S), \A t \in MoneyMoves : Cents(t) \in Nat
    PROVE  Moved(S) = Cardinality(Units(CentsOf, S))
<1> DEFINE iter == CHOOSE iter : iter = [s \in SUBSET S |-> IF s = {} THEN 0 ELSE Cents(Chosen(s)) + iter[s \ {Chosen(s)}]]
<1>1. Moved(S) = iter[S]
  BY DEF Moved, MapThenSumSet, MapThenFoldSet, Chosen
<1>2. \A s \in SUBSET S : s # {} => Chosen(s) \in s /\ Cents(Chosen(s)) = CentsOf[Chosen(s)]
  BY DEF Chosen, CentsOf
<1>3. \A t \in S : CentsOf[t] \in Nat
  BY DEF CentsOf
<1>4. PICK f : Sums(f, CentsOf, S)
  BY <1>3, SumExists
<1>5. f = [s \in SUBSET S |-> IF s = {} THEN 0 ELSE Cents(Chosen(s)) + f[s \ {Chosen(s)}]]
  BY <1>2, <1>4 DEF Sums
<1>6. iter = [s \in SUBSET S |-> IF s = {} THEN 0 ELSE Cents(Chosen(s)) + iter[s \ {Chosen(s)}]]
  BY <1>5
<1> HIDE DEF iter
<1>7. Sums(iter, CentsOf, S)
  BY <1>2, <1>6 DEF Sums
<1>8. iter[S] = Cardinality(Units(CentsOf, S))
  BY <1>3, <1>7, SumCounts
<1> QED BY <1>1, <1>8

-----------------------------------------------------------------------------
(* Transfers: locks, and what is written under them. *)

MoneySteps == {"begin", "lock first", "lock second", "select", "debit", "credit", "commit", "ok", "failed"}

(* The inductive invariant, by parts. *)
MoneyTypeOK ==
    /\ style \in [MoneyMoves -> Styles]
    /\ balance \in [Accounts -> Nat]
    /\ own \in [MoneyMoves -> [Accounts -> Nat \cup {None}]]
    /\ holder \in [Accounts -> MoneyMoves \cup {None}]
    /\ step \in [MoneyMoves -> MoneySteps]
    /\ read \in [MoneyMoves -> Nat \cup {None}]
    /\ attempts \in [MoneyMoves -> Nat]

(* The rows that a transfer has locked when it comes to a statement. *)
RowsLocked(t) ==
    CASE step[t] = "lock second" -> {LockFirst(t)}
      [] step[t] = "debit" /\ style[t] = "for update" -> {From(t)}
      [] step[t] = "debit" /\ style[t] = "ordered" -> {From(t), To(t)}
      [] step[t] = "credit" /\ style[t] # "ordered" -> {From(t)}
      [] step[t] = "credit" /\ style[t] = "ordered" -> {From(t), To(t)}
      [] step[t] = "commit" -> {From(t), To(t)}
      [] OTHER -> {}

(* Only a transfer that locks in order comes to the statements that do. *)
InStyle(t) ==
    /\ step[t] \in {"lock first", "lock second"} => style[t] = "ordered"
    /\ step[t] = "select" => style[t] = "for update"
LocksAre(t) == \A a \in Accounts : holder[a] = t <=> a \in RowsLocked(t)

(* What a transfer has written, seen from what is committed meanwhile. *)
Debited(t)  == balance[From(t)] - Cents(t)
WrittenIs(t) ==
    /\ step[t] \notin {"credit", "commit"} => own[t] = [a \in Accounts |-> None]
    /\ step[t] = "credit" =>
          /\ balance[From(t)] >= Cents(t)
          /\ own[t] = [a \in Accounts |-> IF a = From(t) THEN Debited(t) ELSE None]
    /\ step[t] = "commit" =>
          /\ balance[From(t)] >= Cents(t)
          /\ own[t] = [a \in Accounts |->
                         CASE a = From(t) /\ From(t) # To(t) -> Debited(t)
                           [] a = To(t) /\ From(t) # To(t) -> balance[a] + Cents(t)
                           [] a = To(t) /\ From(t) = To(t) -> balance[a]
                           [] OTHER -> None]
    /\ step[t] = "debit" /\ style[t] = "for update" => read[t] = balance[From(t)]

Each == \A t \in MoneyMoves : InStyle(t) /\ LocksAre(t) /\ WrittenIs(t)
MoneyInv == MoneyTypeOK /\ Each /\ BalancesAddUp

(* What the assumption says of a transfer. *)
LEMMA MoneyFacts ==
    ASSUME NEW t \in MoneyMoves
    PROVE  /\ From(t) \in Accounts /\ To(t) \in Accounts /\ From(t) \in Nat /\ To(t) \in Nat
           /\ Cents(t) \in Nat /\ t # None /\ From(t) # None /\ To(t) # None
           /\ LockFirst(t) \in {From(t), To(t)} /\ LockSecond(t) \in {From(t), To(t)}
           /\ {LockFirst(t), LockSecond(t)} = {From(t), To(t)}
           /\ LockFirst(t) <= LockSecond(t)
           /\ LockFirst(t) # None /\ LockSecond(t) # None
<1>1. /\ From(t) \in Accounts /\ To(t) \in Accounts /\ From(t) \in Nat /\ To(t) \in Nat
      /\ Cents(t) \in Nat /\ t # None /\ From(t) # None /\ To(t) # None
  BY MoneyAssumption
<1> QED BY <1>1, SMT DEF LockFirst, LockSecond, Lower

(* The row of the statement a transfer is at, and what the steps that only *)
(* begin with that row may rely on.                                        *)
LEMMA NeedsRow ==
    ASSUME NEW t \in MoneyMoves
    PROVE  /\ step[t] = "lock first" => Needs(t) = LockFirst(t)
           /\ step[t] = "lock second" => Needs(t) = LockSecond(t)
           /\ step[t] \in {"select", "debit"} => Needs(t) = From(t)
           /\ step[t] = "credit" => Needs(t) = To(t)
           /\ step[t] \in {"begin", "commit", "ok", "failed"} => Needs(t) = None
BY DEF Needs

(* Nothing about a transfer changes when another takes a step that leaves  *)
(* its locks, and what is committed in its rows, alone.                    *)
LEMMA OthersKeep ==
    ASSUME MoneyTypeOK, NEW u \in MoneyMoves, InStyle(u), LocksAre(u), WrittenIs(u),
           style' = style, step'[u] = step[u], own'[u] = own[u], read'[u] = read[u],
           \A a \in Accounts : holder'[a] = u <=> holder[a] = u,
           \A a \in RowsLocked(u) : balance'[a] = balance[a]
    PROVE  InStyle(u)' /\ LocksAre(u)' /\ WrittenIs(u)'
<1>0. From(u) \in Accounts /\ To(u) \in Accounts
  BY MoneyFacts
<1>1. InStyle(u)'
  BY DEF InStyle
<1>2. RowsLocked(u)' = RowsLocked(u)
  BY DEF RowsLocked
<1>3. LocksAre(u)'
  BY <1>2 DEF LocksAre
<1>4. step[u] \in {"credit", "commit"} => From(u) \in RowsLocked(u)
  BY DEF RowsLocked
<1>5. step[u] = "commit" => To(u) \in RowsLocked(u)
  BY DEF RowsLocked
<1>6. step[u] = "debit" /\ style[u] = "for update" => From(u) \in RowsLocked(u)
  BY DEF RowsLocked
<1>7. WrittenIs(u)'
  <2>1. CASE step[u] \notin {"credit", "commit"}
    BY <2>1, <1>6 DEF WrittenIs
  <2>2. CASE step[u] = "credit"
    BY <2>2, <1>4 DEF WrittenIs, Debited
  <2>3. CASE step[u] = "commit"
    <3>1. balance'[From(u)] = balance[From(u)] /\ balance'[To(u)] = balance[To(u)]
      BY <2>3, <1>4, <1>5
    <3> QED BY <2>3, <3>1 DEF WrittenIs, Debited
  <2> QED BY <2>1, <2>2, <2>3
<1> QED BY <1>1, <1>3, <1>7

(* A statement that gets its row: the locks of the others stay. *)
LEMMA RowTaken ==
    ASSUME MoneyTypeOK, NEW t \in MoneyMoves, NEW r \in Accounts, holder[r] \in {None, t},
           holder' = [holder EXCEPT ![r] = t]
    PROVE  /\ holder' \in [Accounts -> MoneyMoves \cup {None}]
           /\ \A a \in Accounts : holder'[a] = t <=> holder[a] = t \/ a = r
           /\ \A u \in MoneyMoves, a \in Accounts : u # t => (holder'[a] = u <=> holder[a] = u)
BY MoneyFacts DEF MoneyTypeOK

(* The end of a transaction: its locks and what it wrote are gone, and the *)
(* others are where they were.                                             *)
LEMMA ReleaseKeeps ==
    ASSUME MoneyTypeOK, Each, NEW t \in MoneyMoves, Releases(t), style' = style, attempts' = attempts,
           balance' \in [Accounts -> Nat],
           NEW s \in {"begin", "ok", "failed"}, GoesTo(t, s),
           \A u \in MoneyMoves, a \in Accounts : u # t /\ holder[a] = u => balance'[a] = balance[a]
    PROVE  MoneyTypeOK' /\ Each'
<1>1. MoneyTypeOK'
  BY DEF MoneyTypeOK, MoneySteps, Releases, GoesTo
<1>2. InStyle(t)' /\ WrittenIs(t)'
  BY DEF MoneyTypeOK, Releases, GoesTo, InStyle, WrittenIs
<1>3. LocksAre(t)'
  <2>1. RowsLocked(t)' = {}
    BY DEF MoneyTypeOK, GoesTo, RowsLocked
  <2> QED BY <2>1, MoneyFacts DEF LocksAre, Releases
<1>4. ASSUME NEW u \in MoneyMoves, u # t PROVE InStyle(u)' /\ LocksAre(u)' /\ WrittenIs(u)'
  <2>1. InStyle(u) /\ LocksAre(u) /\ WrittenIs(u)
    BY DEF Each
  <2>2. step'[u] = step[u] /\ own'[u] = own[u] /\ read'[u] = read[u]
    BY <1>4 DEF MoneyTypeOK, Releases, GoesTo
  <2>3. \A a \in Accounts : holder'[a] = u <=> holder[a] = u
    BY <1>4, MoneyFacts DEF Releases
  <2>4. RowsLocked(u) \subseteq Accounts
    BY MoneyFacts DEF RowsLocked
  <2>5. \A a \in RowsLocked(u) : balance'[a] = balance[a]
    BY <1>4, <2>1, <2>4 DEF LocksAre
  <2> QED BY <2>1, <2>2, <2>3, <2>5, OthersKeep
<1> QED BY <1>1, <1>2, <1>3, <1>4 DEF Each

(* The balances add up as long as neither they nor the results change. *)
LEMMA SumsKeep ==
    ASSUME BalancesAddUp, balance' = balance,
           \A t \in MoneyMoves : step'[t] = "ok" <=> step[t] = "ok"
    PROVE  BalancesAddUp'
<1>1. {t \in MoneyMoves : step[t] = "ok"}' = {t \in MoneyMoves : step[t] = "ok"}
  OBVIOUS
<1> QED BY <1>1 DEF BalancesAddUp

(* The others, while one runs a statement of its own. *)
LEMMA OneMoves ==
    ASSUME MoneyTypeOK, Each, NEW t \in MoneyMoves, style' = style, balance' = balance,
           \A u \in MoneyMoves : u # t => step'[u] = step[u] /\ own'[u] = own[u] /\ read'[u] = read[u],
           \A u \in MoneyMoves, a \in Accounts : u # t => (holder'[a] = u <=> holder[a] = u),
           InStyle(t)', LocksAre(t)', WrittenIs(t)'
    PROVE  Each'
<1>1. ASSUME NEW u \in MoneyMoves, u # t PROVE InStyle(u)' /\ LocksAre(u)' /\ WrittenIs(u)'
  BY <1>1, OthersKeep DEF Each
<1> QED BY <1>1 DEF Each

(* One more attempt. *)
LEMMA OneMore ==
    ASSUME NEW S, NEW f \in [S -> Nat], NEW x \in S
    PROVE  [f EXCEPT ![x] = f[x] + 1] \in [S -> Nat]
OBVIOUS

(* BEGIN. *)
LEMMA BeginKeeps ==
    ASSUME MoneyInv, NEW t \in MoneyMoves, Begin(t)
    PROVE  MoneyInv'
<1> USE DEF MoneyInv
<1>1. style[t] \in {"update", "for update", "ordered"}
  BY MoneyAssumption DEF MoneyTypeOK
<1>2. PICK s \in {"debit", "select", "lock first"} :
        /\ step' = [step EXCEPT ![t] = s]
        /\ s = "select" => style[t] = "for update"
        /\ s = "lock first" => style[t] = "ordered"
        /\ s = "debit" => style[t] = "update"
  BY <1>1 DEF Begin, GoesTo
<1>3. MoneyTypeOK'
  <2>1. step' \in [MoneyMoves -> MoneySteps]
    BY <1>2 DEF MoneyTypeOK, MoneySteps
  <2>2. attempts' \in [MoneyMoves -> Nat]
    BY OneMore DEF Begin, MoneyTypeOK
  <2> QED BY <2>1, <2>2 DEF Begin, MoneyTypeOK
<1>4. step'[t] = s /\ step[t] = "begin"
  BY <1>2 DEF Begin, MoneyTypeOK
<1>5. InStyle(t)' /\ WrittenIs(t)'
  BY <1>2, <1>4 DEF Begin, InStyle, WrittenIs, Each
<1>6. RowsLocked(t) = {} /\ RowsLocked(t)' = {}
  BY <1>2, <1>4 DEF RowsLocked, Begin
<1>7. LocksAre(t)'
  BY <1>6 DEF LocksAre, Each, Begin
<1>8. Each'
  BY <1>2, <1>5, <1>7, OneMoves DEF Begin, MoneyTypeOK
<1>9. BalancesAddUp'
  BY <1>2, <1>4, SumsKeep DEF Begin, MoneyTypeOK
<1> QED BY <1>3, <1>8, <1>9

(* The two SELECT ... FOR UPDATE of a transfer that locks in order. *)
LEMMA LockKeeps ==
    ASSUME MoneyInv, NEW t \in MoneyMoves, LockRow(t)
    PROVE  MoneyInv'
<1> USE DEF MoneyInv
<1>0. PICK s \in {"lock second", "debit"}, r \in Accounts :
        /\ step' = [step EXCEPT ![t] = s] /\ holder[r] \in {None, t} /\ holder' = [holder EXCEPT ![r] = t]
        /\ s = "lock second" => step[t] = "lock first" /\ r = LockFirst(t)
        /\ s = "debit" => step[t] = "lock second" /\ r = LockSecond(t)
  <2>1. CASE RunsAt(t, "lock first") /\ GoesTo(t, "lock second")
    <3>1. Needs(t) = LockFirst(t) /\ LockFirst(t) \in Accounts
      BY <2>1, NeedsRow, MoneyFacts DEF RunsAt
    <3> QED BY <2>1, <3>1 DEF RunsAt, GoesTo
  <2>2. CASE RunsAt(t, "lock second") /\ GoesTo(t, "debit")
    <3>1. Needs(t) = LockSecond(t) /\ LockSecond(t) \in Accounts
      BY <2>2, NeedsRow, MoneyFacts DEF RunsAt
    <3> QED BY <2>2, <3>1 DEF RunsAt, GoesTo
  <2> QED BY <2>1, <2>2 DEF LockRow
<1>1. holder' \in [Accounts -> MoneyMoves \cup {None}]
      /\ (\A a \in Accounts : holder'[a] = t <=> holder[a] = t \/ a = r)
      /\ (\A u \in MoneyMoves, a \in Accounts : u # t => (holder'[a] = u <=> holder[a] = u))
  BY <1>0, RowTaken
<1>2. MoneyTypeOK'
  BY <1>0, <1>1 DEF MoneyTypeOK, MoneySteps, LockRow
<1>3. step'[t] = s /\ style[t] = "ordered" /\ style' = style
  BY <1>0 DEF MoneyTypeOK, Each, InStyle, LockRow
<1>4. InStyle(t)' /\ WrittenIs(t)'
  BY <1>0, <1>3 DEF LockRow, InStyle, WrittenIs, Each
<1>5. RowsLocked(t)' = RowsLocked(t) \cup {r}
  BY <1>0, <1>3, MoneyFacts DEF RowsLocked
<1>6. LocksAre(t)'
  BY <1>1, <1>5 DEF LocksAre, Each
<1>7. Each'
  BY <1>0, <1>1, <1>4, <1>6, OneMoves DEF LockRow, MoneyTypeOK
<1>8. BalancesAddUp'
  BY <1>0, <1>3, SumsKeep DEF LockRow, MoneyTypeOK
<1> QED BY <1>2, <1>7, <1>8

(* The SELECT of a transfer that reads its balance. *)
LEMMA SelectKeeps ==
    ASSUME MoneyInv, NEW t \in MoneyMoves, SelectForUpdate(t)
    PROVE  MoneyInv'
<1> USE DEF MoneyInv
<1> DEFINE r == From(t)
<1>0. /\ step[t] = "select" /\ step' = [step EXCEPT ![t] = "debit"]
      /\ holder[r] \in {None, t} /\ holder' = [holder EXCEPT ![r] = t] /\ r \in Accounts
  BY NeedsRow, MoneyFacts DEF SelectForUpdate, RunsAt, GoesTo
<1>1. holder' \in [Accounts -> MoneyMoves \cup {None}]
      /\ (\A a \in Accounts : holder'[a] = t <=> holder[a] = t \/ a = r)
      /\ (\A u \in MoneyMoves, a \in Accounts : u # t => (holder'[a] = u <=> holder[a] = u))
  BY <1>0, RowTaken
<1>2. own[t][r] = None /\ read' = [read EXCEPT ![t] = balance[r]]
  <2>1. own[t] = [a \in Accounts |-> None]
    BY <1>0 DEF Each, WrittenIs
  <2>2. own[t][r] = None
    BY <1>0, <2>1
  <2> QED BY <2>2 DEF SelectForUpdate, Sees
<1>3. MoneyTypeOK'
  <2>1. step' \in [MoneyMoves -> MoneySteps]
    BY <1>0 DEF MoneyTypeOK, MoneySteps
  <2>2. read' \in [MoneyMoves -> Nat \cup {None}]
    BY <1>0, <1>2 DEF MoneyTypeOK
  <2> QED BY <1>1, <2>1, <2>2 DEF SelectForUpdate, MoneyTypeOK
<1>4. step'[t] = "debit" /\ style[t] = "for update" /\ style' = style
  BY <1>0 DEF MoneyTypeOK, Each, InStyle, SelectForUpdate
<1>5. InStyle(t)' /\ WrittenIs(t)'
  BY <1>0, <1>2, <1>4 DEF SelectForUpdate, InStyle, WrittenIs, Each, MoneyTypeOK
<1>6. RowsLocked(t)' = RowsLocked(t) \cup {r}
  BY <1>0, <1>4 DEF RowsLocked
<1>7. LocksAre(t)'
  BY <1>1, <1>6 DEF LocksAre, Each
<1>8. Each'
  BY <1>0, <1>1, <1>2, <1>5, <1>7, OneMoves DEF SelectForUpdate, MoneyTypeOK
<1>9. BalancesAddUp'
  BY <1>0, <1>4, SumsKeep DEF SelectForUpdate, MoneyTypeOK
<1> QED BY <1>3, <1>8, <1>9

(* What a debit is taken from: the balance, which no one else may change. *)
LEMMA FundsAreBalance ==
    ASSUME MoneyInv, NEW t \in MoneyMoves, step[t] = "debit"
    PROVE  Funds(t) = balance[From(t)]
<1>1. own[t][From(t)] = None
  BY MoneyFacts DEF MoneyInv, Each, WrittenIs
<1> QED BY <1>1 DEF MoneyInv, Each, WrittenIs, Funds, Sees

(* The debit. *)
LEMMA DebitKeeps ==
    ASSUME MoneyInv, NEW t \in MoneyMoves, Debit(t)
    PROVE  MoneyInv'
<1> USE DEF MoneyInv
<1> DEFINE r == From(t)
<1>0. /\ step[t] = "debit" /\ step' = [step EXCEPT ![t] = "credit"]
      /\ holder[r] \in {None, t} /\ holder' = [holder EXCEPT ![r] = t] /\ r \in Accounts
  BY NeedsRow, MoneyFacts DEF Debit, RunsAt, GoesTo
<1>1. holder' \in [Accounts -> MoneyMoves \cup {None}]
      /\ (\A a \in Accounts : holder'[a] = t <=> holder[a] = t \/ a = r)
      /\ (\A u \in MoneyMoves, a \in Accounts : u # t => (holder'[a] = u <=> holder[a] = u))
  BY <1>0, RowTaken
<1>2. Funds(t) = balance[r] /\ balance[r] \in Nat /\ Cents(t) \in Nat
  BY <1>0, FundsAreBalance, MoneyFacts DEF MoneyTypeOK
<1>3. balance[r] >= Cents(t) /\ own' = [own EXCEPT ![t][r] = Debited(t)] /\ Debited(t) \in Nat
  BY <1>2 DEF Debit, Writes, Debited
<1>4. own' \in [MoneyMoves -> [Accounts -> Nat \cup {None}]]
  BY <1>3 DEF MoneyTypeOK
<1>5. MoneyTypeOK'
  BY <1>0, <1>1, <1>4 DEF MoneyTypeOK, MoneySteps, Debit
<1>6. step'[t] = "credit" /\ style' = style /\ balance' = balance /\ read' = read
  BY <1>0 DEF MoneyTypeOK, Debit
<1>7. own[t] = [a \in Accounts |-> None]
  BY <1>0 DEF Each, WrittenIs
<1>8. own'[t] = [a \in Accounts |-> IF a = r THEN Debited(t) ELSE None]
  BY <1>0, <1>3, <1>7 DEF MoneyTypeOK
<1>9. InStyle(t)' /\ WrittenIs(t)'
  BY <1>3, <1>6, <1>8 DEF InStyle, WrittenIs, Debited
<1>10. RowsLocked(t)' = RowsLocked(t) \cup {r}
  <2>1. style[t] \in {"update", "for update", "ordered"}
    BY MoneyAssumption DEF MoneyTypeOK
  <2> QED BY <1>0, <1>6, <2>1 DEF RowsLocked
<1>11. LocksAre(t)'
  BY <1>1, <1>10 DEF LocksAre, Each
<1>12. \A u \in MoneyMoves : u # t => step'[u] = step[u] /\ own'[u] = own[u] /\ read'[u] = read[u]
  BY <1>0, <1>3, <1>6 DEF MoneyTypeOK
<1>13. Each'
  BY <1>1, <1>6, <1>9, <1>11, <1>12, OneMoves
<1>14. BalancesAddUp'
  BY <1>0, <1>6, SumsKeep DEF MoneyTypeOK
<1> QED BY <1>5, <1>13, <1>14

(* The credit. *)
LEMMA CreditKeeps ==
    ASSUME MoneyInv, NEW t \in MoneyMoves, Credit(t)
    PROVE  MoneyInv'
<1> USE DEF MoneyInv
<1> DEFINE r == To(t)
           w == Sees(t, r) + Cents(t)
<1>0. /\ step[t] = "credit" /\ step' = [step EXCEPT ![t] = "commit"]
      /\ holder[r] \in {None, t} /\ holder' = [holder EXCEPT ![r] = t] /\ r \in Accounts /\ From(t) \in Accounts
  BY NeedsRow, MoneyFacts DEF Credit, RunsAt, GoesTo
<1>1. holder' \in [Accounts -> MoneyMoves \cup {None}]
      /\ (\A a \in Accounts : holder'[a] = t <=> holder[a] = t \/ a = r)
      /\ (\A u \in MoneyMoves, a \in Accounts : u # t => (holder'[a] = u <=> holder[a] = u))
  BY <1>0, RowTaken
<1>2. balance[r] \in Nat /\ balance[From(t)] \in Nat /\ Cents(t) \in Nat /\ None \notin Nat
  BY <1>0, MoneyFacts, MoneyAssumption DEF MoneyTypeOK
<1>3. /\ balance[From(t)] >= Cents(t)
      /\ own[t] = [a \in Accounts |-> IF a = From(t) THEN Debited(t) ELSE None]
  BY <1>0 DEF Each, WrittenIs
<1>4. Debited(t) \in Nat /\ Debited(t) + Cents(t) = balance[From(t)]
  BY <1>2, <1>3 DEF Debited
<1>5. w = IF From(t) = r THEN balance[r] ELSE balance[r] + Cents(t)
  BY <1>0, <1>2, <1>3, <1>4 DEF Sees
<1>6. w \in Nat /\ own' = [own EXCEPT ![t][r] = w]
  BY <1>2, <1>5 DEF Credit, Writes
<1> HIDE DEF w
<1>7. MoneyTypeOK'
  <2>1. own' \in [MoneyMoves -> [Accounts -> Nat \cup {None}]]
    BY <1>6 DEF MoneyTypeOK
  <2> QED BY <1>0, <1>1, <2>1 DEF MoneyTypeOK, MoneySteps, Credit
<1>8. step'[t] = "commit" /\ style' = style /\ balance' = balance /\ read' = read
  BY <1>0 DEF MoneyTypeOK, Credit
<1>9. own'[t] = [a \in Accounts |-> IF a = r THEN w ELSE own[t][a]]
  BY <1>6 DEF MoneyTypeOK
<1>10. InStyle(t)'
  BY <1>8 DEF InStyle
<1>11. WrittenIs(t)'
  <2>1. own'[t] = [a \in Accounts |->
                         CASE a = From(t) /\ From(t) # To(t) -> Debited(t)
                           [] a = To(t) /\ From(t) # To(t) -> balance[a] + Cents(t)
                           [] a = To(t) /\ From(t) = To(t) -> balance[a]
                           [] OTHER -> None]
    BY <1>3, <1>5, <1>9
  <2> QED BY <1>3, <1>8, <2>1 DEF WrittenIs, Debited
<1>12. RowsLocked(t)' = RowsLocked(t) \cup {r}
  BY <1>0, <1>8 DEF RowsLocked
<1>13. LocksAre(t)'
  BY <1>1, <1>12 DEF LocksAre, Each
<1>14. \A u \in MoneyMoves : u # t => step'[u] = step[u] /\ own'[u] = own[u] /\ read'[u] = read[u]
  BY <1>0, <1>6, <1>8 DEF MoneyTypeOK
<1>15. Each'
  BY <1>1, <1>8, <1>10, <1>11, <1>13, <1>14, OneMoves
<1>16. BalancesAddUp'
  BY <1>0, <1>8, SumsKeep DEF MoneyTypeOK
<1> QED BY <1>7, <1>15, <1>16

(* A rollback: no balance changes, and no transfer returns nil. *)
LEMMA RollbackKeeps ==
    ASSUME MoneyInv, NEW t \in MoneyMoves, step[t] # "ok", Releases(t),
           NEW s \in {"begin", "failed"}, GoesTo(t, s), UNCHANGED <<style, balance, attempts>>
    PROVE  MoneyInv'
<1> USE DEF MoneyInv
<1>1. MoneyTypeOK' /\ Each'
  BY ReleaseKeeps DEF MoneyTypeOK
<1>2. \A u \in MoneyMoves : step'[u] = "ok" <=> step[u] = "ok"
  BY DEF GoesTo, MoneyTypeOK
<1> QED BY <1>1, <1>2, SumsKeep

(* The cents of the transfers in a set, when one more is among them. *)
LEMMA MovedAdds ==
    ASSUME NEW S \in SUBSET MoneyMoves, NEW t \in MoneyMoves, t \notin S
    PROVE  Moved(S) \in Nat /\ Moved(S \cup {t}) = Moved(S) + Cents(t)
<1>1. IsFiniteSet(MoneyMoves) /\ \A u \in MoneyMoves : Cents(u) \in Nat
  BY MoneyAssumption
<1>2. IsFiniteSet(S) /\ IsFiniteSet(S \cup {t})
  BY <1>1, FS_Subset
<1>3. Moved(S) = Cardinality(Units(CentsOf, S)) /\ Moved(S \cup {t}) = Cardinality(Units(CentsOf, S \cup {t}))
  BY <1>1, <1>2, MovedCounts
<1>4. \A y \in S \cup {t} : CentsOf[y] \in Nat
  BY <1>1 DEF CentsOf
<1>5. IsFiniteSet(Units(CentsOf, S)) /\ Cardinality(Units(CentsOf, S)) \in Nat
  BY <1>2, <1>4, UnitsFinite
<1>6. (S \cup {t}) \ {t} = S /\ CentsOf[t] = Cents(t) /\ t \in S \cup {t}
  BY DEF CentsOf
<1>7. Cardinality(Units(CentsOf, S \cup {t})) = CentsOf[t] + Cardinality(Units(CentsOf, S))
  <2>1. IsFiniteSet(Units(CentsOf, (S \cup {t}) \ {t}))
    BY <1>5, <1>6
  <2> DEFINE s == S \cup {t}
  <2>2. t \in s /\ \A y \in s : CentsOf[y] \in Nat
    BY <1>4
  <2> HIDE DEF s
  <2>3. IsFiniteSet(Units(CentsOf, s \ {t})) => Cardinality(Units(CentsOf, s)) = CentsOf[t] + Cardinality(Units(CentsOf, s \ {t}))
    BY <2>2, UnitsAdd
  <2> QED BY <1>6, <2>1, <2>3 DEF s
<1> QED BY <1>1, <1>3, <1>5, <1>6, <1>7

(* COMMIT: what was written is what is committed, and the cents have moved. *)
LEMMA CommitMoneyKeeps ==
    ASSUME MoneyInv, NEW t \in MoneyMoves, CommitMoney(t)
    PROVE  MoneyInv'
<1> USE DEF MoneyInv
<1>1. From(t) \in Accounts /\ To(t) \in Accounts /\ Cents(t) \in Nat /\ None \notin Nat
  BY MoneyFacts, MoneyAssumption
<1>2. balance[From(t)] >= Cents(t)
      /\ own[t] = [a \in Accounts |->
                         CASE a = From(t) /\ From(t) # To(t) -> Debited(t)
                           [] a = To(t) /\ From(t) # To(t) -> balance[a] + Cents(t)
                           [] a = To(t) /\ From(t) = To(t) -> balance[a]
                           [] OTHER -> None]
  BY DEF CommitMoney, Each, WrittenIs
<1>3. \A a \in Accounts : balance[a] \in Nat
  BY DEF MoneyTypeOK
<1>4. Debited(t) \in Nat /\ Debited(t) + Cents(t) = balance[From(t)]
  BY <1>1, <1>2, <1>3 DEF Debited
<1>5. \A a \in Accounts : own[t][a] =
                         CASE a = From(t) /\ From(t) # To(t) -> Debited(t)
                           [] a = To(t) /\ From(t) # To(t) -> balance[a] + Cents(t)
                           [] a = To(t) /\ From(t) = To(t) -> balance[a]
                           [] OTHER -> None
  BY <1>2
<1>6. \A a \in Accounts : balance'[a] =
                         CASE a = From(t) /\ From(t) # To(t) -> Debited(t)
                           [] a = To(t) /\ From(t) # To(t) -> balance[a] + Cents(t)
                           [] OTHER -> balance[a]
  <2> TAKE a \in Accounts
  <2>1. balance'[a] = IF own[t][a] # None THEN own[t][a] ELSE balance[a]
    BY DEF CommitMoney, Sees
  <2>2. balance[a] + Cents(t) \in Nat
    BY <1>1, <1>3
  <2>3. CASE a = From(t) /\ From(t) # To(t)
    BY <1>1, <1>4, <1>5, <2>1, <2>3
  <2>4. CASE a = To(t) /\ From(t) # To(t)
    BY <1>1, <1>5, <2>1, <2>2, <2>4
  <2>5. CASE ~(a = From(t) /\ From(t) # To(t)) /\ ~(a = To(t) /\ From(t) # To(t))
    BY <1>1, <1>3, <1>5, <2>1, <2>5
  <2> QED BY <2>3, <2>4, <2>5
<1>7. balance' \in [Accounts -> Nat]
  <2>1. \A a \in Accounts : balance'[a] \in Nat
    BY <1>1, <1>3, <1>4, <1>6
  <2> QED BY <2>1 DEF CommitMoney
<1>8. MoneyTypeOK' /\ Each'
  <2>1. \A u \in MoneyMoves, a \in Accounts : u # t /\ holder[a] = u => balance'[a] = balance[a]
    <3>1. holder[From(t)] = t /\ holder[To(t)] = t
      <4>1. From(t) \in RowsLocked(t) /\ To(t) \in RowsLocked(t)
        BY DEF CommitMoney, RowsLocked
      <4> QED BY <1>1, <4>1 DEF Each, LocksAre
    <3> QED BY <1>6, <3>1
  <2> QED BY <1>7, <2>1, ReleaseKeeps DEF CommitMoney
<1>9. BalancesAddUp'
  <2> DEFINE ok == {u \in MoneyMoves : step[u] = "ok"}
             from(a) == {u \in ok : From(u) = a}
             to(a) == {u \in ok : To(u) = a}
  <2>1. {u \in MoneyMoves : step'[u] = "ok"} = ok \cup {t} /\ t \notin ok
    BY DEF CommitMoney, GoesTo, MoneyTypeOK
  <2> SUFFICES ASSUME NEW a \in Accounts
               PROVE  balance'[a] + Moved({u \in ok \cup {t} : From(u) = a})
                        = Opening + Moved({u \in ok \cup {t} : To(u) = a})
    BY <2>1 DEF BalancesAddUp
  <2>2. balance[a] + Moved(from(a)) = Opening + Moved(to(a))
    BY DEF BalancesAddUp
  <2>3. {u \in ok \cup {t} : From(u) = a} = IF From(t) = a THEN from(a) \cup {t} ELSE from(a)
    OBVIOUS
  <2>4. {u \in ok \cup {t} : To(u) = a} = IF To(t) = a THEN to(a) \cup {t} ELSE to(a)
    OBVIOUS
  <2>5. from(a) \in SUBSET MoneyMoves /\ to(a) \in SUBSET MoneyMoves /\ t \notin from(a) /\ t \notin to(a)
    BY <2>1
  <2> DEFINE from1 == {u \in ok \cup {t} : From(u) = a}
             to1 == {u \in ok \cup {t} : To(u) = a}
  <2>12. from1 = (IF From(t) = a THEN from(a) \cup {t} ELSE from(a)) /\ to1 = (IF To(t) = a THEN to(a) \cup {t} ELSE to(a))
    BY <2>3, <2>4
  <2> SUFFICES balance'[a] + Moved(from1) = Opening + Moved(to1)
    OBVIOUS
  <2> HIDE DEF from, to, ok, from1, to1
  <2>6. Moved(from(a)) \in Nat /\ Moved(from(a) \cup {t}) = Moved(from(a)) + Cents(t)
        /\ Moved(to(a)) \in Nat /\ Moved(to(a) \cup {t}) = Moved(to(a)) + Cents(t)
    BY <2>5, MovedAdds
  <2>7. Opening \in Nat /\ balance[a] \in Nat
    BY <1>3, MoneyAssumption
  <2>8. CASE a = From(t) /\ From(t) # To(t)
    <3>1. balance'[a] + Cents(t) = balance[a] /\ balance'[a] \in Nat
      BY <1>4, <1>6, <2>8
    <3> QED BY <1>1, <2>2, <2>12, <2>6, <2>7, <2>8, <3>1
  <2>9. CASE a = To(t) /\ From(t) # To(t)
    <3>1. balance'[a] = balance[a] + Cents(t)
      BY <1>6, <2>9
    <3> QED BY <1>1, <2>2, <2>12, <2>6, <2>7, <2>9, <3>1
  <2>10. CASE a = To(t) /\ From(t) = To(t)
    <3>1. balance'[a] = balance[a]
      BY <1>6, <2>10
    <3> QED BY <1>1, <2>2, <2>12, <2>6, <2>7, <2>10, <3>1
  <2>11. CASE a # From(t) /\ a # To(t)
    <3>1. balance'[a] = balance[a]
      BY <1>6, <2>11
    <3> QED BY <2>2, <2>12, <2>11, <3>1
  <2> QED BY <2>8, <2>9, <2>10, <2>11
<1> QED BY <1>8, <1>9

(* No transfer has begun. *)
LEMMA MoneyStarts == MoneyInit => MoneyInv
<1> SUFFICES ASSUME MoneyInit PROVE MoneyInv
  OBVIOUS
<1>1. MoneyTypeOK
  BY MoneyAssumption DEF MoneyInit, MoneyTypeOK, MoneySteps
<1>2. Each
  BY MoneyFacts DEF MoneyInit, Each, InStyle, LocksAre, WrittenIs, RowsLocked
<1>3. BalancesAddUp
  <2>1. {t \in MoneyMoves : step[t] = "ok"} = {}
    BY DEF MoneyInit
  <2> QED BY <2>1 DEF BalancesAddUp, MoneyInit
<1> QED BY <1>1, <1>2, <1>3 DEF MoneyInv

(* Every step keeps it. *)
LEMMA MoneyKeeps == MoneyInv /\ [MoneyNext]_moneyVars => MoneyInv'
<1> SUFFICES ASSUME MoneyInv, [MoneyNext]_moneyVars PROVE MoneyInv'
  OBVIOUS
<1>1. ASSUME NEW t \in MoneyMoves, Begin(t) PROVE MoneyInv'
  BY <1>1, BeginKeeps
<1>2. ASSUME NEW t \in MoneyMoves, LockRow(t) PROVE MoneyInv'
  BY <1>2, LockKeeps
<1>3. ASSUME NEW t \in MoneyMoves, SelectForUpdate(t) PROVE MoneyInv'
  BY <1>3, SelectKeeps
<1>4. ASSUME NEW t \in MoneyMoves, Debit(t) PROVE MoneyInv'
  BY <1>4, DebitKeeps
<1>5. ASSUME NEW t \in MoneyMoves, Insufficient(t) PROVE MoneyInv'
  BY <1>5, RollbackKeeps DEF Insufficient
<1>6. ASSUME NEW t \in MoneyMoves, Credit(t) PROVE MoneyInv'
  BY <1>6, CreditKeeps
<1>7. ASSUME NEW t \in MoneyMoves, CommitMoney(t) PROVE MoneyInv'
  BY <1>7, CommitMoneyKeeps
<1>8. ASSUME NEW t \in MoneyMoves, Victim(t) PROVE MoneyInv'
  <2>1. step[t] # "ok"
    BY <1>8, NeedsRow DEF Victim, OnCycle, Waits
  <2> QED BY <1>8, <2>1, RollbackKeeps DEF Victim
<1>9. ASSUME NEW t \in MoneyMoves, Breaks(t) PROVE MoneyInv'
  BY <1>9, RollbackKeeps DEF Breaks
<1>10. CASE UNCHANGED moneyVars
  <2>1. MoneyTypeOK'
    BY <1>10 DEF moneyVars, MoneyInv, MoneyTypeOK
  <2>2. Each'
    BY <1>10, OthersKeep DEF moneyVars, MoneyInv, Each
  <2>3. BalancesAddUp'
    BY <1>10, SumsKeep DEF moneyVars, MoneyInv
  <2> QED BY <2>1, <2>2, <2>3 DEF MoneyInv
<1> QED
  BY <1>1, <1>2, <1>3, <1>4, <1>5, <1>6, <1>7, <1>8, <1>9, <1>10 DEF MoneyNext, MoneyStep

(* The inductive invariant holds in every state. *)
THEOREM MoneyInvariant == MoneySpec => []MoneyInv
<1> QED BY MoneyStarts, MoneyKeeps, PTL DEF MoneySpec

(* A wait for one that waits itself, both locking in order, is for a lower *)
(* row than the other waits for.                                           *)
LEMMA WaitsGoUp ==
    ASSUME MoneyInv, NEW t \in MoneyMoves, NEW u \in MoneyMoves, NEW v \in MoneyMoves,
           style[t] = "ordered", style[u] = "ordered", Waits(t, u), Waits(u, v)
    PROVE  Needs(t) \in Nat /\ Needs(u) \in Nat /\ Needs(t) < Needs(u)
<1> USE DEF MoneyInv
<1>1. step[t] \in MoneySteps /\ step[u] \in MoneySteps
  BY DEF MoneyTypeOK
<1>2. step[t] # "select" /\ step[u] # "select"
  BY DEF Each, InStyle
<1>3. Needs(t) \in Accounts /\ Needs(u) \in Accounts
  <2>1. \A w \in {t, u} : step[w] \in {"lock first", "lock second", "debit", "credit"}
    BY <1>1, <1>2, NeedsRow DEF Waits, MoneySteps
  <2>2. \A w \in {t, u} : Needs(w) \in {LockFirst(w), LockSecond(w), From(w), To(w)}
    BY <2>1, NeedsRow
  <2>3. \A w \in {t, u} : {LockFirst(w), LockSecond(w), From(w), To(w)} \subseteq Accounts
    BY MoneyFacts
  <2> QED BY <2>2, <2>3
<1>4. Needs(t) \in RowsLocked(u) /\ Needs(u) \notin RowsLocked(u)
  BY <1>3 DEF Waits, Each, LocksAre
<1>5. step[u] = "lock second"
  <2>1. step[u] \notin {"begin", "lock first", "commit", "ok", "failed"}
    BY <1>4, NeedsRow DEF RowsLocked, Waits
  <2>2. step[u] \notin {"debit", "credit"}
    BY <1>4, NeedsRow DEF RowsLocked
  <2> QED BY <1>1, <1>2, <2>1, <2>2 DEF MoneySteps
<1>6. Needs(t) = LockFirst(u) /\ Needs(u) = LockSecond(u) /\ Needs(u) # LockFirst(u)
  BY <1>4, <1>5, NeedsRow DEF RowsLocked
<1> QED BY <1>6, MoneyFacts

(* No transfer loses a write to another or applies its own twice, none     *)
(* leaves a half, and of those that lock in order none waits in a circle.  *)
THEOREM MoneyStaysKept == MoneySpec => []MoneyIsKept
<1>1. MoneyInv => MoneyIsKept
  <2> SUFFICES ASSUME MoneyInv PROVE OrderedNeverDeadlock
    BY DEF MoneyIsKept, MoneyInv
  <2> DEFINE ordered == {t \in MoneyMoves : style[t] = "ordered"}
  <2> SUFFICES ASSUME NEW t \in ordered, OnCycle(t, ordered) PROVE FALSE
    BY DEF OrderedNeverDeadlock
  <2>1. PICK u \in ordered : Waits(t, u) /\ (Waits(u, t) \/ \E v \in ordered : Waits(u, v) /\ Waits(v, t))
    BY DEF OnCycle
  <2>2. CASE Waits(u, t)
    <3>1. Needs(t) \in Nat /\ Needs(u) \in Nat /\ Needs(t) < Needs(u) /\ Needs(u) < Needs(t)
      BY <2>1, <2>2, WaitsGoUp
    <3> QED BY <3>1
  <2>3. ASSUME NEW v \in ordered, Waits(u, v), Waits(v, t) PROVE FALSE
    <3>1. Needs(t) \in Nat /\ Needs(u) \in Nat /\ Needs(t) < Needs(u)
      BY <2>1, <2>3, WaitsGoUp
    <3>2. Needs(v) \in Nat /\ Needs(u) < Needs(v)
      BY <2>3, WaitsGoUp
    <3>3. Needs(v) < Needs(t)
      BY <2>1, <2>3, WaitsGoUp
    <3> QED BY <3>1, <3>2, <3>3
  <2> QED BY <2>1, <2>2, <2>3
<1> QED BY <1>1, MoneyInvariant, PTL

-----------------------------------------------------------------------------
(* Broadcasts: what a connection has got. *)

(* Where a Send is. *)
Places == [to : Conns, at : {"try", "full", "retry", "closing", "over"}]

(* What a queue or a peer has got. *)
Has(s, b)  == \E i \in 1..Len(s) : s[i] = b
Got(b, c)  == Has(written[c], b) \/ Has(queue[c], b) \/ writer[c] \in {b, "ended"}
Ahead(b, c) == c \in todo[b] \/ \E p \in {"try", "full"} : sending[b] = [to |-> c, at |-> p]

HubTypeOK ==
    /\ conns \subseteq Conns /\ closed \subseteq Conns /\ returned \subseteq Conns
    /\ todo \in [Broadcasters -> SUBSET Conns]
    /\ sending \in [Broadcasters -> Places \cup {None}]
    /\ phase \in [Broadcasters -> {"waiting", "locked", "done"}]
    /\ queue \in [Conns -> Seq(Broadcasters)] /\ written \in [Conns -> Seq(Broadcasters)]
    /\ writer \in [Conns -> Broadcasters \cup {"running", "ended"}]
    /\ reader \in [Conns -> {"running", "ended"}]

(* A broadcast that is not under way has no place in its loop, and one     *)
(* under Disconnect never tries twice.                                     *)
LoopsAgree ==
    \A b \in Broadcasters :
        /\ phase[b] = "done" => todo[b] = {} /\ sending[b] = None
        /\ phase[b] = "waiting" => sending[b] = None
        /\ policy = "Disconnect" /\ sending[b] # None => sending[b].at # "retry"

(* What a broadcast has behind it, every open connection has got. *)
NoHole ==
    policy = "Disconnect" => \A c \in conns \ closed, b \in Broadcasters :
        phase[b] # "waiting" /\ ~Ahead(b, c) => Got(b, c)

HubInv == HubTypeOK /\ LoopsAgree /\ NoHole

(* Sequences: one more at the end, one less at the front. *)
LEMMA Appended ==
    ASSUME NEW s \in Seq(Broadcasters), NEW b \in Broadcasters
    PROVE  /\ Append(s, b) \in Seq(Broadcasters) /\ Has(Append(s, b), b)
           /\ \A d : Has(s, d) => Has(Append(s, b), d)
<1>1. /\ Append(s, b) \in Seq(Broadcasters) /\ Len(Append(s, b)) = Len(s) + 1 /\ Len(s) \in Nat
      /\ Append(s, b)[Len(s) + 1] = b /\ \A i \in 1..Len(s) : Append(s, b)[i] = s[i]
  OBVIOUS
<1>2. Has(Append(s, b), b)
  BY <1>1 DEF Has
<1> QED BY <1>1, <1>2 DEF Has

(* The first one goes, the others stay. *)
LEMMA Taken ==
    ASSUME NEW s \in Seq(Broadcasters), s # <<>>
    PROVE  /\ Head(s) \in Broadcasters /\ Tail(s) \in Seq(Broadcasters)
           /\ \A d : Has(s, d) => d = Head(s) \/ Has(Tail(s), d)
<1>1. /\ Head(s) = s[1] /\ Head(s) \in Broadcasters /\ Tail(s) \in Seq(Broadcasters) /\ Len(s) \in Nat \ {0}
      /\ Len(Tail(s)) = Len(s) - 1 /\ \A i \in 1..(Len(s) - 1) : Tail(s)[i] = s[i + 1]
  OBVIOUS
<1>2. ASSUME NEW d, Has(s, d) PROVE d = Head(s) \/ Has(Tail(s), d)
  <2>1. PICK i \in 1..Len(s) : s[i] = d
    BY <1>2 DEF Has
  <2>2. CASE i = 1
    BY <1>1, <2>1, <2>2
  <2>3. CASE i # 1
    <3>1. i - 1 \in 1..Len(Tail(s)) /\ Tail(s)[i - 1] = d
      BY <1>1, <2>1, <2>3
    <3> QED BY <3>1 DEF Has
  <2> QED BY <2>2, <2>3
<1> QED BY <1>1, <1>2

(* A step of one broadcaster's loop: that it gets its message to whatever  *)
(* it leaves behind is all there is to show.                               *)
LEMMA BroadcastKeeps ==
    ASSUME HubInv, NEW b \in Broadcasters,
           UNCHANGED <<policy, conns, reader, returned, written>>,
           closed' \in SUBSET Conns, closed \subseteq closed',
           todo' \in [Broadcasters -> SUBSET Conns], sending' \in [Broadcasters -> Places \cup {None}],
           phase' \in [Broadcasters -> {"waiting", "locked", "done"}], queue' \in [Conns -> Seq(Broadcasters)],
           writer' \in [Conns -> Broadcasters \cup {"running", "ended"}],
           \A d \in Broadcasters \ {b} : todo'[d] = todo[d] /\ sending'[d] = sending[d] /\ phase'[d] = phase[d],
           /\ phase'[b] = "done" => todo'[b] = {} /\ sending'[b] = None
           /\ phase'[b] = "waiting" => sending'[b] = None
           /\ policy = "Disconnect" /\ sending'[b] # None => sending'[b].at # "retry",
           policy = "Disconnect" =>
               \A c \in conns \ closed' :
                   /\ \A d \in Broadcasters : Got(d, c) => Got(d, c)'
                   /\ phase'[b] # "waiting" /\ ~Ahead(b, c)' => Got(b, c)' \/ (phase[b] # "waiting" /\ ~Ahead(b, c))
    PROVE  HubInv'
<1> USE DEF HubInv
<1>1. HubTypeOK'
  BY DEF HubTypeOK
<1>2. LoopsAgree'
  BY DEF LoopsAgree
<1>3. NoHole'
  <2> SUFFICES ASSUME policy = "Disconnect", NEW c \in conns \ closed', NEW d \in Broadcasters,
                      phase'[d] # "waiting", ~Ahead(d, c)'
               PROVE  Got(d, c)'
    BY DEF NoHole
  <2>1. Got(d, c) => Got(d, c)'
    OBVIOUS
  <2>2. CASE d = b
    BY <2>1, <2>2 DEF NoHole
  <2>3. CASE d # b
    <3>1. phase[d] # "waiting" /\ ~Ahead(d, c)
      BY <2>3 DEF Ahead
    <3> QED BY <2>1, <3>1 DEF NoHole
  <2> QED BY <2>2, <2>3
<1> QED BY <1>1, <1>2, <1>3

(* Lock, Reach, the steps of Send and the end of the loop. *)
LEMMA SendKeeps == ASSUME HubInv, SendStep PROVE HubInv'
<1> USE HubAssumption DEF HubInv
<1>0. PICK b \in Broadcasters :
          \/ Lock(b) \/ Sent(b) \/ NoConns(b)
          \/ \E c \in Conns : Reach(b, c) \/ Try(b, c) \/ Overflow(b, c) \/ CloseReturns(b, c) \/ Retry(b, c)
  BY DEF SendStep
<1>t. HubTypeOK /\ LoopsAgree
  OBVIOUS
<1>q. \A c \in Conns : queue[c] \in Seq(Broadcasters)
  BY DEF HubTypeOK
<1>p. /\ \A c \in Conns, p \in {"try", "full", "retry", "closing", "over"} :
             [to |-> c, at |-> p] \in Places /\ [to |-> c, at |-> p] # None
      /\ \A x \in Places : x.to \in Conns /\ x.at \in {"try", "full", "retry", "closing", "over"} /\ x = [to |-> x.to, at |-> x.at]
  BY DEF Places
<1>g. queue' = queue /\ writer' = writer /\ written' = written =>
          \A c \in Conns, d \in Broadcasters : Got(d, c) => Got(d, c)'
  BY DEF Got
<1>n. conns \subseteq Conns
  BY DEF HubTypeOK
<1>1. CASE Lock(b)
  <2>1. /\ phase[b] = "waiting" /\ phase' = [phase EXCEPT ![b] = "locked"] /\ todo' = [todo EXCEPT ![b] = conns]
        /\ UNCHANGED <<policy, conns, writer, reader, returned, written, sending, queue, closed>>
    BY <1>1 DEF Lock, hubLoops
  <2>2. \A c \in conns : Ahead(b, c)'
    BY <2>1 DEF Ahead, HubTypeOK
  <2>3. sending[b] = None
    BY <2>1 DEF LoopsAgree
  <2> QED BY <1>t, <2>1, <2>2, <2>3, <1>g, <1>n, BroadcastKeeps DEF HubTypeOK
<1>2. CASE Sent(b)
  <2>1. /\ sending[b] # None /\ sending[b].at = "over" /\ sending' = [sending EXCEPT ![b] = None]
        /\ phase' = [phase EXCEPT ![b] = IF todo[b] = {} THEN "done" ELSE phase[b]]
        /\ UNCHANGED <<policy, conns, writer, reader, returned, written, todo, queue, closed>>
    BY <1>2 DEF Sent, hubLoops
  <2>2. phase[b] = "locked"
    BY <1>t, <2>1 DEF LoopsAgree, HubTypeOK
  <2>3. \A c \in Conns : ~Ahead(b, c)' => ~Ahead(b, c)
    <3>1. \A c \in Conns, p \in {"try", "full"} : sending[b] # [to |-> c, at |-> p]
      BY <2>1
    <3> QED BY <2>1, <3>1 DEF Ahead
  <2>4. /\ phase' \in [Broadcasters -> {"waiting", "locked", "done"}] /\ sending'[b] = None
        /\ sending' \in [Broadcasters -> Places \cup {None}] /\ phase'[b] # "waiting"
        /\ phase'[b] = "done" => todo[b] = {}
    BY <2>1, <2>2 DEF HubTypeOK
  <2> QED BY <1>t, <2>1, <2>2, <2>3, <2>4, <1>g, <1>n, BroadcastKeeps DEF HubTypeOK
<1>3. CASE NoConns(b)
  <2>1. /\ phase[b] = "locked" /\ sending[b] = None /\ todo[b] = {} /\ phase' = [phase EXCEPT ![b] = "done"]
        /\ UNCHANGED <<policy, conns, writer, reader, returned, written, todo, sending, queue, closed>>
    BY <1>3 DEF NoConns, hubLoops
  <2>2. \A c \in Conns : Ahead(b, c)' = Ahead(b, c)
    BY <2>1 DEF Ahead
  <2> QED BY <1>t, <2>1, <2>2, <1>g, <1>n, BroadcastKeeps DEF HubTypeOK
<1>4. ASSUME NEW c \in Conns, Reach(b, c) PROVE HubInv'
  <2> DEFINE x == IF c \in closed THEN "over" ELSE "try"
  <2>1. /\ phase[b] = "locked" /\ sending[b] = None /\ c \in todo[b]
        /\ sending' = [sending EXCEPT ![b] = [to |-> c, at |-> x]] /\ todo' = [todo EXCEPT ![b] = todo[b] \ {c}]
        /\ UNCHANGED <<policy, conns, writer, reader, returned, written, phase, queue, closed>>
    BY <1>4 DEF Reach, hubLoops
  <2>2. x \in {"try", "over"} /\ [to |-> c, at |-> x] \in Places /\ sending'[b] = [to |-> c, at |-> x]
    BY <1>p, <2>1 DEF HubTypeOK
  <2>3. \A d \in Conns \ closed : ~Ahead(b, d)' => ~Ahead(b, d)
    <3> SUFFICES ASSUME NEW d \in Conns \ closed, Ahead(b, d) PROVE Ahead(b, d)'
      OBVIOUS
    <3>1. d \in todo[b]
      BY <1>p, <2>1 DEF Ahead
    <3> QED BY <2>1, <2>2, <3>1 DEF Ahead, HubTypeOK
  <2>4. sending'[b].at # "retry" /\ sending' \in [Broadcasters -> Places \cup {None}] /\ todo' \in [Broadcasters -> SUBSET Conns]
    BY <2>1, <2>2 DEF HubTypeOK
  <2> QED BY <1>t, <2>1, <2>3, <2>4, <1>g, <1>n, BroadcastKeeps DEF HubTypeOK
<1>5. ASSUME NEW c \in Conns, Try(b, c) \/ Overflow(b, c) \/ CloseReturns(b, c) \/ Retry(b, c) PROVE HubInv'
  <2>1. PICK x \in {"try", "full", "closing", "retry"} :
            /\ At(b, c, x)
            /\ (x = "try" => Try(b, c)) /\ (x = "full" => Overflow(b, c))
            /\ (x = "closing" => CloseReturns(b, c)) /\ (x = "retry" => Retry(b, c))
    BY <1>5 DEF Try, Overflow, CloseReturns, Retry
  <2>2. /\ sending[b] = [to |-> c, at |-> x] /\ phase[b] = "locked"
    BY <1>t, <1>p, <2>1 DEF At, LoopsAgree, HubTypeOK
  <2>3. PICK y \in {"full", "retry", "closing", "over"} :
            /\ Step(b, y)
            /\ UNCHANGED <<policy, conns, reader, returned, written, todo, phase>>
            /\ closed' \in {closed, closed \cup {c}}
            /\ \/ Queued(b, c) \/ Handed(b, c) \/ (queue' = queue /\ writer' = writer)
               \/ /\ policy # "Disconnect" /\ writer' = writer
                  /\ queue[c] # <<>> /\ queue' = [queue EXCEPT ![c] = Tail(queue[c])]
            /\ policy = "Disconnect" =>
                   \/ y = "full" \/ x = "closing" \/ Queued(b, c) \/ Handed(b, c)
                   \/ c \in closed'
            /\ policy = "Disconnect" => y # "retry"
    <3>1. CASE x = "try"
      BY <2>1, <3>1, Zenon DEF Try, NoRoom, hubLoops
    <3>2. CASE x = "full"
      <4>1. /\ UNCHANGED <<policy, conns, writer, reader, returned, written, todo, phase>>
            /\ \/ policy = "DropNewest" /\ Step(b, "over") /\ queue' = queue /\ closed' = closed
               \/ /\ policy = "DropOldest" /\ Step(b, "retry") /\ closed' = closed
                  /\ queue' = [queue EXCEPT ![c] = IF queue[c] = <<>> THEN queue[c] ELSE Tail(queue[c])]
               \/ policy = "Disconnect" /\ closed' = closed \cup {c} /\ Step(b, "closing") /\ queue' = queue
        BY <2>1, <3>2 DEF Overflow, hubLoops
      <4>2. queue[c] = <<>> => [queue EXCEPT ![c] = IF queue[c] = <<>> THEN queue[c] ELSE Tail(queue[c])] = queue
        BY <1>t DEF HubTypeOK
      <4> QED BY <4>1, <4>2
    <3>3. CASE x = "closing"
      BY <2>1, <3>3, Zenon DEF CloseReturns, hubLoops
    <3>4. CASE x = "retry"
      <4>1. policy # "Disconnect"
        BY <1>t, <2>2, <3>4, <1>p DEF LoopsAgree
      <4> QED BY <2>1, <3>4, <4>1, Zenon DEF Retry, NoRoom, hubLoops
    <3> QED BY <2>1, <3>1, <3>2, <3>3, <3>4
  <2>4. UNCHANGED <<policy, conns, reader, returned, written, todo, phase>>
    BY <2>3
  <2>5. sending' = [sending EXCEPT ![b] = [to |-> c, at |-> y]]
    <3>1. [sending[b] EXCEPT !.at = y] = [to |-> c, at |-> y]
      BY <2>2
    <3> QED BY <2>3, <3>1, Zenon DEF Step
  <2>6. sending' \in [Broadcasters -> Places \cup {None}] /\ sending'[b] = [to |-> c, at |-> y]
    BY <1>p, <2>5 DEF HubTypeOK
  <2>q. /\ queue \in [Conns -> Seq(Broadcasters)] /\ queue[c] \in Seq(Broadcasters)
        /\ writer \in [Conns -> Broadcasters \cup {"running", "ended"}]
    BY <1>t DEF HubTypeOK
  <2>7. /\ queue' \in [Conns -> Seq(Broadcasters)] /\ writer' \in [Conns -> Broadcasters \cup {"running", "ended"}]
        /\ policy = "Disconnect" => \A d \in Conns, e \in Broadcasters : Got(e, d) => Got(e, d)'
        /\ Queued(b, c) \/ Handed(b, c) => Got(b, c)'
    <3>1. CASE Queued(b, c)
      <4>1. queue' = [queue EXCEPT ![c] = Append(queue[c], b)] /\ writer' = writer
        BY <3>1 DEF Queued
      <4>2. /\ Append(queue[c], b) \in Seq(Broadcasters) /\ Has(Append(queue[c], b), b)
            /\ \A e : Has(queue[c], e) => Has(Append(queue[c], b), e)
        BY <2>q, Appended
      <4>3. queue' \in [Conns -> Seq(Broadcasters)] /\ queue'[c] = Append(queue[c], b) /\ \A d \in Conns \ {c} : queue'[d] = queue[d]
        BY <2>q, <4>1, <4>2
      <4>4. Got(b, c)'
        BY <4>2, <4>3 DEF Got
      <4>5. \A d \in Conns, e \in Broadcasters : Got(e, d) => Got(e, d)'
        BY <2>4, <4>1, <4>2, <4>3 DEF Got
      <4> QED BY <2>q, <4>1, <4>3, <4>4, <4>5
    <3>2. CASE Handed(b, c)
      <4>1. queue' = queue /\ writer' = [writer EXCEPT ![c] = b] /\ writer[c] = "running"
        BY <3>2 DEF Handed, MayPark
      <4>2. "running" # "ended" /\ \A e \in Broadcasters : writer[c] \notin {e, "ended"}
        BY <4>1
      <4>3. writer' \in [Conns -> Broadcasters \cup {"running", "ended"}] /\ writer'[c] = b /\ \A d \in Conns \ {c} : writer'[d] = writer[d]
        BY <2>q, <4>1
      <4>4. \A d \in Conns, e \in Broadcasters : Got(e, d) => Got(e, d)'
        BY <2>4, <4>1, <4>2, <4>3 DEF Got
      <4>5. Got(b, c)'
        BY <4>3 DEF Got
      <4> QED BY <2>q, <4>1, <4>3, <4>4, <4>5
    <3>3. CASE ~Queued(b, c) /\ ~Handed(b, c) /\ queue' = queue /\ writer' = writer
      BY <1>g, <2>4, <2>q, <3>3
    <3>4. CASE /\ ~Queued(b, c) /\ ~Handed(b, c) /\ policy # "Disconnect" /\ writer' = writer
               /\ queue[c] # <<>> /\ queue' = [queue EXCEPT ![c] = Tail(queue[c])]
      <4>1. Tail(queue[c]) \in Seq(Broadcasters)
        BY <2>q, <3>4, Taken
      <4> QED BY <2>q, <3>4, <4>1
    <3> QED BY <2>3, <3>1, <3>2, <3>3, <3>4
  <2>8. ASSUME policy = "Disconnect", NEW d \in conns \ closed', ~Ahead(b, d)'
        PROVE  Got(b, d)' \/ ~Ahead(b, d)
    <3>1. CASE d # c
      <4>1. Ahead(b, d) => d \in todo[b]
        BY <2>2, <3>1 DEF Ahead
      <4> QED BY <2>4, <2>8, <4>1 DEF Ahead
    <3>2. CASE d = c /\ y = "full"
      BY <2>6, <2>8, <3>2 DEF Ahead
    <3>3. CASE d = c /\ x = "closing"
      <4>1. \A p \in {"try", "full"} : sending[b] # [to |-> d, at |-> p]
        BY <2>2, <3>3
      <4> QED BY <2>4, <2>8, <4>1 DEF Ahead
    <3>4. CASE d = c /\ (Queued(b, c) \/ Handed(b, c))
      BY <2>7, <3>4
    <3> QED BY <2>3, <2>8, <3>1, <3>2, <3>3, <3>4
  <2>9. closed' \in SUBSET Conns /\ closed \subseteq closed'
    BY <2>3, <1>t DEF HubTypeOK
  <2>10. phase'[b] = "locked" /\ (policy = "Disconnect" => sending'[b].at # "retry")
    BY <2>2, <2>3, <2>4, <2>6
  <2>11. \A d \in Broadcasters \ {b} : todo'[d] = todo[d] /\ sending'[d] = sending[d] /\ phase'[d] = phase[d]
    BY <2>4, <2>5
  <2>12. todo' \in [Broadcasters -> SUBSET Conns] /\ phase' \in [Broadcasters -> {"waiting", "locked", "done"}]
    BY <2>4 DEF HubTypeOK
  <2> QED BY <1>n, <2>2, <2>4, <2>6, <2>7, <2>8, <2>9, <2>10, <2>11, <2>12, BroadcastKeeps
<1> QED BY <1>0, <1>1, <1>2, <1>3, <1>4, <1>5

(* A step of a connection's loops: what it has got it keeps. *)
LEMMA ConnectionKeeps ==
    ASSUME HubInv, UNCHANGED <<policy, todo, sending, phase>>,
           conns' \subseteq conns, closed \subseteq closed', HubTypeOK',
           \A c \in conns' \ closed', b \in Broadcasters : Got(b, c) => Got(b, c)'
    PROVE  HubInv'
<1>1. \A b \in Broadcasters, c \in Conns : Ahead(b, c)' = Ahead(b, c)
  BY DEF Ahead
<1>2. NoHole'
  <2> SUFFICES ASSUME policy = "Disconnect", NEW c \in conns' \ closed', NEW b \in Broadcasters,
                      phase[b] # "waiting", ~Ahead(b, c)'
               PROVE  Got(b, c)'
    BY DEF NoHole
  <2>1. c \in conns \ closed /\ c \in Conns
    BY DEF HubInv, HubTypeOK
  <2> QED BY <1>1, <2>1 DEF HubInv, NoHole
<1> QED BY <1>2 DEF HubInv, LoopsAgree

(* writeLoop, readLoop, Run and Remove. *)
LEMMA LoopsKeep ==
    ASSUME HubInv, LoopStep \/ \E c \in Conns : ReaderFails(c)
    PROVE  HubInv'
<1> USE HubAssumption
<1>0. PICK c \in Conns :
          \/ TakeMessage(c) \/ Write(c) \/ WriterEnds(c) \/ ReaderEnds(c) \/ Shut(c)
          \/ FirstEnds(c) \/ RunCloses(c) \/ RunReturns(c) \/ RemoveConn(c) \/ ReaderFails(c)
  BY DEF LoopStep
<1>t. HubTypeOK
  BY DEF HubInv
<1>1. CASE TakeMessage(c)
  <2>1. /\ writer[c] = "running" /\ queue[c] # <<>> /\ queue[c] \in Seq(Broadcasters)
        /\ writer' = [writer EXCEPT ![c] = Head(queue[c])] /\ queue' = [queue EXCEPT ![c] = Tail(queue[c])]
        /\ UNCHANGED <<policy, conns, todo, sending, phase, closed, reader, returned, written>>
    BY <1>1, <1>t DEF TakeMessage, hubSends, HubTypeOK
  <2>2. Head(queue[c]) \in Broadcasters /\ Tail(queue[c]) \in Seq(Broadcasters)
    BY <2>1, Taken
  <2>3. HubTypeOK'
    BY <1>t, <2>1, <2>2 DEF HubTypeOK
  <2>4. ASSUME NEW d \in Conns, NEW b \in Broadcasters, Got(b, d) PROVE Got(b, d)'
    <3>1. CASE d = c
      <4>1. CASE Has(written[c], b)
        BY <2>1, <3>1, <4>1 DEF Got
      <4>2. CASE Has(queue[c], b)
        <5>1. b = Head(queue[c]) \/ Has(Tail(queue[c]), b)
          BY <2>1, <4>2, Taken
        <5> QED BY <1>t, <2>1, <3>1, <5>1 DEF Got, HubTypeOK
      <4>3. writer[c] \notin {b, "ended"}
        BY <2>1
      <4> QED BY <2>4, <3>1, <4>1, <4>2, <4>3 DEF Got
    <3>2. CASE d # c
      BY <1>t, <2>1, <2>4, <3>2 DEF Got, HubTypeOK
    <3> QED BY <3>1, <3>2
  <2> QED BY <1>t, <2>1, <2>3, <2>4, ConnectionKeeps DEF HubTypeOK
<1>2. CASE Write(c) \/ WriterEnds(c)
  <2>1. /\ UNCHANGED <<policy, conns, todo, sending, phase, queue, closed, reader, returned>>
        /\ \/ writer' = [writer EXCEPT ![c] = "ended"] /\ UNCHANGED written
           \/ /\ writer[c] \in Broadcasters /\ writer' = [writer EXCEPT ![c] = "running"]
              /\ written' = [written EXCEPT ![c] = Append(written[c], writer[c])]
    BY <1>2 DEF Write, WriterEnds, hubSends, Busy
  <2>2. written[c] \in Seq(Broadcasters)
    BY <1>t DEF HubTypeOK
  <2>3. HubTypeOK'
    <3>1. writer' \in [Conns -> Broadcasters \cup {"running", "ended"}]
      BY <1>t, <2>1 DEF HubTypeOK
    <3>2. CASE written' = written
      BY <1>t, <2>1, <3>1, <3>2 DEF HubTypeOK
    <3>3. CASE writer[c] \in Broadcasters /\ written' = [written EXCEPT ![c] = Append(written[c], writer[c])]
      <4>1. Append(written[c], writer[c]) \in Seq(Broadcasters)
        BY <2>2, <3>3, Appended
      <4>2. written' \in [Conns -> Seq(Broadcasters)]
        BY <1>t, <3>3, <4>1 DEF HubTypeOK
      <4> QED BY <1>t, <2>1, <3>1, <4>2 DEF HubTypeOK
    <3> QED BY <2>1, <3>2, <3>3
  <2>4. ASSUME NEW d \in Conns, NEW b \in Broadcasters, Got(b, d) PROVE Got(b, d)'
    <3>1. CASE d # c
      BY <1>t, <2>1, <2>4, <3>1 DEF Got, HubTypeOK
    <3>2. CASE d = c /\ writer' = [writer EXCEPT ![c] = "ended"]
      BY <1>t, <3>2 DEF Got, HubTypeOK
    <3>3. CASE d = c /\ writer[c] \in Broadcasters /\ written' = [written EXCEPT ![c] = Append(written[c], writer[c])]
      <4>1. written'[c] = Append(written[c], writer[c]) /\ queue'[c] = queue[c] /\ writer[c] # "ended"
        BY <1>t, <2>1, <3>3 DEF HubTypeOK
      <4>2. Has(written'[c], writer[c]) /\ \A e : Has(written[c], e) => Has(written'[c], e)
        BY <2>2, <3>3, <4>1, Appended
      <4> QED BY <2>4, <3>3, <4>1, <4>2 DEF Got
    <3> QED BY <2>1, <3>1, <3>2, <3>3
  <2> QED BY <1>t, <2>1, <2>3, <2>4, ConnectionKeeps DEF HubTypeOK
<1>3. CASE \/ ReaderEnds(c) \/ ReaderFails(c) \/ Shut(c)
           \/ FirstEnds(c) \/ RunCloses(c) \/ RunReturns(c) \/ RemoveConn(c)
  <2>1. /\ UNCHANGED <<policy, todo, sending, phase, queue, writer, written>>
        /\ conns' \subseteq conns /\ closed' \in {closed, closed \cup {c}} /\ returned' \in {returned, returned \cup {c}}
        /\ reader' \in {reader, [reader EXCEPT ![c] = "ended"]}
    BY <1>3 DEF ReaderEnds, ReaderFails, Shut, FirstEnds, RunCloses, RunReturns, RemoveConn, hubSends
  <2>2. HubTypeOK'
    <3>1. [reader EXCEPT ![c] = "ended"] \in [Conns -> {"running", "ended"}]
      BY <1>t DEF HubTypeOK
    <3>2. reader' \in [Conns -> {"running", "ended"}]
      BY <1>t, <2>1, <3>1 DEF HubTypeOK
    <3>3. conns' \subseteq Conns /\ closed' \subseteq Conns /\ returned' \subseteq Conns
      BY <1>t, <2>1 DEF HubTypeOK
    <3>4. /\ todo' = todo /\ sending' = sending /\ phase' = phase /\ queue' = queue
          /\ writer' = writer /\ written' = written
      BY <2>1
    <3> QED BY <1>t, <3>2, <3>3, <3>4 DEF HubTypeOK
  <2>3. \A d \in Conns, b \in Broadcasters : Got(b, d) => Got(b, d)'
    BY <2>1 DEF Got
  <2> QED BY <1>t, <2>1, <2>2, <2>3, ConnectionKeeps DEF HubTypeOK
<1> QED BY <1>0, <1>1, <1>2, <1>3

(* The inductive invariant holds in every state. *)
THEOREM HubInvariant == HubSpec => []HubInv
<1>1. HubInit => HubInv
  <2> SUFFICES ASSUME HubInit PROVE HubInv
    OBVIOUS
  <2>1. <<>> \in Seq(Broadcasters)
    OBVIOUS
  <2>2. HubTypeOK
    BY <2>1 DEF HubInit, HubTypeOK
  <2> QED BY <2>2 DEF HubInit, HubInv, LoopsAgree, NoHole
<1>2. HubInv /\ UNCHANGED hubVars => HubInv'
  BY DEF hubVars, HubInv, HubTypeOK, LoopsAgree, NoHole, Ahead, Got
<1>3. HubInv /\ [HubNext]_hubVars => HubInv'
  BY <1>2, SendKeeps, LoopsKeep DEF HubNext
<1> QED BY <1>1, <1>3, PTL DEF HubSpec

(* Hub.Broadcast under Disconnect: a connection that is open has every     *)
(* message that was sent to it, or will be closed.                         *)
THEOREM NoHoleUnseen == HubSpec => []NoUnseenHole
<1>1. HubInv => NoUnseenHole
  <2> SUFFICES ASSUME HubInv, policy = "Disconnect", NEW c \in Conns \ closed, NEW b \in Broadcasters,
                      phase[b] = "done", c \in conns
               PROVE  \/ b \in {written[c][i] : i \in DOMAIN written[c]} \cup {queue[c][i] : i \in DOMAIN queue[c]}
                      \/ writer[c] \in {b, "ended"}
    BY DEF NoUnseenHole
  <2>1. ~Ahead(b, c)
    BY HubAssumption DEF HubInv, LoopsAgree, Ahead
  <2>2. Got(b, c)
    BY <2>1 DEF HubInv, NoHole
  <2>3. DOMAIN written[c] = 1..Len(written[c]) /\ DOMAIN queue[c] = 1..Len(queue[c])
    BY DEF HubInv, HubTypeOK
  <2> QED BY <2>2, <2>3 DEF Got, Has
<1> QED BY <1>1, HubInvariant, PTL

-----------------------------------------------------------------------------
(* The keep-alive. *)

(* When the peer gave its last sign that it was there. *)
LastSign == IF gone = -1 THEN lastAlive ELSE gone

(* Until when a tick may wait: for the write that it found and for n more. *)
Served(n) == LastSign + PingInterval + n * WriteTimeout

AliveTypeOK ==
    /\ clock \in Nat /\ lastAlive \in 0..clock /\ gone \in -1..clock /\ since \in 0..clock
    /\ nextTick \in (clock + 1)..(clock + PingInterval)
    /\ tick \in BOOLEAN /\ overtaken \in Nat
    /\ writing \in {"idle", "writing", "pinging", "ended"}

(* The next tick, the tick that waits and the ping that it starts are each *)
(* due a bounded time after the last sign of life.                         *)
DueInTime ==
    /\ writing \in {"idle", "writing"} /\ ~tick => nextTick <= LastSign + PingInterval /\ overtaken = 0
    /\ writing = "idle" /\ tick => clock <= Served(1 + overtaken)
    /\ writing = "writing" /\ tick => since <= Served(overtaken)
    /\ writing = "pinging" /\ gone # -1 => since <= Served(1 + overtaken)

AliveInv ==
    /\ AliveTypeOK
    /\ writing # "ended" => DueInTime
    /\ Blocked => clock - since <= WriteTimeout
    /\ DroppedForCause

(* How the bounds follow each other. *)
LEMMA ServedBy ==
    ASSUME AliveAssumption, NEW n \in Nat, LastSign \in Int
    PROVE  /\ Served(n) \in Int /\ Served(0) = LastSign + PingInterval
           /\ Served(1 + n) = Served(n) + WriteTimeout /\ Served(n) <= Served(1 + n)
           /\ LastSign <= Served(n) /\ LastSign + PingInterval <= Served(n)
<1>1. WriteTimeout \in Nat /\ PingInterval \in Nat
  BY DEF AliveAssumption
<1>2. n * WriteTimeout \in Nat
  BY <1>1
<1>3. (1 + n) * WriteTimeout = n * WriteTimeout + WriteTimeout /\ 0 * WriteTimeout = 0
  BY <1>1
<1> QED BY <1>1, <1>2, <1>3 DEF Served

(* Every step keeps it. *)
LEMMA AliveKeeps == ASSUME AliveInv, AliveNext PROVE AliveInv'
<1> USE AliveAssumption
<1>t. /\ AliveTypeOK /\ LastSign \in 0..clock
      /\ WriteTimeout \in Nat \ {0} /\ PingInterval \in Nat \ {0} /\ ReadTimeout \in Nat
  BY DEF AliveInv, AliveTypeOK, LastSign, AliveAssumption
<1>s. /\ Served(overtaken) \in Int /\ Served(0) = LastSign + PingInterval
      /\ Served(1 + overtaken) = Served(overtaken) + WriteTimeout /\ Served(1 + overtaken) \in Int
      /\ LastSign <= Served(overtaken) /\ LastSign + PingInterval <= Served(overtaken)
      /\ Served(1 + (1 + overtaken)) = Served(1 + overtaken) + WriteTimeout
  <2>1. overtaken \in Nat /\ 1 + overtaken \in Nat /\ LastSign \in Int
    BY <1>t DEF AliveTypeOK
  <2> QED BY <2>1, ServedBy
<1>1. CASE StartWrite
  <2>1. /\ writing = "idle" /\ writing' = "writing" /\ since' = clock
        /\ tick => overtaken' = overtaken + 1
        /\ ~tick => overtaken' = overtaken
        /\ UNCHANGED <<clock, gone, lastAlive, nextTick, tick>>
    BY <1>1 DEF StartWrite
  <2>2. LastSign' = LastSign
    BY <2>1 DEF LastSign
  <2>3. tick => Served(overtaken)' = Served(1 + overtaken)
    BY <2>1, <2>2, <1>t DEF Served, AliveTypeOK
  <2>4. AliveTypeOK'
    <3>1. overtaken' \in Nat
      BY <1>t, <2>1 DEF AliveTypeOK
    <3>2. clock' = clock /\ lastAlive' = lastAlive /\ gone' = gone /\ nextTick' = nextTick /\ tick' = tick
      BY <2>1
    <3>3. since' \in 0..clock /\ writing' \in {"idle", "writing", "pinging", "ended"}
      BY <1>t, <2>1 DEF AliveTypeOK
    <3> QED BY <1>t, <3>1, <3>2, <3>3 DEF AliveTypeOK
  <2> QED BY <1>t, <2>1, <2>2, <2>3, <2>4 DEF AliveInv, AliveTypeOK, DueInTime, Blocked, DroppedForCause
<1>2. CASE TakeTick
  <2>1. /\ writing = "idle" /\ tick /\ tick' = FALSE /\ since' = clock
        /\ Silent => writing' = "ended"
        /\ ~Silent => writing' = "pinging"
        /\ UNCHANGED <<clock, gone, lastAlive, nextTick, overtaken>>
    BY <1>2 DEF TakeTick
  <2>2. LastSign' = LastSign /\ Served(1 + overtaken)' = Served(1 + overtaken)
    BY <2>1 DEF LastSign, Served
  <2>3. clock <= Served(1 + overtaken)
    BY <2>1 DEF AliveInv, DueInTime
  <2>4. gone = -1 /\ Silent => PingInterval + (1 + overtaken) * WriteTimeout > ReadTimeout
    <3> DEFINE x == (1 + overtaken) * WriteTimeout
    <3>1. x \in Nat
      BY <1>t DEF AliveTypeOK
    <3>2. gone = -1 => Served(1 + overtaken) = lastAlive + PingInterval + x
      BY DEF Served, LastSign
    <3>3. lastAlive \in Nat /\ clock \in Nat /\ PingInterval \in Nat
      BY <1>t DEF AliveTypeOK
    <3> HIDE DEF x
    <3>4. gone = -1 /\ Silent => PingInterval + x > ReadTimeout
      BY <1>t, <2>3, <3>1, <3>2, <3>3 DEF Silent
    <3> QED BY <3>4 DEF x
  <2>5. AliveTypeOK'
    <3>1. overtaken' = overtaken /\ writing' \in {"idle", "writing", "pinging", "ended"}
      BY <2>1
    <3>2. tick' \in BOOLEAN
      BY <2>1
    <3>3. since' \in 0..clock'
      <4>1. clock \in Nat /\ since' = clock /\ clock' = clock
        BY <1>t, <2>1 DEF AliveTypeOK
      <4> QED BY <4>1
    <3>4. clock' = clock /\ lastAlive' = lastAlive /\ gone' = gone /\ nextTick' = nextTick
      BY <2>1
    <3> QED BY <1>t, <3>1, <3>2, <3>3, <3>4 DEF AliveTypeOK
  <2>6. DroppedForCause'
    BY <2>1, <2>4 DEF DroppedForCause
  <2>7. Blocked' => clock' - since' <= WriteTimeout
    BY <1>t, <2>1 DEF AliveTypeOK
  <2>8. writing' # "ended" => DueInTime'
    BY <2>1, <2>2, <2>3 DEF DueInTime
  <2> QED BY <2>5, <2>6, <2>7, <2>8 DEF AliveInv
<1>3. CASE Pong
  <2>1. /\ writing = "pinging" /\ gone = -1 /\ lastAlive' = clock /\ writing' = "idle" /\ overtaken' = 0
        /\ UNCHANGED <<clock, gone, nextTick, tick, since>>
    BY <1>3 DEF Pong
  <2>2. LastSign' = clock
    BY <2>1 DEF LastSign
  <2>3. Served(1 + overtaken)' = clock + PingInterval + WriteTimeout
    BY <1>t, <2>1, <2>2 DEF Served
  <2>4. AliveTypeOK'
    BY <1>t, <2>1 DEF AliveTypeOK
  <2> QED BY <1>t, <2>1, <2>2, <2>3, <2>4 DEF AliveInv, AliveTypeOK, DueInTime, Blocked, DroppedForCause
<1>4. CASE EndWrite
  <2>1. /\ writing = "writing" /\ writing' = "idle"
        /\ UNCHANGED <<clock, gone, lastAlive, nextTick, tick, since, overtaken>>
    BY <1>4 DEF EndWrite
  <2>2. LastSign' = LastSign /\ Served(1 + overtaken)' = Served(1 + overtaken)
    BY <2>1 DEF LastSign, Served
  <2>3. AliveTypeOK'
    BY <1>t, <2>1 DEF AliveTypeOK
  <2> QED BY <1>t, <1>s, <2>1, <2>2, <2>3 DEF AliveInv, AliveTypeOK, DueInTime, Blocked, DroppedForCause
<1>5. CASE TimeOut
  <2>1. /\ gone # -1 /\ writing' = "ended" /\ UNCHANGED <<clock, gone, lastAlive, nextTick, tick, since, overtaken>>
    BY <1>5 DEF TimeOut
  <2> QED BY <1>t, <2>1 DEF AliveInv, AliveTypeOK, Blocked, DroppedForCause
<1>6. CASE Vanish
  <2>1. /\ gone = -1 /\ gone' = clock /\ UNCHANGED <<clock, lastAlive, nextTick, tick, writing, since, overtaken>>
    BY <1>6 DEF Vanish
  <2>2. LastSign <= LastSign' /\ LastSign' = clock
    BY <1>t, <2>1 DEF LastSign, AliveTypeOK
  <2>3. /\ Served(overtaken)' \in Int /\ Served(overtaken) <= Served(overtaken)'
        /\ Served(1 + overtaken)' \in Int /\ Served(1 + overtaken) <= Served(1 + overtaken)'
        /\ clock <= Served(1 + overtaken)'
    <3> DEFINE x == overtaken * WriteTimeout
               y == (1 + overtaken) * WriteTimeout
    <3>1. x \in Nat /\ y \in Nat
      BY <1>t DEF AliveTypeOK
    <3>2. /\ Served(overtaken)' = clock + PingInterval + x /\ Served(overtaken) = LastSign + PingInterval + x
          /\ Served(1 + overtaken)' = clock + PingInterval + y /\ Served(1 + overtaken) = LastSign + PingInterval + y
      BY <2>1, <2>2 DEF Served
    <3> HIDE DEF x, y
    <3> QED BY <1>t, <2>2, <3>1, <3>2 DEF AliveTypeOK
  <2>4. AliveTypeOK'
    BY <1>t, <2>1 DEF AliveTypeOK
  <2> QED BY <1>t, <1>s, <2>1, <2>2, <2>3, <2>4 DEF AliveInv, AliveTypeOK, DueInTime, Blocked, DroppedForCause
<1>7. CASE PassAliveTime
  <2>1. /\ \/ writing = "idle" /\ ~tick
           \/ Blocked /\ clock - since < WriteTimeout
           \/ writing = "ended"
        /\ clock' = clock + 1
        /\ tick' = (tick \/ clock + 1 = nextTick)
        /\ clock + 1 = nextTick => nextTick' = nextTick + PingInterval
        /\ clock + 1 # nextTick => nextTick' = nextTick
        /\ UNCHANGED <<gone, lastAlive, writing, since, overtaken>>
    BY <1>7 DEF PassAliveTime, Deadline, PingLimit
  <2>2. /\ LastSign' = LastSign /\ Served(overtaken)' = Served(overtaken) /\ Served(1 + overtaken)' = Served(1 + overtaken)
    BY <2>1 DEF LastSign, Served
  <2>3. AliveTypeOK'
    BY <1>t, <2>1 DEF AliveTypeOK
  <2>4. overtaken = 0 => Served(overtaken) = LastSign + PingInterval
    BY <1>s
  <2>5. Blocked' => clock' - since' <= WriteTimeout
    BY <1>t, <2>1 DEF Blocked, AliveTypeOK
  <2>6. writing # "ended" => DueInTime'
    <3>1. CASE tick
      <4>1. (tick' /\ writing # "idle") \/ writing = "ended"
        BY <2>1, <3>1 DEF Blocked
      <4> QED BY <1>t, <2>1, <2>2, <3>1, <4>1 DEF AliveInv, DueInTime
    <3>2. CASE ~tick /\ clock + 1 # nextTick
      <4>1. tick' = FALSE /\ nextTick' = nextTick
        BY <2>1, <3>2
      <4> QED BY <2>1, <2>2, <3>2, <4>1 DEF AliveInv, DueInTime
    <3>3. CASE ~tick /\ clock + 1 = nextTick
      <4>0. tick' /\ clock' = nextTick
        BY <2>1, <3>3
      <4>1. tick' /\ clock' = nextTick /\ since \in 0..clock /\ clock \in Nat /\ nextTick \in Int /\ overtaken \in Int
        BY <1>t, <4>0, <3>3 DEF AliveTypeOK
      <4>2. CASE writing \in {"idle", "writing"}
        <5>1. nextTick <= LastSign + PingInterval /\ overtaken = 0
          BY <3>3, <4>2 DEF AliveInv, DueInTime
        <5>2. nextTick <= Served(overtaken) /\ nextTick <= Served(1 + overtaken) /\ since <= nextTick
          BY <1>t, <1>s, <2>4, <3>3, <4>1, <5>1
        <5> QED BY <1>t, <1>s, <2>1, <2>2, <4>1, <4>2, <5>1, <5>2 DEF DueInTime
      <4>3. CASE writing \notin {"idle", "writing"}
        BY <2>1, <2>2, <4>1, <4>3 DEF AliveInv, DueInTime
      <4> QED BY <4>2, <4>3
    <3> QED BY <1>t, <3>1, <3>2, <3>3 DEF AliveTypeOK
  <2> QED BY <2>1, <2>3, <2>5, <2>6 DEF AliveInv, DroppedForCause
<1> QED BY <1>1, <1>2, <1>3, <1>4, <1>5, <1>6, <1>7 DEF AliveNext

(* The inductive invariant holds in every state. *)
THEOREM AliveInvariant == AliveSpec => []AliveInv
<1>1. AliveInit => AliveInv
  <2> SUFFICES ASSUME AliveInit PROVE AliveInv
    OBVIOUS
  <2>1. AliveTypeOK
    <3>1. PingInterval \in Nat /\ PingInterval >= 1
      BY AliveAssumption DEF AliveAssumption
    <3>2. PingInterval \in 1..PingInterval
      BY <3>1
    <3>3. /\ clock = 0 /\ gone = -1 /\ lastAlive = 0 /\ nextTick = PingInterval
          /\ tick \in BOOLEAN /\ writing = "idle" /\ since = 0 /\ overtaken = 0
      BY DEF AliveInit
    <3>4. gone \in -1..clock /\ nextTick \in (clock + 1)..(clock + PingInterval)
      BY <3>1, <3>3
    <3> QED BY <3>2, <3>3, <3>4 DEF AliveTypeOK
  <2>2. LastSign = 0 /\ PingInterval \in Nat
    BY AliveAssumption DEF AliveInit, LastSign, AliveAssumption
  <2> QED BY <2>1, <2>2 DEF AliveInit, AliveInv, DueInTime, Blocked, DroppedForCause
<1>2. AliveInv /\ UNCHANGED aliveVars => AliveInv'
  BY DEF aliveVars, AliveInv, AliveTypeOK, DueInTime, Served, LastSign, Blocked, DroppedForCause
<1>3. AliveInv /\ [AliveNext]_aliveVars => AliveInv'
  BY <1>2, AliveKeeps
<1> QED BY <1>1, <1>3, PTL DEF AliveSpec

(* writeLoop: a peer that only listens and answers is dropped only if the   *)
(* writes that went before its ping could by themselves make ReadTimeout   *)
(* pass, and one that vanished is dropped within a ping interval and the   *)
(* calls that came first, for any timeouts that Config.Validate admits and *)
(* however often the select prefers a write.                               *)
THEOREM PeersAreJudged == AliveSpec => [](DroppedForCause /\ VanishedPeerDropped)
<1>1. AliveInv => VanishedPeerDropped
  <2> SUFFICES ASSUME AliveInv, gone # -1, writing # "ended"
               PROVE  clock - gone <= PingInterval + (2 + overtaken) * WriteTimeout
    BY DEF VanishedPeerDropped
  <2>t. /\ AliveTypeOK /\ LastSign = gone /\ LastSign \in Int /\ overtaken \in Nat
        /\ WriteTimeout \in Nat \ {0} /\ PingInterval \in Nat \ {0}
    BY AliveAssumption DEF AliveInv, AliveTypeOK, LastSign, AliveAssumption
  <2>1. /\ Served(overtaken) \in Int /\ LastSign + PingInterval <= Served(overtaken)
        /\ Served(1 + overtaken) = Served(overtaken) + WriteTimeout
    BY <2>t, ServedBy, AliveAssumption
  <2>2. Served(1 + overtaken) + WriteTimeout = gone + (PingInterval + (2 + overtaken) * WriteTimeout)
    <3>1. (2 + overtaken) * WriteTimeout = (1 + overtaken) * WriteTimeout + WriteTimeout
      BY <2>t
    <3>2. (1 + overtaken) * WriteTimeout \in Nat
      BY <2>t
    <3> QED BY <2>t, <3>1, <3>2 DEF Served, AliveTypeOK
  <2>3. clock <= Served(1 + overtaken) + WriteTimeout
    BY <2>t, <2>1 DEF AliveInv, AliveTypeOK, DueInTime, Blocked
  <2>4. (2 + overtaken) * WriteTimeout \in Nat
    BY <2>t
  <2> QED BY <2>t, <2>2, <2>3, <2>4 DEF AliveTypeOK
<1> QED BY <1>1, AliveInvariant, PTL DEF AliveInv

(* Hub.Broadcast and writeLoop: as long as a connection is open it has     *)
(* every message that was sent to it, and it stays open while its peer     *)
(* answers, unless writes crowd out its pings.                             *)
THEOREM ConnectionsStayKept == HubSpec /\ AliveSpec => []ConnectionsAreKept
<1>1. NoUnseenHole /\ DroppedForCause /\ VanishedPeerDropped => ConnectionsAreKept
  BY DEF ConnectionsAreKept
<1> QED BY <1>1, NoHoleUnseen, PeersAreJudged, PTL

-----------------------------------------------------------------------------
(* The limiters of one process. *)

(* A product grows with its factor. *)
LEMMA Longer == ASSUME NEW a \in Nat, NEW b \in Nat, a <= b, NEW w \in Nat PROVE a * w \in Nat /\ a * w <= b * w
<1>1. PICK d \in Nat : b = a + d
  <2>1. b - a \in Nat /\ b = a + (b - a)
    OBVIOUS
  <2> QED BY <2>1
<1>2. b * w = a * w + d * w /\ d * w \in Nat /\ a * w \in Nat
  BY <1>1
<1> QED BY <1>2

(* The inductive invariant, by parts. *)
Times    == 0..MaxLimTime
Since(a) == AllowedIn(allowedAt, a, MaxLimTime)
Log      == IF entry = None THEN <<>> ELSE entry
Slack    == IF laggard THEN MaxLag ELSE 0
CountOf(e) == IF algo = "fixed" THEN e.count ELSE e.current

LimTypeOK ==
    /\ algo \in {"fixed", "log", "counter", "bucket"}
    /\ limNow \in Times /\ latest \in 0..limNow /\ laggard \in BOOLEAN
    /\ allowedAt \in [Times -> Nat] /\ \A i \in Times : i > latest => allowedAt[i] = 0
    /\ readAt = [c \in LimCallers |-> readAt[c]]
    /\ \A c \in LimCallers : readAt[c] # None => readAt[c] \in 0..limNow /\ limNow - readAt[c] <= MaxLag
    /\ entry # None => entry \in EntriesOf(algo)

(* The counter of the present window is that of the calls allowed in it. *)
WindowCounted ==
    /\ \A i \in Times : i >= StartOf(latest) /\ allowedAt[i] > 0 => entry # None /\ entry.start = StartOf(i)
    /\ entry # None => AllowedIn(allowedAt, entry.start, entry.start + Window - 1) <= CountOf(entry)

(* The log still has every call that a later one may have to count. *)
Horizon == IF laggard THEN limNow - Window + MaxLag ELSE latest - Window
Logged(log, a) == Cardinality({k \in 1..Len(log) : log[k] >= a})
LogIsComplete ==
    /\ \A k \in 1..Len(Log) : Log[k] \in 0..latest
    /\ \A j, k \in 1..Len(Log) : j < k => Log[j] <= Log[k] + Slack
    /\ \A a \in Times : a > Horizon => Since(a) <= Logged(Log, a)

(* What the bucket holds and what it gave stay within what was refilled. *)
Budgeted(tokens, now) ==
    \A s \in 0..now : Since(s) * Window + tokens <= Limit * Window + Limit * (now - s)
BucketBalances ==
    /\ entry = None => \A s \in 0..latest : Since(s) * Window <= Limit * (latest - s)
    /\ entry # None =>
          /\ entry.tokens <= Limit * Window /\ entry.seen = entry.last /\ entry.last <= latest
          /\ \A i \in Times : i > entry.last => allowedAt[i] = 0
          /\ Budgeted(entry.tokens, entry.last)

LimInv ==
    /\ LimTypeOK
    /\ algo \in {"fixed", "counter"} /\ ~laggard => WindowCounted
    /\ algo = "log" => LogIsComplete
    /\ algo = "bucket" /\ ~laggard => BucketBalances
    /\ LocalLimitsHold

-----------------------------------------------------------------------------

(* The instants of a stretch are finitely many. *)
LEMMA TimesFinite == ASSUME NEW a, NEW b PROVE IsFiniteSet(a..b \cap Times)
<1>1. MaxLimTime \in Nat
  BY LimiterAssumption
<1>2. IsFiniteSet(0..MaxLimTime) /\ (a..b \cap 0..MaxLimTime) \subseteq 0..MaxLimTime
  BY <1>1, FS_Interval
<1> QED BY <1>2, FS_Subset DEF Times

(* What was allowed in a stretch, as a count. *)
LEMMA AllowedCounts ==
    ASSUME NEW w \in [Times -> Nat], NEW a, NEW b
    PROVE  /\ AllowedIn(w, a, b) = Cardinality(Units(w, a..b \cap Times))
           /\ IsFiniteSet(Units(w, a..b \cap Times)) /\ AllowedIn(w, a, b) \in Nat
<1> DEFINE S == a..b \cap Times
           iter == CHOOSE iter : iter = [s \in SUBSET S |-> IF s = {} THEN 0 ELSE w[Chosen(s)] + iter[s \ {Chosen(s)}]]
<1>1. AllowedIn(w, a, b) = iter[S]
  BY DEF AllowedIn, Times, MapThenSumSet, MapThenFoldSet, Chosen
<1>2. IsFiniteSet(S) /\ \A t \in S : w[t] \in Nat
  BY TimesFinite
<1> HIDE DEF S
<1>3. PICK f : Sums(f, w, S)
  BY <1>2, SumExists
<1>4. iter = [s \in SUBSET S |-> IF s = {} THEN 0 ELSE w[Chosen(s)] + iter[s \ {Chosen(s)}]]
  BY <1>3 DEF Sums
<1> HIDE DEF iter
<1>5. Sums(iter, w, S)
  BY <1>4 DEF Sums
<1>6. iter[S] = Cardinality(Units(w, S)) /\ IsFiniteSet(Units(w, S)) /\ Cardinality(Units(w, S)) \in Nat
  BY <1>2, <1>5, SumCounts, UnitsFinite
<1> QED BY <1>1, <1>6 DEF S

(* A longer stretch has no fewer calls. *)
LEMMA LongerHasMore ==
    ASSUME NEW w \in [Times -> Nat], NEW a, NEW b, NEW c, NEW d, (a..b) \cap Times \subseteq c..d
    PROVE  AllowedIn(w, a, b) <= AllowedIn(w, c, d)
<1>1. Units(w, a..b \cap Times) \subseteq Units(w, c..d \cap Times)
  BY DEF Units
<1> QED BY <1>1, AllowedCounts, FS_Subset

(* Nothing was allowed when nothing was. *)
LEMMA NoneAllowed ==
    ASSUME NEW w \in [Times -> Nat], NEW a, NEW b, \A i \in a..b \cap Times : w[i] = 0
    PROVE  AllowedIn(w, a, b) = 0
<1>1. Units(w, a..b \cap Times) = {}
  BY DEF Units
<1> QED BY <1>1, AllowedCounts, FS_EmptySet

WithOne(w, t) == [w EXCEPT ![t] = w[t] + 1]

(* One more call counts in the stretches that have its time, and only there. *)
LEMMA OneAllowed ==
    ASSUME NEW w \in [Times -> Nat], NEW a, NEW b, NEW t \in Times, NEW v, v = WithOne(w, t)
    PROVE  /\ v \in [Times -> Nat]
           /\ t \in a..b => AllowedIn(v, a, b) = AllowedIn(w, a, b) + 1
           /\ t \notin a..b => AllowedIn(v, a, b) = AllowedIn(w, a, b)
<1> DEFINE S == a..b \cap Times
           u == <<t, w[t] + 1>>
<1>1. v \in [Times -> Nat] /\ v[t] = w[t] + 1 /\ \A i \in Times \ {t} : v[i] = w[i]
  BY DEF WithOne
<1>2. CASE t \in a..b
  <2>1. Units(v, S) = Units(w, S) \cup {u} /\ u \notin Units(w, S)
    BY <1>1, <1>2 DEF Units
  <2>2. IsFiniteSet(Units(w, S)) /\ AllowedIn(w, a, b) = Cardinality(Units(w, S)) /\ AllowedIn(w, a, b) \in Nat
    BY AllowedCounts
  <2>3. Cardinality(Units(w, S) \cup {u}) = Cardinality(Units(w, S)) + 1
    BY <2>1, <2>2, FS_AddElement
  <2>4. AllowedIn(v, a, b) = Cardinality(Units(v, S))
    BY <1>1, AllowedCounts
  <2> QED BY <1>1, <1>2, <2>1, <2>2, <2>3, <2>4
<1>3. CASE t \notin a..b
  <2>1. Units(v, S) = Units(w, S)
    BY <1>1, <1>3 DEF Units
  <2>2. AllowedIn(v, a, b) = Cardinality(Units(v, S)) /\ AllowedIn(w, a, b) = Cardinality(Units(w, S))
    BY <1>1, AllowedCounts
  <2> QED BY <1>1, <1>3, <2>1, <2>2
<1> QED BY <1>1, <1>2, <1>3

(* Windows are aligned: an instant is in one of them. *)
LEMMA StartFacts ==
    ASSUME NEW t \in Nat
    PROVE  /\ StartOf(t) \in Nat /\ StartOf(t) <= t /\ t < StartOf(t) + Window
           /\ \A i \in Nat : i >= StartOf(t) /\ i < StartOf(t) + Window => StartOf(i) = StartOf(t)
           /\ \A i \in Nat : i >= t => StartOf(i) >= StartOf(t)
<1> DEFINE W == Window
<1>1. W \in Nat \ {0}
  BY LimiterAssumption
<1>2. \A i \in Nat : /\ i \div W \in Nat /\ i % W \in 0..(W - 1) /\ W * (i \div W) \in Nat
                     /\ i = W * (i \div W) + (i % W)
  BY <1>1
<1>3. \A i \in Nat : StartOf(i) = W * (i \div W) /\ StartOf(i) \in Nat /\ StartOf(i) <= i /\ i < StartOf(i) + W
  BY <1>1, <1>2 DEF StartOf
<1>4. ASSUME NEW x \in Nat, NEW y \in Nat, W * x < W * y + W PROVE x <= y
  <2>1. CASE x >= y + 1
    <3>1. (y + 1) * W <= x * W
      BY <1>1, <2>1, Longer
    <3>2. (y + 1) * W = W * y + W /\ x * W = W * x /\ W * x \in Nat /\ W * y \in Nat
      BY <1>1
    <3> QED BY <1>1, <1>4, <3>1, <3>2
  <2> QED BY <2>1
<1> HIDE DEF W
<1>5. ASSUME NEW i \in Nat, i >= StartOf(t), i < StartOf(t) + W PROVE StartOf(i) = StartOf(t)
  <2>0. /\ StartOf(i) \in Nat /\ StartOf(t) \in Nat /\ i \div W \in Nat /\ t \div W \in Nat
        /\ StartOf(i) < StartOf(t) + W /\ StartOf(t) < StartOf(i) + W
    <3>1. /\ StartOf(i) \in Nat /\ StartOf(t) \in Nat /\ StartOf(i) <= i /\ i < StartOf(i) + W
      BY <1>3
    <3> QED BY <1>1, <1>2, <1>5, <3>1
  <2>1. i \div W <= t \div W
    BY <1>3, <1>4, <2>0
  <2>2. t \div W <= i \div W
    BY <1>3, <1>4, <2>0
  <2>3. i \div W = t \div W
    BY <2>0, <2>1, <2>2
  <2> QED BY <1>3, <2>3
<1>6. ASSUME NEW i \in Nat, i >= t PROVE StartOf(i) >= StartOf(t)
  <2>1. t \div W <= i \div W
    <3>1. W * (t \div W) < W * (i \div W) + W
      BY <1>1, <1>2, <1>3, <1>6
    <3> QED BY <1>2, <1>4, <3>1
  <2>2. (t \div W) * W <= (i \div W) * W
    BY <1>1, <1>2, <2>1, Longer
  <2>3. (t \div W) * W = W * (t \div W) /\ (i \div W) * W = W * (i \div W)
    BY <1>1, <1>2
  <2> QED BY <1>3, <2>2, <2>3
<1> QED BY <1>3, <1>5, <1>6 DEF W

(* What a call does besides its decision. *)
LEMMA LimCallFacts ==
    ASSUME LimTypeOK, NEW c \in LimCallers, Locked(c), NEW t, t = readAt[c]
    PROVE  /\ t \in Times /\ t \in 0..limNow /\ limNow - t <= MaxLag
           /\ latest' \in 0..limNow /\ t <= latest' /\ latest <= latest'
           /\ laggard' \in BOOLEAN /\ (laggard => laggard')
           /\ ~laggard' => ~laggard /\ latest <= t /\ latest' = t
           /\ limNow' = limNow /\ algo' = algo
           /\ readAt' = [d \in LimCallers |-> readAt'[d]]
           /\ \A d \in LimCallers : readAt'[d] # None => readAt'[d] = readAt[d]
<1>1. /\ t \in 0..limNow /\ limNow - t <= MaxLag /\ limNow \in Times /\ latest \in 0..limNow
      /\ laggard \in BOOLEAN /\ readAt = [d \in LimCallers |-> readAt[d]] /\ MaxLimTime \in Nat
  BY LimiterAssumption DEF LimTypeOK, Locked
<1>2. /\ latest' = (IF t > latest THEN t ELSE latest) /\ laggard' = (laggard \/ t < latest)
      /\ limNow' = limNow /\ algo' = algo /\ readAt' = [readAt EXCEPT ![c] = None]
  BY DEF Locked
<1>3. t \in Times
  BY <1>1 DEF Times
<1>4. /\ latest' \in 0..limNow /\ t <= latest' /\ latest <= latest'
  BY <1>1, <1>2
<1>5. /\ laggard' \in BOOLEAN /\ (laggard => laggard')
      /\ ~laggard' => ~laggard /\ latest <= t /\ latest' = t
  <2>1. CASE t < latest
    <3>1. laggard' = TRUE
      BY <1>2, <2>1
    <3> QED BY <3>1
  <2>2. CASE ~(t < latest)
    <3>1. laggard' = laggard /\ latest <= t /\ latest' = t
      BY <1>1, <1>2, <2>2
    <3> QED BY <1>1, <3>1
  <2> QED BY <2>1, <2>2
<1>6. readAt' = [d \in LimCallers |-> readAt'[d]]
  BY <1>1, <1>2
<1>7. \A d \in LimCallers : readAt'[d] # None => readAt'[d] = readAt[d]
  BY <1>1, <1>2
<1> QED BY <1>1, <1>2, <1>3, <1>4, <1>5, <1>6, <1>7

(* What a sweep does to the entry. *)
LEMMA SweptEntry ==
    ASSUME NEW t
    PROVE  \/ AfterSweep(t) = entry
           \/ AfterSweep(t) = None /\ entry # None /\ Expired(entry, t)
  BY DEF AfterSweep

(* A call allows, denies, or leaves the key to another one. *)
LEMMA CallOutcome ==
    ASSUME LimTypeOK, NEW c \in LimCallers, Allow(c) \/ AllowOther(c), NEW t, t = readAt[c], NEW e, e = AfterSweep(t)
    PROVE  /\ Locked(c)
           /\ \/ entry' = e /\ allowedAt' = allowedAt
              \/ ~Decide(e, t)[2] /\ entry' = Decide(e, t)[1] /\ allowedAt' = allowedAt
              \/ Decide(e, t)[2] /\ entry' = Decide(e, t)[1] /\ allowedAt' = WithOne(allowedAt, t)
<1>1. Locked(c)
  BY DEF Allow, AllowOther
<1>2. t \in Times /\ allowedAt \in [Times -> Nat]
  BY <1>1, LimCallFacts DEF LimTypeOK
<1>3. CASE AllowOther(c)
  BY <1>1, <1>3 DEF AllowOther
<1>4. CASE Allow(c)
  <2>1. /\ entry' = Decide(e, t)[1]
        /\ allowedAt' = [allowedAt EXCEPT ![t] = IF Decide(e, t)[2] THEN allowedAt[t] + 1 ELSE allowedAt[t]]
    BY <1>4 DEF Allow
  <2>2. CASE Decide(e, t)[2]
    BY <1>1, <2>1, <2>2 DEF WithOne
  <2>3. CASE ~Decide(e, t)[2]
    <3>1. allowedAt' = [allowedAt EXCEPT ![t] = allowedAt[t]]
      BY <2>1, <2>3
    <3>2. allowedAt' = allowedAt
      BY <1>2, <3>1
    <3> QED BY <1>1, <2>1, <2>3, <3>2
  <2> QED BY <2>2, <2>3
<1> QED BY <1>3, <1>4

(* What an allowed call adds to a stretch. *)
LEMMA AllowedOnce ==
    ASSUME LimTypeOK, NEW t \in Times, allowedAt' = WithOne(allowedAt, t), NEW a, NEW b
    PROVE  /\ allowedAt' \in [Times -> Nat]
           /\ t \in a..b => AllowedIn(allowedAt', a, b) = AllowedIn(allowedAt, a, b) + 1
           /\ t \notin a..b => AllowedIn(allowedAt', a, b) = AllowedIn(allowedAt, a, b)
           /\ \A i \in Times \ {t} : allowedAt'[i] = allowedAt[i]
<1> DEFINE w == allowedAt
           v == allowedAt'
<1>1. w \in [Times -> Nat] /\ v = WithOne(w, t)
  BY DEF LimTypeOK
<1>2. \A i \in Times \ {t} : v[i] = w[i]
  BY <1>1 DEF WithOne
<1> HIDE DEF w, v
<1>3. v \in [Times -> Nat]
  BY <1>1, OneAllowed
<1>4. /\ t \in a..b => AllowedIn(v, a, b) = AllowedIn(w, a, b) + 1
      /\ t \notin a..b => AllowedIn(v, a, b) = AllowedIn(w, a, b)
  BY <1>1, OneAllowed
<1> QED BY <1>2, <1>3, <1>4 DEF w, v

(* The windows of the counters. *)
PairAt(e, t) == IF algo = "fixed" THEN Fixed(e, t) ELSE Rolled(e, t)
Raised(p) == IF algo = "fixed" THEN [p EXCEPT !.count = @ + 1] ELSE [p EXCEPT !.current = @ + 1]

(* The counter that a call at t finds or begins is that of its window. *)
LEMMA PairFacts ==
    ASSUME algo \in {"fixed", "counter"}, NEW t \in Nat, NEW e, e # None => e \in EntriesOf(algo),
           NEW p, p = PairAt(e, t)
    PROVE  /\ p \in EntriesOf(algo) /\ p.start = StartOf(t) /\ CountOf(p) \in Nat
           /\ CountOf(p) = IF e # None /\ e.start = StartOf(t) THEN CountOf(e) ELSE 0
           /\ Raised(p) \in EntriesOf(algo) /\ Raised(p).start = StartOf(t) /\ CountOf(Raised(p)) = CountOf(p) + 1
<1>1. StartOf(t) \in Int
  BY StartFacts
<1>2. CASE algo = "fixed"
  <2>1. p = Fixed(e, t) /\ EntriesOf(algo) = [start : Int, count : Nat] /\ \A x : CountOf(x) = x.count
    BY <1>2 DEF PairAt, EntriesOf, CountOf
  <2>2. Raised(p) = [p EXCEPT !.count = @ + 1]
    BY <1>2 DEF Raised
  <2> QED BY <1>1, <2>1, <2>2 DEF Fixed
<1>3. CASE algo = "counter"
  <2>1. /\ p = Rolled(e, t) /\ EntriesOf(algo) = [start : Int, current : Nat, previous : Nat]
        /\ \A x : CountOf(x) = x.current
    BY <1>3 DEF PairAt, EntriesOf, CountOf
  <2>2. Raised(p) = [p EXCEPT !.current = @ + 1]
    BY <1>3 DEF Raised
  <2>3. p \in EntriesOf(algo) /\ p.start = StartOf(t) /\ p.current = IF e # None /\ e.start = StartOf(t) THEN e.current ELSE 0
    <3>1. CASE e # None /\ e.start = StartOf(t)
      <4>1. p = e
        BY <1>1, <2>1, <3>1, LimiterAssumption DEF Rolled
      <4> QED BY <3>1, <4>1
    <3>2. CASE ~(e # None /\ e.start = StartOf(t)) /\ e # None /\ StartOf(t) - e.start = Window
      <4>1. p = [start |-> StartOf(t), current |-> 0, previous |-> e.current]
        BY <2>1, <3>2 DEF Rolled
      <4> QED BY <1>1, <2>1, <3>2, <4>1
    <3>3. CASE ~(e # None /\ e.start = StartOf(t)) /\ ~(e # None /\ StartOf(t) - e.start = Window)
      <4>1. p = [start |-> StartOf(t), current |-> 0, previous |-> 0]
        BY <2>1, <3>3 DEF Rolled
      <4> QED BY <1>1, <2>1, <3>3, <4>1
    <3> QED BY <3>1, <3>2, <3>3
  <2> QED BY <2>1, <2>2, <2>3
<1> QED BY <1>2, <1>3

(* The counters allow while less than the limit is counted: what the       *)
(* estimate adds for the window before is never negative.                  *)
LEMMA PairDecides ==
    ASSUME algo \in {"fixed", "counter"}, NEW t \in Nat, NEW e, e # None => e \in EntriesOf(algo),
           NEW p, p = PairAt(e, t)
    PROVE  /\ ~Decide(e, t)[2] => Decide(e, t)[1] = p
           /\ Decide(e, t)[2] => Decide(e, t)[1] = Raised(p) /\ CountOf(p) < Limit
<1>1. p \in EntriesOf(algo) /\ p.start = StartOf(t) /\ CountOf(p) \in Nat /\ Limit \in Nat /\ Window \in Nat \ {0}
  BY PairFacts, LimiterAssumption
<1>2. CASE algo = "fixed"
  <2>1. Decide(e, t) = IF p.count >= Limit THEN <<p, FALSE>> ELSE <<Raised(p), TRUE>>
    BY <1>2 DEF Decide, PairAt, Raised
  <2>2. CountOf(p) = p.count
    BY <1>2 DEF CountOf
  <2> QED BY <1>1, <2>1, <2>2
<1>3. CASE algo = "counter"
  <2>1. Decide(e, t) = IF Weighted(p, t) >= Limit * Window THEN <<p, FALSE>> ELSE <<Raised(p), TRUE>>
    BY <1>3 DEF Decide, PairAt, Raised
  <2>2. CountOf(p) = p.current /\ p.current \in Nat /\ p.previous \in Nat
    BY <1>1, <1>3 DEF CountOf, EntriesOf
  <2>3. ASSUME ~(Weighted(p, t) >= Limit * Window) PROVE p.current < Limit
    <3>1. Window - (t - p.start) \in Nat
      BY <1>1, StartFacts
    <3>2. p.previous * (Window - (t - p.start)) \in Nat /\ p.current * Window \in Nat /\ Limit * Window \in Nat
      BY <1>1, <2>2, <3>1, Longer
    <3>3. p.current * Window < Limit * Window
      BY <2>3, <3>2 DEF Weighted
    <3>4. CASE Limit <= p.current
      BY <1>1, <2>2, <3>2, <3>3, <3>4, Longer
    <3> QED BY <1>1, <2>2, <3>4
  <2> QED BY <2>1, <2>2, <2>3
<1> QED BY <1>2, <1>3

(* FixedWindow and SlidingCounter: a sweep never drops the present window, *)
(* so its count is at least what it has allowed.                           *)
LEMMA WindowKeeps ==
    ASSUME LimInv, NEW c \in LimCallers, Allow(c) \/ AllowOther(c), algo \in {"fixed", "counter"}
    PROVE  /\ entry' # None => entry' \in EntriesOf(algo')
           /\ ~laggard' => WindowCounted' /\ WindowsWithinLimit'
<1> DEFINE t == readAt[c]
           e == AfterSweep(t)
           p == PairAt(e, t)
           S == StartOf(t)
<1>1. LimTypeOK /\ Locked(c)
  BY CallOutcome DEF LimInv
<1>2. /\ t \in Times /\ algo' = algo
      /\ ~laggard' => ~laggard /\ latest <= t /\ latest' = t
  BY <1>1, LimCallFacts
<1>3. /\ allowedAt \in [Times -> Nat] /\ latest \in Nat /\ Times \subseteq Nat
      /\ \A i \in Times : i > latest => allowedAt[i] = 0
      /\ entry # None => entry \in EntriesOf(algo)
  BY <1>1, LimiterAssumption DEF LimTypeOK, Times
<1>4. (e = entry \/ (e = None /\ entry # None /\ Expired(entry, t))) /\ (e # None => e = entry /\ e \in EntriesOf(algo))
  BY <1>3, SweptEntry
<1>5. /\ p \in EntriesOf(algo) /\ p.start = S /\ CountOf(p) \in Nat
      /\ CountOf(p) = IF e # None /\ e.start = S THEN CountOf(e) ELSE 0
      /\ Raised(p) \in EntriesOf(algo) /\ Raised(p).start = S /\ CountOf(Raised(p)) = CountOf(p) + 1
  BY <1>2, <1>3, <1>4, PairFacts
<1>6. /\ S \in Nat /\ S <= t /\ t < S + Window /\ Window \in Nat \ {0}
      /\ \A i \in Nat : i >= S /\ i < S + Window => StartOf(i) = S
  BY <1>2, <1>3, StartFacts, LimiterAssumption
<1>o. \/ entry' = e /\ allowedAt' = allowedAt
      \/ entry' = p /\ allowedAt' = allowedAt
      \/ entry' = Raised(p) /\ allowedAt' = WithOne(allowedAt, t) /\ CountOf(p) < Limit
  <2>1. \/ entry' = e /\ allowedAt' = allowedAt
        \/ ~Decide(e, t)[2] /\ entry' = Decide(e, t)[1] /\ allowedAt' = allowedAt
        \/ Decide(e, t)[2] /\ entry' = Decide(e, t)[1] /\ allowedAt' = WithOne(allowedAt, t)
    BY <1>1, CallOutcome
  <2>2. /\ ~Decide(e, t)[2] => Decide(e, t)[1] = p
        /\ Decide(e, t)[2] => Decide(e, t)[1] = Raised(p) /\ CountOf(p) < Limit
    BY <1>2, <1>3, <1>4, PairDecides
  <2> QED BY <2>1, <2>2
<1>7. entry' # None => entry' \in EntriesOf(algo')
  BY <1>2, <1>4, <1>5, <1>o
<1>8. ASSUME ~laggard' PROVE WindowCounted' /\ WindowsWithinLimit'
  <2>1. ~laggard /\ latest <= t /\ latest' = t /\ WindowCounted /\ WindowsWithinLimit
    BY <1>2, <1>8 DEF LimInv, LocalLimitsHold
  (* What was allowed since the present window began is in its entry. *)
  <2>2. ASSUME NEW i \in Times, i >= S, allowedAt[i] > 0
        PROVE  StartOf(i) = S /\ entry # None /\ entry.start = S /\ e = entry
    <3>1. i <= latest
      BY <1>3, <2>2
    <3>0. i \in Nat /\ t \in Nat
      BY <1>2, <1>3
    <3>2. StartOf(i) = S
      BY <1>3, <1>6, <2>1, <2>2, <3>0, <3>1
    <3>3. i >= StartOf(latest)
      <4>1. StartOf(latest) \in Nat /\ StartOf(latest) <= S
        BY <1>3, <2>1, <3>0, StartFacts
      <4> QED BY <1>6, <2>2, <3>0, <4>1
    <3>4. entry # None /\ entry.start = S
      BY <2>1, <2>2, <3>2, <3>3 DEF WindowCounted
    <3>5. ~Expired(entry, t)
      <4>1. 2 * Window \in Nat \ {0}
        BY <1>6
      <4>2. ~(entry.start <= S - Window) /\ ~(entry.start <= S - 2 * Window)
        BY <1>6, <3>4, <4>1
      <4> QED BY <4>2 DEF Expired
    <3> QED BY <1>4, <3>2, <3>4, <3>5
  <2>3. AllowedIn(allowedAt, S, S + Window - 1) <= CountOf(p)
    <3>1. CASE e # None /\ e.start = S
      <4>1. AllowedIn(allowedAt, S, S + Window - 1) <= CountOf(entry)
        BY <1>4, <2>1, <3>1 DEF WindowCounted
      <4> QED BY <1>4, <1>5, <3>1, <4>1
    <3>2. CASE ~(e # None /\ e.start = S)
      <4>1. \A i \in S..(S + Window - 1) \cap Times : allowedAt[i] = 0
        <5>1. ASSUME NEW i \in S..(S + Window - 1) \cap Times, allowedAt[i] > 0 PROVE FALSE
          BY <1>6, <2>2, <3>2, <5>1
        <5>2. \A i \in Times : allowedAt[i] \in Nat
          BY <1>3
        <5> QED BY <5>1, <5>2
      <4>2. AllowedIn(allowedAt, S, S + Window - 1) = 0
        BY <1>3, <4>1, NoneAllowed
      <4> QED BY <1>5, <4>2
    <3> QED BY <3>1, <3>2
  <2>4. CASE entry' = e /\ allowedAt' = allowedAt
    <3>1. WindowCounted'
      <4>1. ASSUME NEW i \in Times, i >= S, allowedAt[i] > 0 PROVE entry' # None /\ entry'.start = StartOf(i)
        BY <2>2, <2>4, <4>1
      <4>2. entry' # None => AllowedIn(allowedAt, entry.start, entry.start + Window - 1) <= CountOf(entry)
        BY <1>4, <2>1, <2>4 DEF WindowCounted
      <4>3. entry' # None => AllowedIn(allowedAt, entry.start, entry.start + Window - 1)' <= CountOf(entry)'
        BY <1>2, <1>4, <2>4, <4>2 DEF CountOf
      <4> QED BY <2>1, <2>4, <4>1, <4>3 DEF WindowCounted
    <3>2. WindowsWithinLimit'
      BY <1>2, <2>1, <2>4, <1>8 DEF WindowsWithinLimit
    <3> QED BY <3>1, <3>2
  <2>5. CASE entry' = p /\ allowedAt' = allowedAt
    <3>0. p # None
      BY <1>5, NoEntryAssumption
    <3>1. WindowCounted'
      <4>1. ASSUME NEW i \in Times, i >= S, allowedAt[i] > 0 PROVE entry' # None /\ entry'.start = StartOf(i)
        BY <1>5, <2>2, <2>5, <3>0, <4>1
      <4>3. AllowedIn(allowedAt, entry.start, entry.start + Window - 1)' <= CountOf(entry)'
        BY <1>2, <1>5, <2>3, <2>5 DEF CountOf
      <4> QED BY <2>1, <2>5, <4>1, <4>3 DEF WindowCounted
    <3>2. WindowsWithinLimit'
      BY <1>2, <2>1, <2>5, <1>8 DEF WindowsWithinLimit
    <3> QED BY <3>1, <3>2
  <2>6. CASE entry' = Raised(p) /\ allowedAt' = WithOne(allowedAt, t) /\ CountOf(p) < Limit
    <3>0. /\ Raised(p) # None /\ Limit \in Nat
          /\ AllowedIn(allowedAt, S, S + Window - 1) \in Nat
      BY <1>3, <1>5, NoEntryAssumption, AllowedCounts, LimiterAssumption
    <3>a. \A i \in Times : i # t => allowedAt'[i] = allowedAt[i]
      BY <1>3, <2>6 DEF WithOne
    <3>b. ASSUME NEW a, NEW b
          PROVE  /\ t \in a..b => AllowedIn(allowedAt', a, b) = AllowedIn(allowedAt, a, b) + 1
                 /\ t \notin a..b => AllowedIn(allowedAt', a, b) = AllowedIn(allowedAt, a, b)
      BY <1>1, <1>2, <2>6, AllowedOnce
    <3>c. t \in S..(S + Window - 1)
      <4>1. t \in Nat
        BY <1>2, <1>3
      <4> QED BY <1>6, <4>1
    <3>d. AllowedIn(allowedAt', S, S + Window - 1) <= CountOf(Raised(p)) /\ CountOf(Raised(p)) <= Limit
      BY <1>5, <2>3, <2>6, <3>0, <3>b, <3>c
    <3>1. WindowCounted'
      <4>1. ASSUME NEW i \in Times, i >= S, allowedAt'[i] > 0 PROVE entry' # None /\ entry'.start = StartOf(i)
        <5>1. CASE i = t
          BY <1>5, <2>6, <3>0, <5>1
        <5>2. CASE i # t
          BY <1>5, <2>2, <2>6, <3>0, <3>a, <4>1, <5>2
        <5> QED BY <5>1, <5>2
      <4>3. AllowedIn(allowedAt, entry.start, entry.start + Window - 1)' <= CountOf(entry)'
        BY <1>2, <1>5, <2>6, <3>d DEF CountOf
      <4> QED BY <2>1, <2>6, <4>1, <4>3 DEF WindowCounted
    <3>2. WindowsWithinLimit'
      <4>1. ASSUME NEW i \in Times PROVE AllowedIn(allowedAt', StartOf(i), StartOf(i) + Window - 1) <= Limit
        <5>1. CASE t \in StartOf(i)..(StartOf(i) + Window - 1)
          <6>1. StartOf(i) = S
            BY <1>2, <1>3, <1>6, <5>1, StartFacts
          <6> QED BY <1>5, <3>0, <3>d, <6>1, <3>b, <3>c
        <5>2. CASE t \notin StartOf(i)..(StartOf(i) + Window - 1)
          <6>1. AllowedIn(allowedAt, StartOf(i), StartOf(i) + Window - 1) <= Limit
            BY <2>1 DEF WindowsWithinLimit, Times
          <6> QED BY <3>b, <5>2, <6>1
        <5> QED BY <5>1, <5>2
      <4> QED BY <4>1 DEF WindowsWithinLimit, Times
    <3> QED BY <3>1, <3>2
  <2> QED BY <1>o, <2>4, <2>5, <2>6
<1> QED BY <1>7, <1>8

(* There are n numbers up to n. *)
LEMMA FirstNumbers == ASSUME NEW n \in Nat PROVE IsFiniteSet(1..n) /\ Cardinality(1..n) = n
  BY FS_Interval, 1 \in Int, n \in Int

(* The loop of SlidingLog drops a prefix, all of it out of the window. *)
LEMMA KeptIsSuffix ==
    ASSUME NEW log \in Seq(Nat), NEW t \in Nat
    PROVE  \E k \in 0..Len(log) : /\ Kept(log, t) = SubSeq(log, k + 1, Len(log))
                                  /\ \A i \in 1..k : log[i] <= t - Window
<1> DEFINE out == {i \in 1..Len(log) : \A j \in 1..i : log[j] <= t - Window}
           k == Cardinality(out)
<1>1. Len(log) \in Nat /\ IsFiniteSet(1..Len(log)) /\ Cardinality(1..Len(log)) = Len(log)
  <2>1. Len(log) \in Nat
    OBVIOUS
  <2> QED BY <2>1, FirstNumbers
<1>2. out \subseteq 1..Len(log) /\ \A i \in out : 1..i \subseteq out
  <2>1. ASSUME NEW i \in out, NEW j \in 1..i PROVE j \in out
    <3>1. i \in 1..Len(log) /\ j \in 1..Len(log) /\ 1..j \subseteq 1..i
      BY <1>1, <2>1
    <3> QED BY <2>1, <3>1
  <2> QED BY <2>1
<1>3. IsFiniteSet(out) /\ k \in Nat /\ k <= Len(log)
  BY <1>1, <1>2, FS_Subset, FS_CardinalityType
<1>4. Kept(log, t) = SubSeq(log, k + 1, Len(log))
  BY DEF Kept
<1>5. ASSUME NEW i \in 1..k PROVE log[i] <= t - Window
  <2>1. i \in out => log[i] <= t - Window
    BY <1>3
  <2> HIDE DEF out, k
  <2>2. CASE i \notin out
    <3>1. out \subseteq 1..(i - 1)
      <4>1. ASSUME NEW j \in out PROVE j <= i - 1
        <5>1. CASE i <= j
          BY <1>2, <1>3, <2>2, <5>1
        <5> QED BY <1>1, <1>2, <1>3, <5>1
      <4> QED BY <1>1, <1>2, <1>3, <4>1
    <3>2. IsFiniteSet(1..(i - 1)) /\ Cardinality(1..(i - 1)) = i - 1
      <4>1. i - 1 \in Nat
        BY <1>3
      <4> QED BY <4>1, FirstNumbers
    <3>3. k <= i - 1
      BY <3>1, <3>2, FS_Subset DEF k
    <3> QED BY <1>3, <3>3
  <2> QED BY <2>1, <2>2
<1>6. k \in 0..Len(log)
  BY <1>1, <1>3
<1> HIDE DEF k
<1> QED BY <1>4, <1>5, <1>6

(* No more hits are logged since an instant than there are. *)
LEMMA LoggedFinite ==
    ASSUME NEW log \in Seq(Nat), NEW a
    PROVE  /\ IsFiniteSet({i \in 1..Len(log) : log[i] >= a})
           /\ Logged(log, a) \in 0..Len(log)
<1>1. Len(log) \in Nat /\ {i \in 1..Len(log) : log[i] >= a} \subseteq 1..Len(log)
  OBVIOUS
<1>2. IsFiniteSet(1..Len(log)) /\ Cardinality(1..Len(log)) = Len(log)
  BY <1>1, FirstNumbers
<1> QED BY <1>1, <1>2, FS_Subset, FS_CardinalityType DEF Logged

(* Dropping a prefix of earlier hits loses none of those since an instant. *)
LEMMA StillLogged ==
    ASSUME NEW log \in Seq(Nat), NEW k \in 0..Len(log), NEW a \in Int, \A i \in 1..k : log[i] < a,
           NEW rest, rest = SubSeq(log, k + 1, Len(log))
    PROVE  /\ rest \in Seq(Nat) /\ Len(rest) = Len(log) - k
           /\ \A i \in 1..Len(rest) : i + k \in 1..Len(log) /\ rest[i] = log[i + k]
           /\ Logged(log, a) <= Logged(rest, a)
<1>1. /\ Len(log) \in Nat /\ rest \in Seq(Nat) /\ Len(rest) = Len(log) - k
      /\ \A i \in 1..Len(rest) : i + k \in 1..Len(log) /\ rest[i] = log[i + k]
  OBVIOUS
<1> DEFINE A == {i \in 1..Len(log) : log[i] >= a}
           B == {i \in 1..Len(rest) : rest[i] >= a}
           g == [i \in A |-> i - k]
<1>2. \A i \in 1..Len(log) : log[i] \in Nat
  OBVIOUS
<1>3. ASSUME NEW i \in A PROVE g[i] \in B /\ i \in Int
  <2>1. i \in 1..Len(log) /\ log[i] >= a /\ log[i] \in Nat
    BY <1>2
  <2>2. ~(i <= k)
    BY <2>1
  <2>3. i - k \in 1..Len(rest) /\ i - k + k = i
    BY <1>1, <2>1, <2>2
  <2> QED BY <1>1, <2>1, <2>3
<1>4. g \in Injection(A, B)
  <2>1. g \in [A -> B]
    BY <1>3
  <2>2. ASSUME NEW i \in A, NEW j \in A, g[i] = g[j] PROVE i = j
    <3>1. i \in Int /\ j \in Int /\ i - k = j - k /\ k \in Int
      BY <1>1, <1>3, <2>2
    <3> QED BY <3>1
  <2> QED BY <2>1, <2>2 DEF Injection, IsInjective
<1>5. IsFiniteSet(B)
  BY <1>1, LoggedFinite
<1> HIDE DEF A, B, g
<1>6. Cardinality(A) <= Cardinality(B)
  BY <1>4, <1>5, FS_Injection
<1> QED BY <1>1, <1>6 DEF A, B, Logged

(* An appended hit is logged since its time. *)
LEMMA OneMoreLogged ==
    ASSUME NEW log \in Seq(Nat), NEW t \in Nat, NEW a \in Int
    PROVE  Logged(Append(log, t), a) = IF t >= a THEN Logged(log, a) + 1 ELSE Logged(log, a)
<1> DEFINE n == Len(log) + 1
           A == {i \in 1..Len(log) : log[i] >= a}
           B == {i \in 1..Len(Append(log, t)) : Append(log, t)[i] >= a}
<1>1. /\ Len(log) \in Nat /\ Len(Append(log, t)) = n /\ Append(log, t)[n] = t
      /\ \A i \in 1..Len(log) : Append(log, t)[i] = log[i]
      /\ 1..n = (1..Len(log)) \cup {n} /\ n \notin 1..Len(log)
  OBVIOUS
<1>2. IsFiniteSet(A) /\ n \notin A
  BY <1>1, LoggedFinite
<1>3. B = IF t >= a THEN A \cup {n} ELSE A
  BY <1>1
<1> HIDE DEF A, B, n
<1>4. Cardinality(A \cup {n}) = Cardinality(A) + 1
  BY <1>2, FS_AddElement
<1> QED BY <1>3, <1>4 DEF A, B, Logged

(* The log after a call at t: some of its first hits are gone, none of     *)
(* them as late as a call to come may count, and t may be appended.        *)
LEMMA LogAfter ==
    ASSUME LimInv, NEW c \in LimCallers, Allow(c) \/ AllowOther(c), algo = "log", NEW t, t = readAt[c]
    PROVE  \E k \in 0..Len(Log) :
             LET rest == SubSeq(Log, k + 1, Len(Log)) IN
             /\ \A i \in 1..k : Log[i] <= t - Window + Slack
             /\ \/ Log' = rest /\ allowedAt' = allowedAt
                \/ Log' = Append(rest, t) /\ allowedAt' = WithOne(allowedAt, t) /\ Len(rest) < Limit
<1> DEFINE e == AfterSweep(t)
           swept == IF e = None THEN <<>> ELSE e
<1>1. LimTypeOK /\ Locked(c) /\ LogIsComplete
  BY CallOutcome DEF LimInv
<1>2. t \in Times /\ t \in Nat /\ Window \in Nat \ {0} /\ Slack \in Nat
  BY <1>1, LimCallFacts, LimiterAssumption DEF Slack, Times, LimTypeOK
<1>3. entry # None => entry \in Seq(Nat)
  BY <1>1 DEF LimTypeOK, EntriesOf
<1>n. Log \in Seq(Nat) /\ Len(Log) \in Nat
  BY <1>3 DEF Log
<1>4. (e = entry \/ (e = None /\ entry # None /\ Expired(entry, t))) /\ (e # None => e = entry /\ e \in Seq(Nat))
  BY <1>3, SweptEntry
<1>5. swept \in Seq(Nat)
  BY <1>4
<1>6. \A s \in Seq(Nat) : s # None
  BY NoEntryAssumption DEF EntriesOf
<1>7. \A s \in Seq(Nat) : SubSeq(s, 1, Len(s)) = s /\ SubSeq(s, Len(s) + 1, Len(s)) = <<>>
  OBVIOUS
(* What a sweep leaves. *)
<1>8. \/ swept = Log
      \/ swept = <<>> /\ \A i \in 1..Len(Log) : Log[i] <= t - Window + Slack
  <2>1. CASE e = entry
    BY <2>1 DEF Log
  <2>2. CASE e = None /\ entry # None /\ Expired(entry, t)
    <3>1. entry = <<>> \/ entry[Len(entry)] <= t - Window
      BY <1>1, <2>2 DEF Expired
    <3>2. Log = entry /\ swept = <<>>
      BY <2>2 DEF Log
    <3>3. CASE entry = <<>>
      BY <3>2, <3>3
    <3>4. CASE entry # <<>> /\ entry[Len(entry)] <= t - Window
      <4>1. Len(Log) \in 1..Len(Log) /\ Log[Len(Log)] <= t - Window /\ \A i \in 1..Len(Log) : Log[i] \in Nat
        BY <1>n, <3>2, <3>4
      <4>2. ASSUME NEW i \in 1..Len(Log) PROVE Log[i] <= t - Window + Slack
        <5>1. CASE i = Len(Log)
          BY <1>2, <4>1, <5>1
        <5>2. CASE i # Len(Log)
          <6>1. i < Len(Log)
            BY <1>n, <5>2
          <6>2. Log[i] <= Log[Len(Log)] + Slack
            BY <1>1, <4>1, <6>1 DEF LogIsComplete
          <6> QED BY <1>2, <4>1, <6>2
        <5> QED BY <5>1, <5>2
      <4> QED BY <3>2, <4>2
    <3> QED BY <3>1, <3>3, <3>4
  <2> QED BY <1>4, <2>1, <2>2
<1>9. PICK j \in 0..Len(swept) : /\ Kept(swept, t) = SubSeq(swept, j + 1, Len(swept))
                                 /\ \A i \in 1..j : swept[i] <= t - Window
  BY <1>2, <1>5, KeptIsSuffix
<1>o. \/ Log' = swept /\ allowedAt' = allowedAt
      \/ Log' = Kept(swept, t) /\ allowedAt' = allowedAt
      \/ Log' = Append(Kept(swept, t), t) /\ allowedAt' = WithOne(allowedAt, t) /\ Len(Kept(swept, t)) < Limit
  <2>1. \/ entry' = e /\ allowedAt' = allowedAt
        \/ ~Decide(e, t)[2] /\ entry' = Decide(e, t)[1] /\ allowedAt' = allowedAt
        \/ Decide(e, t)[2] /\ entry' = Decide(e, t)[1] /\ allowedAt' = WithOne(allowedAt, t)
    BY <1>1, CallOutcome
  <2>2. Decide(e, t) = IF Len(Kept(swept, t)) >= Limit THEN <<Kept(swept, t), FALSE>>
                       ELSE <<Append(Kept(swept, t), t), TRUE>>
    BY DEF Decide
  <2>3. Kept(swept, t) \in Seq(Nat)
    <3> HIDE DEF swept
    <3>1. \A s \in Seq(Nat) : \A i \in 0..Len(s) : SubSeq(s, i + 1, Len(s)) \in Seq(Nat)
      OBVIOUS
    <3> QED BY <1>5, <1>9, <3>1
  <2>4. Len(Kept(swept, t)) \in Nat /\ Append(Kept(swept, t), t) \in Seq(Nat) /\ Limit \in Nat
    BY <1>2, <2>3, LimiterAssumption
  <2>5. Kept(swept, t) # None /\ Append(Kept(swept, t), t) # None
    BY <1>6, <2>3, <2>4
  <2>6. Log' = IF entry' = None THEN <<>> ELSE entry'
    BY DEF Log
  <2>7. CASE entry' = e /\ allowedAt' = allowedAt
    BY <2>6, <2>7
  <2> DEFINE d == Decide(e, t)
             kept == Kept(swept, t)
             more == Append(kept, t)
  <2>8. \/ d = <<kept, FALSE>>
        \/ d = <<more, TRUE>> /\ Len(kept) < Limit
    <3> HIDE DEF e, swept
    <3>1. CASE Len(kept) >= Limit
      BY <2>2, <3>1
    <3>2. CASE ~(Len(kept) >= Limit)
      <4>1. Len(kept) < Limit
        BY <2>4, <3>2
      <4>2. d = <<more, TRUE>>
        BY <2>2, <3>2
      <4> QED BY <4>1, <4>2
    <3> QED BY <3>1, <3>2
  <2>9. /\ \/ ~d[2] /\ entry' = d[1] /\ allowedAt' = allowedAt
           \/ d[2] /\ entry' = d[1] /\ allowedAt' = WithOne(allowedAt, t)
           \/ entry' = e /\ allowedAt' = allowedAt
        /\ kept # None /\ more # None
    BY <2>1, <2>5
  <2> HIDE DEF d, kept, more
  <2>10. CASE d = <<kept, FALSE>> /\ ~(entry' = e /\ allowedAt' = allowedAt)
    <3>1. d[1] = kept /\ d[2] = FALSE
      BY <2>10
    <3>2. entry' = kept /\ allowedAt' = allowedAt
      BY <2>9, <2>10, <3>1
    <3> QED BY <2>6, <2>9, <3>2 DEF kept
  <2>11. CASE d = <<more, TRUE>> /\ Len(kept) < Limit /\ ~(entry' = e /\ allowedAt' = allowedAt)
    <3>1. d[1] = more /\ d[2] = TRUE
      BY <2>11
    <3>2. entry' = more /\ allowedAt' = WithOne(allowedAt, t)
      BY <2>9, <2>11, <3>1
    <3> QED BY <2>6, <2>9, <2>11, <3>2 DEF kept, more
  <2> QED BY <2>7, <2>8, <2>10, <2>11
<1> HIDE DEF swept
<1>a. CASE swept = Log
  <2>1. \A i \in 1..j : Log[i] <= t - Window + Slack
    <3>1. \A i \in 1..j : Log[i] \in Nat
      BY <1>9, <1>n, <1>a
    <3> QED BY <1>2, <1>9, <1>a, <3>1
  <2>2. CASE Log' = swept /\ allowedAt' = allowedAt
    <3>1. 0 \in 0..Len(Log) /\ Log' = SubSeq(Log, 0 + 1, Len(Log)) /\ \A i \in 1..0 : Log[i] <= t - Window + Slack
      BY <1>7, <1>n, <1>a, <2>2
    <3> QED BY <2>2, <3>1
  <2>3. CASE ~(Log' = swept /\ allowedAt' = allowedAt)
    <3>1. j \in 0..Len(Log) /\ Kept(swept, t) = SubSeq(Log, j + 1, Len(Log))
      BY <1>9, <1>a
    <3> QED BY <1>o, <2>1, <2>3, <3>1
  <2> QED BY <2>2, <2>3
<1>b. CASE swept = <<>> /\ \A i \in 1..Len(Log) : Log[i] <= t - Window + Slack
  <2>1. Kept(swept, t) = <<>> /\ SubSeq(Log, Len(Log) + 1, Len(Log)) = <<>> /\ Len(Log) \in 0..Len(Log)
    <3>1. Len(swept) = 0 /\ j = 0 /\ SubSeq(<<>>, 1, 0) = <<>>
      BY <1>9, <1>b
    <3> QED BY <1>7, <1>9, <1>n, <1>b, <3>1
  <2> QED BY <1>b, <1>o, <2>1
<1> QED BY <1>8, <1>a, <1>b

(* SlidingLog: what a call may have to count is still in the log, though   *)
(* hits are dropped by the clock of whoever calls.                         *)
LEMMA LogKeeps ==
    ASSUME LimInv, NEW c \in LimCallers, Allow(c) \/ AllowOther(c), algo = "log"
    PROVE  (entry' # None => entry' \in EntriesOf(algo')) /\ LogIsComplete' /\ LogIsExact'
<1> DEFINE t == readAt[c]
<1>1. LimTypeOK /\ Locked(c) /\ LogIsComplete /\ LogIsExact
  BY CallOutcome DEF LimInv, LocalLimitsHold
<1>2. /\ t \in Times /\ t \in 0..limNow /\ limNow - t <= MaxLag
      /\ latest' \in 0..limNow /\ t <= latest' /\ latest <= latest'
      /\ laggard' \in BOOLEAN /\ (laggard => laggard')
      /\ ~laggard' => ~laggard /\ latest <= t /\ latest' = t
      /\ limNow' = limNow /\ algo' = algo
  BY <1>1, LimCallFacts
<1>3. /\ MaxLimTime \in Nat /\ Limit \in Nat \ {0} /\ Window \in Nat \ {0} /\ MaxLag \in Nat /\ Times = 0..MaxLimTime
      /\ allowedAt \in [Times -> Nat] /\ latest \in Nat /\ limNow \in Nat /\ latest <= limNow /\ t \in Nat
      /\ laggard \in BOOLEAN
  <2>1. /\ MaxLimTime \in Nat /\ Limit \in Nat \ {0} /\ Window \in Nat \ {0} /\ MaxLag \in Nat /\ Times = 0..MaxLimTime
    BY LimiterAssumption DEF Times
  <2> QED BY <1>1, <1>2, <2>1 DEF LimTypeOK
<1>n. Log \in Seq(Nat) /\ Len(Log) \in Nat
  <2>1. entry # None => entry \in Seq(Nat)
    BY <1>1 DEF LimTypeOK, EntriesOf
  <2> QED BY <2>1 DEF Log
<1>4. PICK k \in 0..Len(Log) :
        LET rest == SubSeq(Log, k + 1, Len(Log)) IN
        /\ \A i \in 1..k : Log[i] <= t - Window + Slack
        /\ \/ Log' = rest /\ allowedAt' = allowedAt
           \/ Log' = Append(rest, t) /\ allowedAt' = WithOne(allowedAt, t) /\ Len(rest) < Limit
  BY LogAfter
<1> DEFINE rest == SubSeq(Log, k + 1, Len(Log))
<1>5. /\ rest \in Seq(Nat) /\ Len(rest) \in Nat /\ Len(rest) = Len(Log) - k
      /\ \A i \in 1..Len(rest) : i + k \in 1..Len(Log) /\ rest[i] = Log[i + k]
  <2>1. k \in Int /\ \A i \in 1..Len(Log) : Log[i] \in Nat
    BY <1>4, <1>n
  <2> QED BY <1>4, <1>n, <2>1
<1>6. \/ Log' = rest /\ allowedAt' = allowedAt
      \/ Log' = Append(rest, t) /\ allowedAt' = WithOne(allowedAt, t) /\ Len(rest) < Limit
  BY <1>4
(* Only what no later call can count has been dropped. *)
<1>7. ASSUME NEW a \in Times, a > Horizon' PROVE Since(a) <= Logged(rest, a)
  <2>1. Horizon \in Int /\ Horizon' \in Int /\ Horizon <= Horizon' /\ t - Window + Slack <= Horizon' /\ Slack \in Nat
    <3>1. CASE laggard'
      <4>1. Horizon' = limNow - Window + MaxLag
        BY <1>2, <3>1 DEF Horizon
      <4>2. Horizon \in Int /\ Horizon <= limNow - Window + MaxLag /\ Slack \in 0..MaxLag
        BY <1>3 DEF Horizon, Slack
      <4> QED BY <1>2, <1>3, <4>1, <4>2
    <3>2. CASE ~laggard'
      <4>1. Horizon' = t - Window /\ Horizon = latest - Window /\ Slack = 0
        BY <1>2, <3>2 DEF Horizon, Slack
      <4> QED BY <1>2, <1>3, <3>2, <4>1
    <3> QED BY <3>1, <3>2
  <2>2. Since(a) <= Logged(Log, a)
    BY <1>1, <1>3, <1>7, <2>1 DEF LogIsComplete
  <2>3. \A i \in 1..k : Log[i] < a
    <3>1. \A i \in 1..k : Log[i] \in Nat
      BY <1>4, <1>n
    <3> QED BY <1>3, <1>4, <1>7, <2>1, <3>1
  <2>4. a \in Int
    BY <1>3
  <2>5. Logged(Log, a) <= Logged(rest, a)
    BY <1>n, <2>3, <2>4, StillLogged
  <2>6. Logged(Log, a) \in Nat /\ Logged(rest, a) \in Nat
    <3>1. Logged(Log, a) \in 0..Len(Log)
      BY <1>n, LoggedFinite
    <3>2. Logged(rest, a) \in 0..Len(rest)
      <4> HIDE DEF rest
      <4> QED BY <1>5, LoggedFinite
    <3> QED BY <1>5, <1>n, <3>1, <3>2
  <2>7. Since(a) \in Nat
    BY <1>3, AllowedCounts DEF Since
  <2> QED BY <2>2, <2>5, <2>6, <2>7
(* What is left is as nearly in order as before. *)
<1>8. /\ \A i \in 1..Len(rest) : rest[i] \in 0..latest
      /\ \A i, j \in 1..Len(rest) : i < j => rest[i] <= rest[j] + Slack'
  <2>1. Slack \in Nat /\ Slack' \in Nat /\ Slack <= Slack'
    BY <1>2, <1>3 DEF Slack
  <2>2. ASSUME NEW i \in 1..Len(rest) PROVE rest[i] \in 0..latest
    BY <1>1, <1>5, <2>2 DEF LogIsComplete
  <2>3. ASSUME NEW i \in 1..Len(rest), NEW j \in 1..Len(rest), i < j PROVE rest[i] <= rest[j] + Slack'
    <3>1. i + k \in 1..Len(Log) /\ j + k \in 1..Len(Log) /\ i + k < j + k
      BY <1>5, <2>3
    <3>2. Log[i + k] <= Log[j + k] + Slack
      BY <1>1, <3>1 DEF LogIsComplete
    <3>3. rest[i] \in Nat /\ rest[j] \in Nat /\ rest[i] = Log[i + k] /\ rest[j] = Log[j + k]
      BY <1>3, <1>5, <2>2
    <3> QED BY <2>1, <3>2, <3>3
  <2> QED BY <2>2, <2>3
<1> HIDE DEF rest, t
<1>9. CASE Log' = rest /\ allowedAt' = allowedAt
  <2>1. LogIsComplete'
    <3>1. \A i \in 1..Len(rest) : rest[i] \in 0..latest'
      BY <1>2, <1>3, <1>8
    <3>2. \A a \in Times : a > Horizon' => Since(a)' <= Logged(rest, a)
      BY <1>7, <1>9 DEF Since
    <3> QED BY <1>8, <1>9, <3>1, <3>2 DEF LogIsComplete
  <2>2. LogIsExact'
    <3>1. ASSUME NEW u \in 0..MaxLimTime PROVE AllowedIn(allowedAt, u - (Window - Lost') + 1, u) <= Limit
      <4>1. AllowedIn(allowedAt, u - (Window - Lost) + 1, u) <= Limit
        BY <1>1 DEF LogIsExact
      <4>2. Lost \in Nat /\ Lost' \in Nat /\ Lost <= Lost' /\ u \in Nat
        BY <1>2, <1>3 DEF Lost
      <4>3. (u - (Window - Lost') + 1)..u \cap Times \subseteq (u - (Window - Lost) + 1)..u
        BY <1>3, <4>2
      <4>4. AllowedIn(allowedAt, u - (Window - Lost') + 1, u) <= AllowedIn(allowedAt, u - (Window - Lost) + 1, u)
        BY <1>3, <4>3, LongerHasMore
      <4>5. AllowedIn(allowedAt, u - (Window - Lost') + 1, u) \in Nat /\ AllowedIn(allowedAt, u - (Window - Lost) + 1, u) \in Nat
        BY <1>3, AllowedCounts
      <4> QED BY <1>3, <4>1, <4>4, <4>5
    <3> QED BY <1>9, <3>1 DEF LogIsExact
  <2>3. entry' # None => entry' \in Seq(Nat)
    BY <1>5, <1>9 DEF Log
  <2> QED BY <1>2, <2>1, <2>2, <2>3 DEF EntriesOf
<1>10. CASE Log' = Append(rest, t) /\ allowedAt' = WithOne(allowedAt, t) /\ Len(rest) < Limit
  <2> DEFINE n == Len(rest) + 1
  <2>0. /\ Append(rest, t) \in Seq(Nat) /\ Len(Append(rest, t)) = n /\ Append(rest, t)[n] = t /\ n \in Nat
        /\ \A i \in 1..n : i # n => i \in 1..Len(rest) /\ Append(rest, t)[i] = rest[i]
        /\ n = Len(rest) + 1
    <3>1. /\ Append(rest, t) \in Seq(Nat) /\ Len(Append(rest, t)) = n /\ Append(rest, t)[n] = t /\ n \in Nat
          /\ \A i \in 1..Len(rest) : Append(rest, t)[i] = rest[i]
      BY <1>3, <1>5
    <3>2. \A i \in 1..n : i # n => i \in 1..Len(rest)
      <4>1. Len(rest) \in Nat
        BY <1>5
      <4> QED BY <4>1
    <3> QED BY <3>1, <3>2
  <2> HIDE DEF n
  <2>a. \A a, b : /\ t \in a..b => AllowedIn(allowedAt', a, b) = AllowedIn(allowedAt, a, b) + 1
                  /\ t \notin a..b => AllowedIn(allowedAt', a, b) = AllowedIn(allowedAt, a, b)
    <3>1. ASSUME NEW a, NEW b
          PROVE  /\ t \in a..b => AllowedIn(allowedAt', a, b) = AllowedIn(allowedAt, a, b) + 1
                 /\ t \notin a..b => AllowedIn(allowedAt', a, b) = AllowedIn(allowedAt, a, b)
      BY <1>1, <1>2, <1>10, AllowedOnce
    <3> QED BY <3>1
  <2>b. allowedAt' \in [Times -> Nat]
    BY <1>1, <1>2, <1>10, AllowedOnce
  <2>1. LogIsComplete'
    <3>1. \A i \in 1..n : Append(rest, t)[i] \in 0..latest'
      BY <1>2, <1>3, <1>8, <2>0
    <3>2. \A i, j \in 1..n : i < j => Append(rest, t)[i] <= Append(rest, t)[j] + Slack'
      <4>1. ASSUME NEW i \in 1..n, NEW j \in 1..n, i < j PROVE Append(rest, t)[i] <= Append(rest, t)[j] + Slack'
        <5>1. i \in 1..Len(rest) /\ Append(rest, t)[i] = rest[i] /\ rest[i] \in 0..latest
          BY <1>5, <1>8, <2>0, <4>1
        <5>2. CASE j = n
          <6> DEFINE slack == Slack'
          <6>1. latest <= t + slack
            BY <1>2, <1>3 DEF Slack
          <6>2. slack \in Nat
            BY <1>2, <1>3 DEF Slack
          <6>3. rest[i] \in Nat /\ rest[i] <= latest
            BY <1>3, <5>1
          <6>4. Append(rest, t)[j] = t /\ t \in Nat /\ latest \in Nat
            BY <1>3, <2>0, <5>2
          <6> HIDE DEF slack
          <6>5. rest[i] <= t + slack
            BY <6>1, <6>2, <6>3, <6>4
          <6> QED BY <5>1, <6>4, <6>5 DEF slack
        <5>3. CASE j # n
          <6>1. j \in 1..Len(rest) /\ Append(rest, t)[j] = rest[j]
            BY <2>0, <5>3
          <6> QED BY <1>8, <4>1, <5>1, <6>1
        <5> QED BY <5>2, <5>3
      <4> QED BY <4>1
    <3>3. ASSUME NEW a \in Times, a > Horizon' PROVE Since(a)' <= Logged(Append(rest, t), a)
      <4>1. Since(a) <= Logged(rest, a) /\ a \in Int
        BY <1>3, <1>7, <3>3
      <4>2. Logged(Append(rest, t), a) = IF t >= a THEN Logged(rest, a) + 1 ELSE Logged(rest, a)
        BY <1>3, <1>5, <4>1, OneMoreLogged
      <4>3. Since(a)' = IF t >= a THEN Since(a) + 1 ELSE Since(a)
        <5>1. t \in a..MaxLimTime <=> t >= a
          BY <1>2, <1>3
        <5> QED BY <2>a, <5>1 DEF Since
      <4>4. Since(a) \in Nat
        BY <1>3, AllowedCounts DEF Since
      <4>5. Logged(rest, a) \in Nat
        <5>1. Logged(rest, a) \in 0..Len(rest)
          BY <1>5, LoggedFinite
        <5> QED BY <1>5, <5>1
      <4> QED BY <4>1, <4>2, <4>3, <4>4, <4>5
    <3> QED BY <1>10, <2>0, <3>1, <3>2, <3>3 DEF LogIsComplete
  <2>c. \A a \in Times : a > Horizon' => AllowedIn(allowedAt', a, MaxLimTime) <= Logged(Append(rest, t), a)
    BY <1>10, <2>1 DEF LogIsComplete, Since
  <2>2. LogIsExact'
    <3>1. ASSUME NEW u \in 0..MaxLimTime PROVE AllowedIn(allowedAt', u - (Window - Lost') + 1, u) <= Limit
      <4> DEFINE a == u - (Window - Lost') + 1
                 b == IF a < 0 THEN 0 ELSE a
      <4>0. Lost \in Nat /\ Lost' \in Nat /\ Lost <= Lost' /\ u \in Nat /\ a \in Int
        <5>1. Lost \in Nat /\ Lost' \in Nat /\ Lost <= Lost'
          BY <1>2, <1>3 DEF Lost
        <5> QED BY <1>3, <5>1
      <4>1. CASE t \in a..u
        <5>1. Horizon' < a /\ Horizon' \in Int
          <6>1. CASE laggard'
            <7>1. Horizon' = limNow - Window + MaxLag /\ Lost' = 2 * MaxLag
              BY <1>2, <6>1 DEF Horizon, Lost
            <7> QED BY <1>2, <1>3, <4>0, <4>1, <7>1
          <6>2. CASE ~laggard'
            <7>1. Horizon' = t - Window /\ Lost' = 0
              BY <1>2, <6>2 DEF Horizon, Lost
            <7> QED BY <1>2, <1>3, <4>0, <4>1, <7>1
          <6> QED BY <6>1, <6>2
        <5>2. b \in Times /\ b > Horizon' /\ a..u \cap Times \subseteq b..MaxLimTime
          <6> HIDE DEF a
          <6>1. a <= t /\ t <= u /\ t \in 0..MaxLimTime
            BY <1>2, <1>3, <4>0, <4>1
          <6>2. b \in Times
            BY <1>3, <4>0, <6>1
          <6>3. b > Horizon'
            BY <4>0, <5>1
          <6>4. a..u \cap Times \subseteq b..MaxLimTime
            BY <1>3, <4>0
          <6> QED BY <6>2, <6>3, <6>4
        <5> HIDE DEF b
        <5>3. AllowedIn(allowedAt', b, MaxLimTime) <= Logged(Append(rest, t), b)
          BY <2>c, <5>2
        <5>4. AllowedIn(allowedAt', a, u) <= AllowedIn(allowedAt', b, MaxLimTime)
          BY <2>b, <5>2, LongerHasMore
        <5>5. /\ AllowedIn(allowedAt', a, u) \in Nat /\ AllowedIn(allowedAt', b, MaxLimTime) \in Nat
              /\ Logged(Append(rest, t), b) \in 0..n
          BY <2>0, <2>b, AllowedCounts, LoggedFinite
        <5>6. n <= Limit /\ n \in Nat /\ Limit \in Nat
          BY <1>3, <1>5, <1>10, <2>0
        <5>7. AllowedIn(allowedAt', a, u) <= Limit
          <6> HIDE DEF a
          <6> QED BY <5>3, <5>4, <5>5, <5>6
        <5> QED BY <5>7
      <4>2. CASE t \notin a..u
        <5>1. AllowedIn(allowedAt', a, u) = AllowedIn(allowedAt, a, u)
          BY <2>a, <4>2
        <5>2. AllowedIn(allowedAt, u - (Window - Lost) + 1, u) <= Limit
          BY <1>1 DEF LogIsExact
        <5>3. a..u \cap Times \subseteq (u - (Window - Lost) + 1)..u
          <6>0. Window \in Int
            BY <1>3
          <6> DEFINE x == Lost
                     y == Lost'
          <6>1. x \in Nat /\ y \in Nat /\ x <= y /\ u \in Nat /\ a = u - (Window - y) + 1
            BY <4>0
          <6> HIDE DEF x, y, a
          <6>2. a..u \cap Times \subseteq (u - (Window - x) + 1)..u
            BY <1>3, <6>0, <6>1
          <6> QED BY <6>2 DEF x, y
        <5>4. AllowedIn(allowedAt, a, u) <= AllowedIn(allowedAt, u - (Window - Lost) + 1, u)
          BY <1>3, <5>3, LongerHasMore
        <5>5. AllowedIn(allowedAt, a, u) \in Nat /\ AllowedIn(allowedAt, u - (Window - Lost) + 1, u) \in Nat
          BY <1>3, AllowedCounts
        <5> QED BY <1>3, <5>1, <5>2, <5>4, <5>5
      <4> QED BY <4>1, <4>2
    <3> QED BY <3>1 DEF LogIsExact
  <2>3. entry' # None => entry' \in Seq(Nat)
    BY <1>10, <2>0 DEF Log
  <2> QED BY <1>2, <2>1, <2>2, <2>3 DEF EntriesOf
<1> QED BY <1>6, <1>9, <1>10

(* Products of naturals. *)
LEMMA CostAdds ==
    ASSUME NEW w \in Nat, NEW m \in Nat, NEW n \in Nat
    PROVE  w * m \in Nat /\ w * (m + n) = w * m + w * n /\ m * w \in Nat /\ (m + 1) * w = m * w + w
  OBVIOUS

(* The bucket takes a token when it has one. *)
LEMMA BucketDecides ==
    ASSUME algo = "bucket", NEW t \in Nat, NEW e, e # None => e \in EntriesOf(algo),
           NEW R, R = Refilled(e, t), NEW d, d = Decide(e, t)
    PROVE  /\ R \in Nat
           /\ ~d[2] => d[1] = [tokens |-> R, last |-> t, seen |-> t]
           /\ d[2] => d[1] = [tokens |-> R - Window, last |-> t, seen |-> t] /\ R - Window \in Nat
<1>1. Limit \in Nat /\ Window \in Nat /\ Limit * Window \in Nat
  BY LimiterAssumption, CostAdds
<1>2. e # None => e.tokens \in Nat /\ e.last \in Nat
  BY DEF EntriesOf
<1>3. R \in Nat
  <2>1. CASE e = None
    BY <1>1, <2>1 DEF Refilled
  <2>2. CASE e # None /\ t < e.last
    BY <1>2, <2>2 DEF Refilled
  <2>3. CASE e # None /\ ~(t < e.last)
    <3>1. t - e.last \in Nat
      BY <1>2, <2>3
    <3>2. e.tokens + Limit * (t - e.last) \in Nat
      BY <1>1, <1>2, <2>3, <3>1, CostAdds
    <3> QED BY <1>1, <2>3, <3>2 DEF Refilled
  <2> QED BY <2>1, <2>2, <2>3
<1>4. d = IF R < Window THEN <<[tokens |-> R, last |-> t, seen |-> t], FALSE>>
          ELSE <<[tokens |-> R - Window, last |-> t, seen |-> t], TRUE>>
  BY DEF Decide
<1>5. CASE R < Window
  BY <1>3, <1>4, <1>5
<1>6. CASE ~(R < Window)
  <2>1. R - Window \in Nat
    BY <1>1, <1>3, <1>6
  <2>2. d = <<[tokens |-> R - Window, last |-> t, seen |-> t], TRUE>>
    BY <1>4, <1>6
  <2> QED BY <1>3, <2>1, <2>2
<1> QED BY <1>5, <1>6

(* A sweep drops a bucket that is full again; one that is kept is refilled. *)
LEMMA BucketRefills ==
    ASSUME LimTypeOK, BucketBalances, algo = "bucket", NEW t \in Times, latest <= t,
           NEW e, e = AfterSweep(t), NEW R, R = Refilled(e, t)
    PROVE  /\ e = None => \A s \in 0..t : Since(s) * Window <= Limit * (t - s)
           /\ e # None => e = entry
           /\ R \in Nat /\ R <= Limit * Window
           /\ \A s \in 0..t : Since(s) * Window + R <= Limit * Window + Limit * (t - s)
<1>1. /\ Limit \in Nat /\ Window \in Nat /\ EntryTTL \in Nat /\ EntryTTL >= Window /\ Times = 0..MaxLimTime
      /\ MaxLimTime \in Nat /\ t \in Nat /\ latest \in Nat /\ Limit * Window \in Nat
      /\ allowedAt \in [Times -> Nat] /\ \A i \in Times : i > latest => allowedAt[i] = 0
  <2>1. /\ Limit \in Nat /\ Window \in Nat /\ EntryTTL \in Nat /\ EntryTTL >= Window /\ Times = 0..MaxLimTime
        /\ MaxLimTime \in Nat
    BY LimiterAssumption DEF Times
  <2> QED BY <2>1, CostAdds DEF LimTypeOK
<1>2. (e = entry \/ (e = None /\ entry # None /\ Expired(entry, t))) /\ (e # None => e = entry)
  BY SweptEntry
<1>3. entry # None => entry.tokens \in Nat /\ entry.last \in Nat /\ entry.seen = entry.last /\ entry.last <= latest
  BY DEF LimTypeOK, EntriesOf, BucketBalances
<1>4. \A s : Since(s) \in Nat /\ Since(s) * Window \in Nat
  <2>1. ASSUME NEW s PROVE Since(s) \in Nat
    BY <1>1, AllowedCounts DEF Since
  <2>2. \A n \in Nat : n * Window \in Nat
    BY <1>1, CostAdds
  <2> QED BY <2>1, <2>2
<1>5. ASSUME NEW s \in 0..t, s > latest \/ (entry # None /\ s > entry.last) PROVE Since(s) * Window = 0
  <2>1. \A i \in s..MaxLimTime \cap Times : allowedAt[i] = 0
    <3>1. CASE s > latest
      BY <1>1, <3>1
    <3>2. CASE entry # None /\ s > entry.last
      BY <1>1, <1>3, <3>2 DEF BucketBalances
    <3> QED BY <1>5, <3>1, <3>2
  <2>2. Since(s) = 0
    BY <1>1, <2>1, NoneAllowed DEF Since
  <2> QED BY <1>1, <2>2
<1>6. \A m, n \in Nat : Limit * m \in Nat /\ Limit * (m + n) = Limit * m + Limit * n
  BY <1>1, CostAdds
<1>7. ASSUME e = None PROVE \A s \in 0..t : Since(s) * Window <= Limit * (t - s)
  <2> SUFFICES ASSUME NEW s \in 0..t PROVE Since(s) * Window <= Limit * (t - s)
    OBVIOUS
  <2>0. t - s \in Nat /\ Limit * (t - s) \in Nat
    BY <1>1, <1>6
  <2>1. CASE entry = None /\ s <= latest
    <3>1. Since(s) * Window <= Limit * (latest - s)
      BY <1>1, <2>1 DEF BucketBalances
    <3>2. latest - s \in Nat /\ t - latest \in Nat /\ (latest - s) + (t - latest) = t - s
      BY <1>1, <2>1
    <3>3. /\ Limit * ((latest - s) + (t - latest)) = Limit * (latest - s) + Limit * (t - latest)
          /\ Limit * (latest - s) \in Nat /\ Limit * (t - latest) \in Nat
      BY <1>6, <3>2
    <3>4. Limit * (t - s) = Limit * (latest - s) + Limit * (t - latest)
      BY <3>2, <3>3
    <3> QED BY <1>4, <3>1, <3>3, <3>4
  <2>2. CASE entry # None /\ s <= entry.last
    <3>1. Since(s) * Window + entry.tokens <= Limit * Window + Limit * (entry.last - s)
      BY <1>1, <1>3, <2>2 DEF BucketBalances, Budgeted
    <3>2. entry.last + EntryTTL < t
      <4>1. Expired(entry, t)
        BY <1>2, <1>7, <2>2
      <4>2. entry.seen < t - EntryTTL
        BY <4>1 DEF Expired
      <4> QED BY <1>1, <1>3, <2>2, <4>2
    <3> DEFINE rest == t - (entry.last + Window)
    <3>3. /\ entry.last - s \in Nat /\ rest \in Nat /\ Window + (entry.last - s) \in Nat
          /\ (Window + (entry.last - s)) + rest = t - s
      <4>1. /\ entry.last \in Nat /\ s \in Nat /\ t \in Nat /\ Window \in Nat
            /\ s <= entry.last /\ entry.last + Window <= t
        BY <1>1, <1>3, <2>2, <3>2
      <4> QED BY <4>1
    <3> HIDE DEF rest
    <3>4. /\ Limit * (Window + (entry.last - s)) = Limit * Window + Limit * (entry.last - s)
          /\ Limit * ((Window + (entry.last - s)) + rest) = Limit * (Window + (entry.last - s)) + Limit * rest
          /\ Limit * rest \in Nat /\ Limit * (entry.last - s) \in Nat
      BY <1>1, <1>6, <3>3
    <3>5. Limit * (t - s) = Limit * Window + Limit * (entry.last - s) + Limit * rest
      BY <3>3, <3>4
    <3> DEFINE spent == Since(s) * Window
               full == Limit * Window
               later == Limit * (entry.last - s)
               idle == Limit * rest
               all == Limit * (t - s)
    <3>6. /\ spent \in Nat /\ full \in Nat /\ later \in Nat /\ idle \in Nat /\ entry.tokens \in Nat
          /\ spent + entry.tokens <= full + later /\ all = full + later + idle
      BY <1>1, <1>3, <1>4, <2>2, <3>1, <3>4, <3>5
    <3> HIDE DEF spent, full, later, idle, all
    <3>7. spent <= all
      BY <3>6
    <3> QED BY <3>7 DEF spent, all
  <2>3. CASE s > latest \/ (entry # None /\ s > entry.last)
    BY <1>5, <2>0, <2>3
  <2>4. s \in Int /\ latest \in Int /\ (entry # None => entry.last \in Int)
    BY <1>1, <1>3
  <2> QED BY <2>1, <2>2, <2>3, <2>4
<1>8. CASE e = None
  <2>1. R = Limit * Window
    BY <1>8 DEF Refilled
  <2>2. ASSUME NEW s \in 0..t PROVE Since(s) * Window + R <= Limit * Window + Limit * (t - s)
    <3>1. Since(s) * Window <= Limit * (t - s) /\ t - s \in Nat
      BY <1>1, <1>7, <1>8
    <3>2. Limit * (t - s) \in Nat
      BY <1>6, <3>1
    <3> QED BY <1>1, <1>4, <2>1, <3>1, <3>2
  <2> QED BY <1>1, <1>7, <1>8, <2>1, <2>2
<1>9. CASE e # None
  <2>1. e = entry /\ entry # None
    BY <1>2, <1>9
  <2> DEFINE tokens == entry.tokens
             passed == t - entry.last
             gained == tokens + Limit * passed
  <2>2. passed \in Nat /\ tokens \in Nat /\ Limit * passed \in Nat /\ gained \in Nat
    <3>1. passed \in Nat /\ tokens \in Nat
      BY <1>1, <1>3, <2>1
    <3>2. Limit * passed \in Nat
      BY <1>6, <3>1
    <3> HIDE DEF tokens, passed
    <3> QED BY <3>1, <3>2
  <2>3. R = IF gained > Limit * Window THEN Limit * Window ELSE gained
    <3>1. ~(t < entry.last)
      BY <1>1, <1>3, <2>1
    <3> QED BY <2>1, <3>1 DEF Refilled
  <2>4. R \in Nat /\ R <= Limit * Window /\ R <= gained
    <3> HIDE DEF gained
    <3> QED BY <1>1, <2>2, <2>3
  <2>5. ASSUME NEW s \in 0..t PROVE Since(s) * Window + R <= Limit * Window + Limit * (t - s)
    <3>0. s \in Nat /\ t - s \in Nat /\ Limit * (t - s) \in Nat
      BY <1>1, <1>6
    <3>1. CASE s <= entry.last
      <4>1. Since(s) * Window + tokens <= Limit * Window + Limit * (entry.last - s)
        BY <1>1, <1>3, <2>1, <3>0, <3>1 DEF BucketBalances, Budgeted
      <4>2. entry.last - s \in Nat /\ (entry.last - s) + passed = t - s
        BY <1>1, <1>3, <2>1, <3>0, <3>1
      <4> HIDE DEF passed, tokens
      <4>3. Limit * (t - s) = Limit * (entry.last - s) + Limit * passed /\ Limit * (entry.last - s) \in Nat
        BY <1>6, <2>2, <4>2
      <4>4. R <= tokens + Limit * passed
        BY <2>4
      <4> DEFINE spent == Since(s) * Window
                 full == Limit * Window
                 before == Limit * (entry.last - s)
                 refill == Limit * passed
                 all == Limit * (t - s)
      <4>5. /\ spent \in Nat /\ full \in Nat /\ before \in Nat /\ refill \in Nat /\ tokens \in Nat /\ R \in Nat
            /\ spent + tokens <= full + before /\ all = before + refill /\ R <= tokens + refill
        BY <1>1, <1>4, <2>2, <2>4, <4>1, <4>3, <4>4
      <4> HIDE DEF spent, full, before, refill, all
      <4>6. spent + R <= full + all
        BY <4>5
      <4> QED BY <4>6 DEF spent, full, all
    <3>2. CASE ~(s <= entry.last)
      <4>1. Since(s) * Window = 0
        BY <1>3, <1>5, <2>1, <3>0, <3>2
      <4> QED BY <1>1, <2>4, <3>0, <4>1
    <3> QED BY <3>1, <3>2
  <2> QED BY <1>9, <2>1, <2>4, <2>5
<1> QED BY <1>8, <1>9

(* TokenBucket: what it holds and what it gave stay within what was refilled. *)
LEMMA BucketKeeps ==
    ASSUME LimInv, NEW c \in LimCallers, Allow(c) \/ AllowOther(c), algo = "bucket"
    PROVE  /\ entry' # None => entry' \in EntriesOf(algo')
           /\ ~laggard' => BucketBalances' /\ BucketWithinBudget'
<1> DEFINE t == readAt[c]
           e == AfterSweep(t)
           R == Refilled(e, t)
           d == Decide(e, t)
<1>1. LimTypeOK /\ Locked(c)
  BY CallOutcome DEF LimInv
<1>2. /\ t \in Times /\ algo' = algo
      /\ ~laggard' => ~laggard /\ latest <= t /\ latest' = t
  BY <1>1, LimCallFacts
<1>3. /\ MaxLimTime \in Nat /\ Limit \in Nat /\ Window \in Nat /\ Limit * Window \in Nat /\ Times = 0..MaxLimTime
      /\ allowedAt \in [Times -> Nat] /\ latest \in Nat /\ t \in Nat
      /\ \A i \in Times : i > latest => allowedAt[i] = 0
      /\ entry # None => entry \in EntriesOf(algo)
  <2>1. MaxLimTime \in Nat /\ Limit \in Nat /\ Window \in Nat /\ Limit * Window \in Nat /\ Times = 0..MaxLimTime
    BY LimiterAssumption, CostAdds DEF Times
  <2> QED BY <1>1, <1>2, <2>1 DEF LimTypeOK
<1>4. e # None => e = entry /\ e \in EntriesOf(algo)
  BY <1>3, SweptEntry
<1>5. /\ R \in Nat
      /\ ~d[2] => d[1] = [tokens |-> R, last |-> t, seen |-> t]
      /\ d[2] => d[1] = [tokens |-> R - Window, last |-> t, seen |-> t] /\ R - Window \in Nat
  BY <1>3, <1>4, BucketDecides
<1>6. \/ entry' = e /\ allowedAt' = allowedAt
      \/ entry' = [tokens |-> R, last |-> t, seen |-> t] /\ allowedAt' = allowedAt
      \/ /\ entry' = [tokens |-> R - Window, last |-> t, seen |-> t] /\ R - Window \in Nat
         /\ allowedAt' = WithOne(allowedAt, t)
  <2>1. \/ entry' = e /\ allowedAt' = allowedAt
        \/ ~d[2] /\ entry' = d[1] /\ allowedAt' = allowedAt
        \/ d[2] /\ entry' = d[1] /\ allowedAt' = WithOne(allowedAt, t)
    BY <1>1, CallOutcome
  <2> HIDE DEF d, e, R, t
  <2> QED BY <1>5, <2>1
<1>7. entry' # None => entry' \in EntriesOf(algo')
  <2>1. \A n \in Nat : [tokens |-> n, last |-> t, seen |-> t] \in EntriesOf(algo)
    BY <1>3 DEF EntriesOf
  <2> HIDE DEF e, R
  <2> QED BY <1>2, <1>4, <1>5, <1>6, <2>1
<1>8. ASSUME ~laggard' PROVE BucketBalances' /\ BucketWithinBudget'
  <2>1. ~laggard /\ latest <= t /\ latest' = t /\ BucketBalances /\ BucketWithinBudget
    BY <1>2, <1>8 DEF LimInv, LocalLimitsHold
  <2>2. /\ e = None => \A s \in 0..t : Since(s) * Window <= Limit * (t - s)
        /\ R \in Nat /\ R <= Limit * Window
        /\ \A s \in 0..t : Since(s) * Window + R <= Limit * Window + Limit * (t - s)
    BY <1>1, <1>2, <2>1, BucketRefills
  <2>n. \A a, b : AllowedIn(allowedAt, a, b) \in Nat
    BY <1>3, AllowedCounts
  <2>m. \A n \in Nat : n * Window \in Nat /\ Limit * n \in Nat /\ (n + 1) * Window = n * Window + Window
    BY <1>3, CostAdds
  <2> HIDE DEF e, R, t, d
  <2>3. CASE entry' = e /\ allowedAt' = allowedAt
    <3>1. BucketBalances'
      <4>1. CASE e = None
        <5>1. \A s \in 0..latest' : Since(s)' * Window <= Limit * (latest' - s)
          BY <2>1, <2>2, <2>3, <4>1 DEF Since
        <5> QED BY <2>3, <4>1, <5>1 DEF BucketBalances
      <4>2. CASE e # None
        <5>1. e = entry /\ entry # None /\ entry' = entry
          BY <1>4, <2>3, <4>2
        <5>2. /\ entry.tokens <= Limit * Window /\ entry.seen = entry.last /\ entry.last <= latest
              /\ \A i \in Times : i > entry.last => allowedAt[i] = 0
              /\ Budgeted(entry.tokens, entry.last)
          BY <2>1, <5>1 DEF BucketBalances
        <5>3. entry.last <= t
          <6>1. entry.last \in Nat
            BY <1>1, <5>1 DEF LimTypeOK, EntriesOf
          <6> QED BY <1>3, <2>1, <5>2, <6>1
        <5>4. \A s \in 0..entry.last : Since(s)' * Window + entry.tokens <= Limit * Window + Limit * (entry.last - s)
          BY <2>3, <5>2 DEF Budgeted, Since
        <5>5. Budgeted(entry.tokens, entry.last)'
          BY <5>1, <5>4 DEF Budgeted
        <5> QED BY <2>1, <2>3, <5>1, <5>2, <5>3, <5>5 DEF BucketBalances
      <4> QED BY <4>1, <4>2
    <3>2. BucketWithinBudget'
      BY <1>2, <1>8, <2>1, <2>3 DEF BucketWithinBudget
    <3> QED BY <3>1, <3>2
  <2>4. CASE entry' = [tokens |-> R, last |-> t, seen |-> t] /\ allowedAt' = allowedAt
    <3>1. BucketBalances'
      <4>1. entry'.tokens = R /\ entry'.last = t /\ entry'.seen = t /\ entry' # None
        <5>1. entry' \in EntriesOf("bucket")
          BY <1>3, <2>2, <2>4 DEF EntriesOf
        <5> QED BY <2>4, <5>1, NoEntryAssumption
      <4>2. \A s \in 0..t : Since(s)' * Window + R <= Limit * Window + Limit * (t - s)
        BY <2>2, <2>4 DEF Since
      <4>3. Budgeted(entry.tokens, entry.last)'
        BY <4>1, <4>2 DEF Budgeted
      <4>4. \A i \in Times : i > t => allowedAt'[i] = 0
        BY <1>3, <2>1, <2>4
      <4> QED BY <1>3, <2>1, <2>2, <4>1, <4>3, <4>4 DEF BucketBalances
    <3>2. BucketWithinBudget'
      BY <1>2, <1>8, <2>1, <2>4 DEF BucketWithinBudget
    <3> QED BY <3>1, <3>2
  <2>5. CASE /\ entry' = [tokens |-> R - Window, last |-> t, seen |-> t] /\ R - Window \in Nat
             /\ allowedAt' = WithOne(allowedAt, t)
    <3>a. ASSUME NEW a, NEW b
          PROVE  /\ t \in a..b => AllowedIn(allowedAt', a, b) = AllowedIn(allowedAt, a, b) + 1
                 /\ t \notin a..b => AllowedIn(allowedAt', a, b) = AllowedIn(allowedAt, a, b)
      BY <1>1, <1>2, <2>5, AllowedOnce
    <3>b. allowedAt' \in [Times -> Nat] /\ \A i \in Times \ {t} : allowedAt'[i] = allowedAt[i]
      BY <1>1, <1>2, <2>5, AllowedOnce
    <3>c. ASSUME NEW s \in 0..t
          PROVE  /\ AllowedIn(allowedAt', s, MaxLimTime) * Window = Since(s) * Window + Window
                 /\ Since(s) * Window \in Nat /\ t - s \in Nat /\ Limit * (t - s) \in Nat
                 /\ AllowedIn(allowedAt', s, MaxLimTime) * Window <= Limit * Window + Limit * (t - s)
                 /\ AllowedIn(allowedAt', s, MaxLimTime) * Window + (R - Window) <= Limit * Window + Limit * (t - s)
      <4>1. t \in s..MaxLimTime /\ t - s \in Nat
        BY <1>2, <1>3
      <4>2. AllowedIn(allowedAt', s, MaxLimTime) = Since(s) + 1 /\ Since(s) \in Nat
        BY <2>n, <3>a, <4>1 DEF Since
      <4>3. /\ AllowedIn(allowedAt', s, MaxLimTime) * Window = Since(s) * Window + Window
            /\ Since(s) * Window \in Nat /\ Limit * (t - s) \in Nat
        BY <2>m, <4>1, <4>2
      <4> DEFINE spent == AllowedIn(allowedAt', s, MaxLimTime) * Window
                 before == Since(s) * Window
                 full == Limit * Window
                 all == Limit * (t - s)
      <4>4. /\ spent = before + Window /\ before \in Nat /\ full \in Nat /\ all \in Nat /\ Window \in Nat
            /\ R - Window \in Nat /\ R \in Nat /\ before + R <= full + all
        BY <1>3, <2>2, <2>5, <4>3
      <4> HIDE DEF spent, before, full, all
      <4>5. spent <= full + all /\ spent + (R - Window) <= full + all
        BY <4>4
      <4> QED BY <4>1, <4>3, <4>5 DEF spent, before, full, all
    <3>1. BucketBalances'
      <4>1. entry'.tokens = R - Window /\ entry'.last = t /\ entry'.seen = t /\ entry' # None
        <5>1. entry' \in EntriesOf("bucket")
          BY <1>3, <2>5 DEF EntriesOf
        <5> QED BY <2>5, <5>1, NoEntryAssumption
      <4>2. \A s \in 0..t : Since(s)' * Window + (R - Window) <= Limit * Window + Limit * (t - s)
        BY <3>c DEF Since
      <4>3. Budgeted(entry.tokens, entry.last)'
        BY <4>1, <4>2 DEF Budgeted
      <4>4. \A i \in Times : i > t => allowedAt'[i] = 0
        BY <1>3, <2>1, <3>b
      <4>5. R - Window <= Limit * Window
        <5> DEFINE full == Limit * Window
        <5>1. R <= full /\ full \in Nat /\ Window \in Nat /\ R \in Nat
          BY <1>3, <2>2
        <5> HIDE DEF full
        <5>2. R - Window <= full
          BY <5>1
        <5> QED BY <5>2 DEF full
      <4> QED BY <1>3, <2>1, <4>1, <4>3, <4>4, <4>5 DEF BucketBalances
    <3>2. BucketWithinBudget'
      <4>1. ASSUME NEW s \in 0..MaxLimTime, NEW u \in 0..MaxLimTime, s <= u
            PROVE  AllowedIn(allowedAt', s, u) * Window <= Limit * Window + Limit * (u - s)
        <5>1. CASE t \in s..u
          <6>1. s \in 0..t /\ u - t \in Nat /\ t - s \in Nat /\ (t - s) + (u - t) = u - s
            BY <1>3, <4>1, <5>1
          <6>2. AllowedIn(allowedAt', s, u) <= AllowedIn(allowedAt', s, MaxLimTime)
            <7>1. s..u \cap Times \subseteq s..MaxLimTime
              BY <1>3
            <7> QED BY <3>b, <7>1, LongerHasMore
          <6>3. AllowedIn(allowedAt', s, u) \in Nat /\ AllowedIn(allowedAt', s, MaxLimTime) \in Nat
            BY <3>b, AllowedCounts
          <6> DEFINE spent == AllowedIn(allowedAt', s, u) * Window
                     inAll == AllowedIn(allowedAt', s, MaxLimTime) * Window
                     full == Limit * Window
                     before == Limit * (t - s)
                     after == Limit * (u - t)
                     all == Limit * (u - s)
          <6>4. spent <= inAll
            BY <1>3, <6>2, <6>3, Longer
          <6>5. inAll <= full + before
            BY <3>c, <6>1
          <6>6. all = before + after
            <7>1. Limit * ((t - s) + (u - t)) = before + after
              BY <1>3, <6>1, CostAdds
            <7> QED BY <6>1, <7>1
          <6>7. spent \in Nat /\ inAll \in Nat /\ full \in Nat /\ before \in Nat /\ after \in Nat
            BY <1>3, <2>m, <6>1, <6>3
          <6> HIDE DEF spent, inAll, full, before, after, all
          <6>8. spent <= full + all
            BY <6>4, <6>5, <6>6, <6>7
          <6> QED BY <6>8 DEF spent, full, all
        <5>2. CASE t \notin s..u
          <6>1. AllowedIn(allowedAt', s, u) = AllowedIn(allowedAt, s, u)
            BY <3>a, <5>2
          <6>2. AllowedIn(allowedAt, s, u) * Window <= Limit * Window + Limit * (u - s)
            BY <2>1, <4>1 DEF BucketWithinBudget
          <6> QED BY <6>1, <6>2
        <5> QED BY <5>1, <5>2
      <4> QED BY <4>1 DEF BucketWithinBudget
    <3> QED BY <3>1, <3>2
  <2> QED BY <1>6, <2>3, <2>4, <2>5
<1> QED BY <1>7, <1>8

-----------------------------------------------------------------------------
(* No call has come. *)
LEMMA LimStarts == ASSUME LimInit PROVE LimInv
<1>1. /\ MaxLimTime \in Nat /\ Times = 0..MaxLimTime /\ Limit \in Nat \ {0} /\ Window \in Nat \ {0} /\ MaxLag \in Nat
      /\ 0 \in Times
  BY LimiterAssumption DEF Times
<1>2. allowedAt = [t \in Times |-> 0] /\ allowedAt \in [Times -> Nat] /\ entry = None /\ latest = 0 /\ ~laggard
  BY <1>1 DEF LimInit
<1>3. \A a, b : AllowedIn(allowedAt, a, b) = 0
  BY <1>2, NoneAllowed
<1>4. LimTypeOK
  <2>1. readAt = [d \in LimCallers |-> readAt[d]] /\ \A d \in LimCallers : readAt[d] = None
    BY DEF LimInit
  <2>2. limNow = 0 /\ algo \in {"fixed", "log", "counter", "bucket"} /\ laggard \in BOOLEAN
    BY DEF LimInit
  <2>3. \A i \in Times : allowedAt[i] = 0
    BY <1>2
  <2>4. limNow \in Times /\ latest \in 0..limNow
    BY <1>1, <1>2, <2>2
  <2> QED BY <1>2, <2>1, <2>2, <2>3, <2>4 DEF LimTypeOK
<1>5. WindowCounted
  BY <1>1, <1>2 DEF WindowCounted
<1>6. LogIsComplete
  <2>1. Log = <<>> /\ Len(Log) = 0 /\ 1..0 = {}
    BY <1>2 DEF Log
  <2>2. ASSUME NEW a \in Times PROVE Since(a) <= Logged(Log, a)
    <3>1. Log \in Seq(Nat)
      BY <2>1
    <3>2. Logged(Log, a) \in 0..0
      BY <2>1, <3>1, LoggedFinite
    <3> QED BY <1>3, <3>2 DEF Since
  <2> QED BY <2>1, <2>2 DEF LogIsComplete
<1>7. \A n \in Nat : Limit * n \in Nat /\ 0 * Window = 0
  BY <1>1, CostAdds
<1>8. BucketBalances
  <2>1. ASSUME NEW s \in 0..latest PROVE Since(s) * Window <= Limit * (latest - s)
    BY <1>2, <1>3, <1>7 DEF Since
  <2> QED BY <1>2, <2>1 DEF BucketBalances
<1>9. WindowsWithinLimit /\ LogIsExact
  BY <1>1, <1>3 DEF WindowsWithinLimit, LogIsExact
<1>10. BucketWithinBudget
  <2>1. ASSUME NEW s \in 0..MaxLimTime, NEW t \in 0..MaxLimTime, s <= t
        PROVE  AllowedIn(allowedAt, s, t) * Window <= Limit * Window + Limit * (t - s)
    <3>1. t - s \in Nat /\ Limit * (t - s) \in Nat /\ Limit * Window \in Nat
      BY <1>1, <1>7, <2>1
    <3> QED BY <1>3, <1>7, <3>1
  <2> QED BY <2>1 DEF BucketWithinBudget
<1> QED BY <1>4, <1>5, <1>6, <1>8, <1>9, <1>10 DEF LimInv, LocalLimitsHold

(* A call leaves the state well typed. *)
LEMMA LimCallTypes ==
    ASSUME LimInv, NEW c \in LimCallers, Allow(c) \/ AllowOther(c), entry' # None => entry' \in EntriesOf(algo')
    PROVE  LimTypeOK'
<1> DEFINE t == readAt[c]
<1>1. LimTypeOK /\ Locked(c)
  BY CallOutcome DEF LimInv
<1>2. /\ t \in Times /\ t \in 0..limNow
      /\ latest' \in 0..limNow /\ t <= latest' /\ latest <= latest'
      /\ laggard' \in BOOLEAN /\ limNow' = limNow /\ algo' = algo
      /\ readAt' = [d \in LimCallers |-> readAt'[d]]
      /\ \A d \in LimCallers : readAt'[d] # None => readAt'[d] = readAt[d]
  BY <1>1, LimCallFacts
<1>3. allowedAt' \in [Times -> Nat] /\ \A i \in Times : i # t => allowedAt'[i] = allowedAt[i]
  <2>1. allowedAt' = allowedAt \/ allowedAt' = WithOne(allowedAt, t)
    BY <1>1, CallOutcome
  <2>2. CASE allowedAt' = allowedAt
    BY <1>1, <2>2 DEF LimTypeOK
  <2>3. CASE allowedAt' = WithOne(allowedAt, t)
    BY <1>1, <1>2, <2>3, AllowedOnce
  <2> QED BY <2>1, <2>2, <2>3
<1>4. \A i \in Times : i > latest' => allowedAt'[i] = 0
  <2>1. latest \in Nat /\ latest' \in Nat /\ t \in Nat /\ Times \subseteq Nat /\ \A i \in Times : i > latest => allowedAt[i] = 0
    BY <1>1, <1>2, LimiterAssumption DEF LimTypeOK, Times
  <2>2. ASSUME NEW i \in Times, i > latest' PROVE allowedAt'[i] = 0
    BY <1>2, <1>3, <2>1, <2>2
  <2> QED BY <2>2
<1> QED BY <1>1, <1>2, <1>3, <1>4 DEF LimTypeOK

(* Every call keeps it. *)
LEMMA LimCallKeeps == ASSUME LimInv, NEW c \in LimCallers, Allow(c) \/ AllowOther(c) PROVE LimInv'
<1>1. algo \in {"fixed", "log", "counter", "bucket"} /\ algo' = algo
  <2>1. LimTypeOK /\ Locked(c)
    BY CallOutcome DEF LimInv
  <2> QED BY <2>1 DEF LimTypeOK, Locked
<1>2. CASE algo \in {"fixed", "counter"}
  <2>1. /\ entry' # None => entry' \in EntriesOf(algo')
        /\ ~laggard' => WindowCounted' /\ WindowsWithinLimit'
    BY <1>2, WindowKeeps
  <2>2. LimTypeOK'
    BY <2>1, LimCallTypes
  <2>3. WindowsWithinLimit' /\ LogIsExact' /\ BucketWithinBudget'
    BY <1>1, <1>2, <2>1 DEF WindowsWithinLimit, LogIsExact, BucketWithinBudget
  <2> QED BY <1>1, <1>2, <2>1, <2>2, <2>3 DEF LimInv, LocalLimitsHold
<1>3. CASE algo = "log"
  <2>1. (entry' # None => entry' \in EntriesOf(algo')) /\ LogIsComplete' /\ LogIsExact'
    BY <1>3, LogKeeps
  <2>2. LimTypeOK'
    BY <2>1, LimCallTypes
  <2>3. WindowsWithinLimit' /\ LogIsExact' /\ BucketWithinBudget'
    BY <1>1, <1>3, <2>1 DEF WindowsWithinLimit, BucketWithinBudget
  <2> QED BY <1>1, <1>3, <2>1, <2>2, <2>3 DEF LimInv, LocalLimitsHold
<1>4. CASE algo = "bucket"
  <2>1. /\ entry' # None => entry' \in EntriesOf(algo')
        /\ ~laggard' => BucketBalances' /\ BucketWithinBudget'
    BY <1>4, BucketKeeps
  <2>2. LimTypeOK'
    BY <2>1, LimCallTypes
  <2>3. WindowsWithinLimit' /\ LogIsExact' /\ BucketWithinBudget'
    BY <1>1, <1>4, <2>1 DEF WindowsWithinLimit, LogIsExact, BucketWithinBudget
  <2> QED BY <1>1, <1>4, <2>1, <2>2, <2>3 DEF LimInv, LocalLimitsHold
<1> QED BY <1>1, <1>2, <1>3, <1>4

(* So do the clock and its readers. *)
LEMMA LimClockKeeps == ASSUME LimInv, PassLimTime \/ \E c \in LimCallers : ReadClock(c) PROVE LimInv'
<1>1. /\ algo' = algo /\ entry' = entry /\ allowedAt' = allowedAt /\ latest' = latest /\ laggard' = laggard
      /\ limNow' \in {limNow, limNow + 1} /\ LimTypeOK
  BY DEF PassLimTime, ReadClock, LimInv
<1>2. MaxLimTime \in Nat /\ Times = 0..MaxLimTime /\ MaxLag \in Nat /\ Window \in Nat /\ limNow \in Nat /\ latest \in Nat
  <2>1. MaxLimTime \in Nat /\ Times = 0..MaxLimTime /\ MaxLag \in Nat /\ Window \in Nat
    BY LimiterAssumption DEF Times
  <2> QED BY <1>1, <2>1 DEF LimTypeOK
<1>3. LimTypeOK'
  <2>1. CASE PassLimTime
    <3>1. limNow' = limNow + 1 /\ limNow' \in Times /\ readAt' = readAt /\ latest \in 0..limNow'
      BY <1>1, <1>2, <2>1 DEF PassLimTime, LimTypeOK
    <3>2. ASSUME NEW d \in LimCallers, readAt[d] # None
          PROVE  readAt[d] \in 0..(limNow + 1) /\ (limNow + 1) - readAt[d] <= MaxLag
      <4>1. readAt[d] \in 0..limNow /\ limNow - readAt[d] < MaxLag
        BY <1>1, <2>1, <3>2 DEF PassLimTime, LimTypeOK
      <4> QED BY <1>2, <4>1
    <3> QED BY <1>1, <3>1, <3>2 DEF LimTypeOK
  <2>2. CASE \E c \in LimCallers : ReadClock(c)
    <3>1. PICK c \in LimCallers : ReadClock(c)
      BY <2>2
    <3>2. readAt' = [readAt EXCEPT ![c] = limNow] /\ limNow' = limNow
      BY <3>1 DEF ReadClock
    <3>3. readAt' = [d \in LimCallers |-> IF d = c THEN limNow ELSE readAt[d]]
      BY <1>1, <3>2 DEF LimTypeOK
    <3>4. ASSUME NEW d \in LimCallers, readAt'[d] # None
          PROVE  readAt'[d] \in 0..limNow /\ limNow - readAt'[d] <= MaxLag
      <4>1. CASE d = c
        BY <1>2, <3>3, <4>1
      <4>2. CASE d # c
        BY <1>1, <3>3, <3>4, <4>2 DEF LimTypeOK
      <4> QED BY <4>1, <4>2
    <3>5. readAt' = [d \in LimCallers |-> readAt'[d]]
      BY <3>3
    <3> QED BY <1>1, <3>2, <3>4, <3>5 DEF LimTypeOK
  <2> QED BY <2>1, <2>2
<1>4. ~laggard' /\ algo' \in {"fixed", "counter"} => WindowCounted'
  BY <1>1 DEF LimInv, WindowCounted, CountOf
<1>5. algo' = "log" => LogIsComplete'
  <2>1. ASSUME algo = "log" PROVE LogIsComplete'
    <3>1. LogIsComplete /\ Log' = Log /\ Slack' = Slack
      BY <1>1, <2>1 DEF LimInv, Log, Slack
    <3>2. ASSUME NEW a \in Times, a > Horizon' PROVE a > Horizon
      <4>1. CASE laggard
        <5> DEFINE now == limNow'
                   before == Horizon
                   after == Horizon'
        <5>1. before = limNow - Window + MaxLag /\ after = now - Window + MaxLag
          BY <1>1, <4>1 DEF Horizon
        <5>2. now \in Nat /\ limNow <= now
          BY <1>1, <1>2
        <5>3. a > after /\ a \in Nat
          BY <1>2, <3>2
        <5> HIDE DEF now, before, after
        <5>4. a > before
          BY <1>2, <5>1, <5>2, <5>3
        <5> QED BY <5>4 DEF before
      <4>2. CASE ~laggard
        BY <1>1, <3>2, <4>2 DEF Horizon
      <4> QED BY <4>1, <4>2
    <3>3. \A a \in Times : a > Horizon' => Since(a)' <= Logged(Log, a)
      BY <1>1, <3>1, <3>2 DEF LogIsComplete, Since
    <3>4. /\ \A k \in 1..Len(Log) : Log[k] \in 0..latest'
          /\ \A j, k \in 1..Len(Log) : j < k => Log[j] <= Log[k] + Slack'
      BY <1>1, <3>1 DEF LogIsComplete
    <3> QED BY <3>1, <3>3, <3>4 DEF LogIsComplete
  <2> QED BY <1>1, <2>1
<1>6. ~laggard' /\ algo' = "bucket" => BucketBalances'
  BY <1>1 DEF LimInv, BucketBalances, Budgeted, Since
<1>7. LocalLimitsHold'
  BY <1>1 DEF LimInv, LocalLimitsHold, WindowsWithinLimit, LogIsExact, Lost, BucketWithinBudget
<1> QED BY <1>3, <1>4, <1>5, <1>6, <1>7 DEF LimInv

(* The inductive invariant holds in every state. *)
THEOREM LimInvariant == LimSpec => []LimInv
<1>1. LimInit => LimInv
  BY LimStarts
<1>2. LimInv /\ [LimNext]_limVars => LimInv'
  <2> SUFFICES ASSUME LimInv, [LimNext]_limVars PROVE LimInv'
    OBVIOUS
  <2>1. CASE LimNext
    BY <2>1, LimCallKeeps, LimClockKeeps DEF LimNext
  <2>2. CASE UNCHANGED limVars
    BY <2>2 DEF limVars, LimInv, LimTypeOK, WindowCounted, CountOf, LogIsComplete, Log, Slack, Horizon, Since,
                BucketBalances, Budgeted, LocalLimitsHold, WindowsWithinLimit, LogIsExact, Lost, BucketWithinBudget
  <2> QED BY <2>1, <2>2
<1> QED BY <1>1, <1>2, PTL DEF LimSpec

(* The four limiters of one process keep what each can promise, for any    *)
(* number of callers that read the clock before they take the mutex: no    *)
(* aligned window beyond the limit, no stretch of the log, no more than    *)
(* the burst and what has been refilled; with a late caller, the log in a  *)
(* stretch shorter by its lag.                                             *)
THEOREM LocalLimitsStay == LimSpec => []LocalLimitsHold
<1>1. LimInv => LocalLimitsHold
  BY DEF LimInv
<1> QED BY <1>1, LimInvariant, PTL

-----------------------------------------------------------------------------
(* The ring buffer and the matchmaker. *)

(* Where a sum comes to lie in a buffer of n slots. *)
Wrapped(n, x) == IF x < n THEN x ELSE x - n

(* A remainder of a number below twice n, without the remainder. *)
LEMMA WrapFacts ==
    ASSUME NEW n \in Nat \ {0}, NEW x \in 0..(2 * n - 1)
    PROVE  x % n = Wrapped(n, x)
<1> USE DEF Wrapped
<1>1. CASE x < n
  <2>1. x \div n = 0
    BY <1>1
  <2> QED  BY <1>1, <2>1
<1>2. CASE x >= n
  <2>1. x \div n = 1
    BY <1>2
  <2> QED  BY <1>2, <2>1
<1> QED  BY <1>1, <1>2

(* RemoveFirst, where the player is in the line once. *)
LEMMA RemovedOne ==
    ASSUME NEW S, NEW s \in Seq(S), NEW p, NEW i \in 1..Len(s), s[i] = p,
           \A j \in 1..Len(s) : s[j] = p => j = i
    PROVE  RemoveFirst(s, p) = [j \in 1..(Len(s) - 1) |-> IF j < i THEN s[j] ELSE s[j + 1]]
<1>1. RemoveFirst(s, p) = RemoveAt(s, SelectInSeq(s, LAMBDA v : v = p))
  BY DEF RemoveFirst
<1>2. SelectInSeq(s, LAMBDA v : v = p) = i
  <2>1. {j \in 1..Len(s) : s[j] = p} = {i}
    OBVIOUS
  <2>2. Min({i}) = i
    BY DEF Min
  <2> QED  BY <2>1, <2>2 DEF SelectInSeq
<1>3. RemoveAt(s, i) = SubSeq(s, 1, i - 1) \o SubSeq(s, i + 1, Len(s))
  BY DEF RemoveAt
<1>4. /\ SubSeq(s, 1, i - 1) \in Seq(S) /\ Len(SubSeq(s, 1, i - 1)) = i - 1
      /\ \A j \in 1..(i - 1) : SubSeq(s, 1, i - 1)[j] = s[j]
  OBVIOUS
<1>5. /\ SubSeq(s, i + 1, Len(s)) \in Seq(S) /\ Len(SubSeq(s, i + 1, Len(s))) = Len(s) - i
      /\ \A j \in 1..(Len(s) - i) : SubSeq(s, i + 1, Len(s))[j] = s[i + j]
  OBVIOUS
<1>6. PICK a \in Seq(S), b \in Seq(S) : a = SubSeq(s, 1, i - 1) /\ b = SubSeq(s, i + 1, Len(s))
  BY <1>4, <1>5
<1>7. /\ a \o b \in Seq(S) /\ Len(a \o b) = Len(a) + Len(b)
      /\ \A j \in 1..(Len(a) + Len(b)) : (a \o b)[j] = IF j <= Len(a) THEN a[j] ELSE b[j - Len(a)]
  BY ConcatProperties
<1>8. /\ Len(a) = i - 1 /\ Len(b) = Len(s) - i
      /\ \A j \in 1..(i - 1) : a[j] = s[j]
      /\ \A j \in 1..(Len(s) - i) : b[j] = s[i + j]
  BY <1>4, <1>5, <1>6
<1>9. PICK c \in Seq(S) : c = a \o b
  BY <1>7
<1>10. Len(c) = Len(s) - 1 /\ \A j \in 1..(Len(s) - 1) : c[j] = IF j < i THEN s[j] ELSE s[j + 1]
  <2>1. Len(a) + Len(b) = Len(s) - 1
    BY <1>8
  <2> SUFFICES ASSUME NEW j \in 1..(Len(s) - 1) PROVE c[j] = IF j < i THEN s[j] ELSE s[j + 1]
    BY <1>7, <1>9, <2>1
  <2>2. CASE j < i
    BY <1>7, <1>8, <1>9, <2>1, <2>2
  <2>3. CASE ~(j < i)
    <3>1. PICK k \in Int : k = j - (i - 1)
      OBVIOUS
    <3>2. c[j] = b[k] /\ k \in 1..(Len(s) - i) /\ i + k = j + 1
      <4>1. k \in 1..(Len(s) - i) /\ i + k = j + 1 /\ ~(j <= Len(a)) /\ j - Len(a) = k
        BY <1>8, <2>3, <3>1
      <4>2. j \in 1..(Len(a) + Len(b))
        BY <2>1
      <4>3. c[j] = b[j - Len(a)]
        BY <1>7, <1>9, <4>1, <4>2
      <4> QED  BY <4>1, <4>3
    <3> QED  BY <1>8, <2>3, <3>2
  <2> QED  BY <2>2, <2>3
<1>11. c = [j \in 1..(Len(s) - 1) |-> IF j < i THEN s[j] ELSE s[j + 1]]
  BY <1>10
<1> QED  BY <1>1, <1>2, <1>3, <1>6, <1>9, <1>11

-----------------------------------------------------------------------------
(* How far slot i is behind the head, what lies d slots behind the head, and
   what lies before it; slots are counted from 0, as in the code, but for i. *)
Behinds(n, h, i) == IF i - 1 >= h THEN i - 1 - h ELSE i - 1 - h + n
Onward(n, h, d) == Wrapped(n, h + d)
Backward(n, h) == Wrapped(n, h - 1 + n)

(* How far a slot is behind head, and what head moving on or back makes of *)
(* it.                                                                     *)
LEMMA BehindsFacts ==
    ASSUME NEW n \in Nat \ {0}, NEW h \in 0..(n - 1), NEW i \in 1..n
    PROVE  /\ Behinds(n, h, i) \in 0..(n - 1)
           /\ i = Onward(n, h, Behinds(n, h, i)) + 1
           /\ Behinds(n, Onward(n, h, 1), i) =
                  IF Behinds(n, h, i) = 0 THEN n - 1 ELSE Behinds(n, h, i) - 1
           /\ Behinds(n, Backward(n, h), i) =
                  IF Behinds(n, h, i) = n - 1 THEN 0 ELSE Behinds(n, h, i) + 1
           /\ i = h + 1 <=> Behinds(n, h, i) = 0
           /\ i = Backward(n, h) + 1 <=> Behinds(n, h, i) = n - 1
           /\ Wrapped(n, i) + 1 \in 1..n
           /\ Behinds(n, h, Wrapped(n, i) + 1) =
                  IF Behinds(n, h, i) = n - 1 THEN 0 ELSE Behinds(n, h, i) + 1
BY DEF Behinds, Wrapped, Onward, Backward

(* The slot some places on, and what head moving on or back makes of it. *)
LEMMA OnwardFacts ==
    ASSUME NEW n \in Nat \ {0}, NEW h \in 0..(n - 1), NEW d \in 0..(n - 1)
    PROVE  /\ Onward(n, h, d) \in 0..(n - 1)
           /\ Behinds(n, h, Onward(n, h, d) + 1) = d
           /\ Wrapped(n, Onward(n, h, d) + 1) = Onward(n, h, d + 1)
           /\ Onward(n, Backward(n, h), d + 1) = Onward(n, h, d)
           /\ Onward(n, Onward(n, h, 1), d) = Onward(n, h, d + 1)
           /\ \A i \in 1..n : i = Onward(n, h, d) + 1 <=> Behinds(n, h, i) = d
BY DEF Behinds, Wrapped, Onward, Backward

(* The slot behind head. *)
LEMMA BackwardFacts ==
    ASSUME NEW n \in Nat \ {0}, NEW h \in 0..(n - 1)
    PROVE  Backward(n, h) \in 0..(n - 1) /\ (h - 1 + n) % n = Backward(n, h)
<1>1. h - 1 + n \in 0..(2 * n - 1)
  OBVIOUS
<1>2. (h - 1 + n) % n = Wrapped(n, h - 1 + n)
  BY <1>1, WrapFacts
<1> QED  BY <1>1, <1>2 DEF Backward, Wrapped

(* The remainders of the code are Onward. *)
LEMMA ModFacts ==
    ASSUME NEW n \in Nat \ {0}, NEW h \in 0..(n - 1), NEW d \in 0..n
    PROVE  (h + d) % n = Onward(n, h, d)
<1>1. h + d \in 0..(2 * n - 1)
  OBVIOUS
<1> QED  BY <1>1, WrapFacts DEF Onward

(* The buffer q holds the line s, and nothing else. *)
Holds(q, s) ==
    /\ s \in Seq(Players)
    /\ q \in [items : Seq(Players \cup {None}), head : Nat, tail : Nat, count : Nat]
    /\ q.count = Len(s) /\ q.count <= Len(q.items)
    /\ IF Len(q.items) = 0 THEN q.head = 0 /\ q.tail = 0
       ELSE q.head < Len(q.items) /\ q.tail = Onward(Len(q.items), q.head, q.count)
    /\ \A i \in 1..Len(q.items) :
          q.items[i] = LET d == Behinds(Len(q.items), q.head, i)
                       IN  IF d < q.count THEN s[d + 1] ELSE None

(* The same in numbers, for a buffer that has room at all. *)
Buffer(f, h, t, c) == [items |-> f, head |-> h, tail |-> t, count |-> c]
Cells == Seq(Players \cup {None})

Laid(q, s, n, h, c, f) ==
    /\ q = Buffer(f, h, Onward(n, h, c), c) /\ Len(f) = n
    /\ s \in Seq(Players) /\ Len(s) = c
    /\ \A i \in 1..n : f[i] = IF Behinds(n, h, i) < c THEN s[Behinds(n, h, i) + 1] ELSE None

(* A buffer that holds a line, by its parts. *)
LEMMA HeldFacts ==
    ASSUME NEW q, NEW s, Holds(q, s), Len(q.items) # 0
    PROVE  \E n \in Nat \ {0} : \E h \in 0..(n - 1), c \in 0..n, f \in Cells : Laid(q, s, n, h, c, f)
<1>1. PICK n \in Nat \ {0} : n = Len(q.items)
  BY DEF Holds
<1>2. q.head \in 0..(n - 1) /\ q.count \in 0..n /\ q.items \in Cells
  BY <1>1 DEF Holds, Cells
<1>3. q = Buffer(q.items, q.head, Onward(n, q.head, q.count), q.count)
  BY <1>1 DEF Holds, Buffer
<1>4. Laid(q, s, n, q.head, q.count, q.items)
  BY <1>1, <1>3 DEF Holds, Laid
<1> QED  BY <1>2, <1>4

(* The parts of a buffer that holds a line. *)
LEMMA HoldsWhen ==
    ASSUME NEW n \in Nat \ {0}, NEW h \in 0..(n - 1), NEW c \in 0..n, NEW f \in Cells, NEW s, NEW q,
           Laid(q, s, n, h, c, f)
    PROVE  Holds(q, s)
<1>1. Onward(n, h, c) \in Nat
  BY DEF Onward, Wrapped
<1>2. q.items = f /\ q.head = h /\ q.tail = Onward(n, h, c) /\ q.count = c
  BY DEF Buffer, Laid
<1>3. q \in [items : Seq(Players \cup {None}), head : Nat, tail : Nat, count : Nat]
  BY <1>1 DEF Buffer, Cells, Laid
<1> QED  BY <1>2, <1>3 DEF Holds, Laid

(* The player i places behind the front. *)
LEMMA HeldThere ==
    ASSUME NEW q, NEW s, Holds(q, s), NEW i \in 0..(Len(s) - 1)
    PROVE  q.items[Behind(q, i)] = s[i + 1] /\ Behind(q, i) \in 1..Len(q.items)
<1>1. Len(q.items) # 0
  BY DEF Holds
<1>2. PICK n \in Nat \ {0} : \E h \in 0..(n - 1), c \in 0..n, f \in Cells : Laid(q, s, n, h, c, f)
  BY <1>1, HeldFacts
<1>3. PICK h \in 0..(n - 1), c \in 0..n, f \in Cells : Laid(q, s, n, h, c, f)
  BY <1>2
<1>4. i \in 0..(n - 1) /\ i < c
  BY <1>3 DEF Laid
<1>5. Behind(q, i) = Onward(n, h, i) + 1
  BY <1>3, <1>4, ModFacts DEF Behind, Buffer, Laid
<1>6. Onward(n, h, i) \in 0..(n - 1) /\ Behinds(n, h, Onward(n, h, i) + 1) = i
  BY <1>4, OnwardFacts
<1>7. Onward(n, h, i) + 1 \in 1..n
  BY <1>6
<1> QED  BY <1>3, <1>4, <1>5, <1>6, <1>7 DEF Buffer, Laid

(* Pop. *)
LEMMA PopHolds ==
    ASSUME NEW q, NEW s, Holds(q, s), s # <<>>
    PROVE  Holds(PopFront(q), Tail(s))
<1>1. Len(q.items) # 0
  BY DEF Holds
<1>2. PICK n \in Nat \ {0} : \E h \in 0..(n - 1), c \in 0..n, f \in Cells : Laid(q, s, n, h, c, f)
  BY <1>1, HeldFacts
<1>3. PICK h \in 0..(n - 1), c \in 0..n, f \in Cells : Laid(q, s, n, h, c, f)
  BY <1>2
<1> DEFINE g == Onward(n, h, 1)
<1>4. c - 1 \in 0..(n - 1)
  BY <1>3 DEF Laid
<1>5. (h + 1) % n = g /\ g \in 0..(n - 1) /\ Onward(n, g, c - 1) = Onward(n, h, c)
  <2>1. g \in 0..(n - 1)
    BY DEF Onward, Wrapped
  <2>2. Onward(n, g, c - 1) = Onward(n, h, (c - 1) + 1) /\ (c - 1) + 1 = c
    BY <1>4, OnwardFacts
  <2>3. 1 \in 0..n
    OBVIOUS
  <2> QED  BY <2>1, <2>2, <2>3, ModFacts
<1> DEFINE e == [f EXCEPT ![h + 1] = None]
<1>6. e \in Cells /\ Len(e) = n /\ \A i \in 1..n : e[i] = IF i = h + 1 THEN None ELSE f[i]
  <2>1. h + 1 \in 1..Len(f) /\ Len(f) = n /\ None \in Players \cup {None}
    BY <1>3 DEF Laid
  <2> QED  BY <2>1 DEF Cells
<1>a. PopFront(q) = Buffer([f EXCEPT ![h + 1] = None], (h + 1) % n, Onward(n, h, c), c - 1)
  <2>1. q = Buffer(f, h, Onward(n, h, c), c) /\ Len(f) = n
    BY <1>3 DEF Laid
  <2>2. PopFront(q) = [q EXCEPT !.items[h + 1] = None, !.head = (h + 1) % n, !.count = c - 1]
    BY <2>1 DEF PopFront, Buffer
  <2> QED  BY <2>1, <2>2 DEF Buffer
<1>7. PopFront(q) = Buffer(e, g, Onward(n, g, c - 1), c - 1)
  BY <1>5, <1>a
<1> DEFINE w == Tail(s)
<1>8. w \in Seq(Players) /\ Len(w) = c - 1 /\ \A j \in 1..(c - 1) : w[j] = s[j + 1]
  BY <1>3, HeadTailProperties DEF Laid
<1> HIDE DEF e, w, g
<1>9. ASSUME NEW i \in 1..n
      PROVE  e[i] = IF Behinds(n, g, i) < c - 1 THEN w[Behinds(n, g, i) + 1] ELSE None
  <2>1. PICK d \in 0..(n - 1) : d = Behinds(n, h, i)
    BY BehindsFacts
  <2>a. Behinds(n, g, i) = IF d = 0 THEN n - 1 ELSE d - 1
    BY <2>1, BehindsFacts DEF g
  <2>2. f[i] = IF d < c THEN s[d + 1] ELSE None
    BY <1>3, <2>1 DEF Laid
  <2>3. i = h + 1 <=> d = 0
    BY <2>1, BehindsFacts
  <2>4. d # 0 /\ d < c => w[(d - 1) + 1] = s[d + 1]
    BY <1>4, <1>8
  <2> QED  BY <1>4, <1>6, <2>a, <2>2, <2>3, <2>4
<1>10. Laid(PopFront(q), w, n, g, c - 1, e)
  BY <1>6, <1>7, <1>8, <1>9 DEF Laid
<1>11. c - 1 \in 0..n
  BY <1>4
<1> QED  BY <1>5, <1>6, <1>10, <1>11, HoldsWhen DEF w

(* Push and pushFront where there is room. *)
AtBack(q, v) ==
    [q EXCEPT !.items[q.tail + 1] = v, !.tail = (@ + 1) % Len(q.items), !.count = @ + 1]
AtFront(q, v) ==
    [q EXCEPT !.items[((q.head - 1 + Len(q.items)) % Len(q.items)) + 1] = v,
              !.head = (q.head - 1 + Len(q.items)) % Len(q.items), !.count = @ + 1]

(* Push, once there is room. *)
LEMMA BackHolds ==
    ASSUME NEW q, NEW s, Holds(q, s), NEW v \in Players, q.count < Len(q.items)
    PROVE  Holds(AtBack(q, v), Append(s, v))
<1>1. Len(q.items) # 0
  BY DEF Holds
<1>2. PICK n \in Nat \ {0} : \E h \in 0..(n - 1), c \in 0..n, f \in Cells : Laid(q, s, n, h, c, f)
  BY <1>1, HeldFacts
<1>3. PICK h \in 0..(n - 1), c \in 0..n, f \in Cells : Laid(q, s, n, h, c, f)
  BY <1>2
<1>4. c \in 0..(n - 1) /\ c + 1 \in 0..n
  BY <1>3 DEF Laid, Buffer
<1> DEFINE t == Onward(n, h, c)
<1>5. /\ t \in 0..(n - 1) /\ Wrapped(n, t + 1) = Onward(n, h, c + 1)
      /\ \A i \in 1..n : i = t + 1 <=> Behinds(n, h, i) = c
  BY <1>4, OnwardFacts
<1>a. AtBack(q, v) = [q EXCEPT !.items[t + 1] = v, !.tail = (t + 1) % n, !.count = c + 1]
  BY <1>3 DEF AtBack, Buffer, Laid
<1> HIDE DEF t
<1>6. (t + 1) % n = Onward(n, h, c + 1)
  <2>1. t + 1 \in 0..(2 * n - 1)
    BY <1>5
  <2> QED  BY <1>5, <2>1, WrapFacts
<1> DEFINE e == [f EXCEPT ![t + 1] = v]
<1>7. e \in Cells /\ Len(e) = n /\ \A i \in 1..n : e[i] = IF i = t + 1 THEN v ELSE f[i]
  <2>1. t + 1 \in 1..Len(f) /\ Len(f) = n
    BY <1>3, <1>5 DEF Laid
  <2>2. v \in Players \cup {None}
    OBVIOUS
  <2> QED  BY <2>1, <2>2 DEF Cells
<1>8. AtBack(q, v) = Buffer(e, h, Onward(n, h, c + 1), c + 1)
  BY <1>3, <1>a, <1>6 DEF Buffer, Laid
<1> DEFINE w == Append(s, v)
<1>9. w \in Seq(Players) /\ Len(w) = c + 1 /\ \A j \in 1..(c + 1) : w[j] = IF j = c + 1 THEN v ELSE s[j]
  BY <1>3 DEF Laid
<1> HIDE DEF e, w
<1>10. ASSUME NEW i \in 1..n
       PROVE  e[i] = IF Behinds(n, h, i) < c + 1 THEN w[Behinds(n, h, i) + 1] ELSE None
  <2>1. PICK d \in 0..(n - 1) : d = Behinds(n, h, i)
    BY BehindsFacts
  <2>2. f[i] = IF d < c THEN s[d + 1] ELSE None
    BY <1>3, <2>1 DEF Laid
  <2>3. e[i] = IF d = c THEN v ELSE f[i]
    BY <1>5, <1>7, <2>1
  <2>4. d < c + 1 => w[d + 1] = IF d = c THEN v ELSE s[d + 1]
    BY <1>9
  <2> QED  BY <1>4, <2>1, <2>2, <2>3, <2>4
<1>11. Laid(AtBack(q, v), w, n, h, c + 1, e)
  BY <1>7, <1>8, <1>9, <1>10 DEF Laid
<1> QED  BY <1>4, <1>7, <1>11, HoldsWhen DEF w

(* pushFront, once there is room. *)
LEMMA FrontHolds ==
    ASSUME NEW q, NEW s, Holds(q, s), NEW v \in Players, q.count < Len(q.items)
    PROVE  Holds(AtFront(q, v), <<v>> \o s)
<1>1. Len(q.items) # 0
  BY DEF Holds
<1>2. PICK n \in Nat \ {0} : \E h \in 0..(n - 1), c \in 0..n, f \in Cells : Laid(q, s, n, h, c, f)
  BY <1>1, HeldFacts
<1>3. PICK h \in 0..(n - 1), c \in 0..n, f \in Cells : Laid(q, s, n, h, c, f)
  BY <1>2
<1>4. c \in 0..(n - 1) /\ c + 1 \in 0..n
  BY <1>3 DEF Laid, Buffer
<1> DEFINE g == Backward(n, h)
<1>5. g \in 0..(n - 1) /\ Onward(n, g, c + 1) = Onward(n, h, c)
  BY <1>4, OnwardFacts, BackwardFacts
<1>6. (h - 1 + n) % n = g
  BY BackwardFacts
<1>b. ASSUME NEW i \in 1..n
      PROVE  /\ i = g + 1 <=> Behinds(n, h, i) = n - 1
             /\ Behinds(n, g, i) = IF Behinds(n, h, i) = n - 1 THEN 0 ELSE Behinds(n, h, i) + 1
  BY BehindsFacts
<1> HIDE DEF g
<1>a. AtFront(q, v) = [q EXCEPT !.items[g + 1] = v, !.head = g, !.count = c + 1]
  BY <1>3, <1>6 DEF AtFront, Buffer, Laid
<1> DEFINE e == [f EXCEPT ![g + 1] = v]
<1>7. e \in Cells /\ Len(e) = n /\ \A i \in 1..n : e[i] = IF i = g + 1 THEN v ELSE f[i]
  <2>1. g + 1 \in 1..Len(f) /\ Len(f) = n
    BY <1>3, <1>5 DEF Laid
  <2>2. v \in Players \cup {None}
    OBVIOUS
  <2> QED  BY <2>1, <2>2 DEF Cells
<1>8. AtFront(q, v) = Buffer(e, g, Onward(n, g, c + 1), c + 1)
  BY <1>3, <1>5, <1>a DEF Buffer, Laid
<1> DEFINE w == <<v>> \o s
<1>9. w \in Seq(Players) /\ Len(w) = c + 1 /\ \A j \in 1..(c + 1) : w[j] = IF j = 1 THEN v ELSE s[j - 1]
  <2>1. <<v>> \in Seq(Players) /\ Len(<<v>>) = 1 /\ <<v>>[1] = v
    OBVIOUS
  <2>2. s \in Seq(Players) /\ Len(s) = c
    BY <1>3 DEF Laid
  <2>3. /\ <<v>> \o s \in Seq(Players) /\ Len(<<v>> \o s) = 1 + c
        /\ \A j \in 1..(1 + c) : (<<v>> \o s)[j] = IF j <= 1 THEN <<v>>[j] ELSE s[j - 1]
    BY <2>1, <2>2, ConcatProperties
  <2> QED  BY <2>1, <2>3
<1> HIDE DEF e, w
<1>10. ASSUME NEW i \in 1..n
       PROVE  e[i] = IF Behinds(n, g, i) < c + 1 THEN w[Behinds(n, g, i) + 1] ELSE None
  <2>1. PICK d \in 0..(n - 1) : d = Behinds(n, h, i)
    BY BehindsFacts
  <2>2. f[i] = IF d < c THEN s[d + 1] ELSE None
    BY <1>3, <2>1 DEF Laid
  <2>3. e[i] = (IF d = n - 1 THEN v ELSE f[i]) /\ Behinds(n, g, i) = IF d = n - 1 THEN 0 ELSE d + 1
    BY <1>7, <1>b, <2>1
  <2>4. d # n - 1 /\ d + 1 < c + 1 => w[(d + 1) + 1] = s[d + 1]
    BY <1>9
  <2>5. w[0 + 1] = v
    BY <1>4, <1>9
  <2> QED  BY <1>4, <2>2, <2>3, <2>4, <2>5
<1>11. Laid(AtFront(q, v), w, n, g, c + 1, e)
  BY <1>7, <1>8, <1>9, <1>10 DEF Laid
<1> QED  BY <1>4, <1>5, <1>7, <1>11, HoldsWhen DEF w
(* What a queue holds, front to back. *)
LEMMA ContentsHeld ==
    ASSUME NEW q, NEW s, Holds(q, s)
    PROVE  Contents(q) = s
<1>1. s \in Seq(Players) /\ q.count = Len(s)
  BY DEF Holds
<1>2. \A i \in 1..Len(s) : q.items[Behind(q, i - 1)] = s[i]
  <2> TAKE i \in 1..Len(s)
  <2>1. i - 1 \in 0..(Len(s) - 1) /\ (i - 1) + 1 = i
    BY <1>1
  <2> QED  BY <2>1, HeldThere
<1> QED  BY <1>1, <1>2 DEF Contents

(* grow, when the buffer is full. *)
LEMMA RoomHolds ==
    ASSUME NEW q, NEW s, Holds(q, s)
    PROVE  Holds(Room(q), s) /\ Room(q).count < Len(Room(q).items)
<1>1. CASE q.count # Len(q.items)
  BY <1>1 DEF Room, Holds
<1>2. CASE q.count = Len(q.items)
  <2>1. PICK c \in Nat : c = q.count /\ c = Len(s) /\ c = Len(q.items) /\ s \in Seq(Players)
    BY <1>2 DEF Holds
  <2>2. q.items = <<>> <=> c = 0
    BY <2>1 DEF Holds
  <2> DEFINE m == IF c = 0 THEN 1 ELSE 2 * c
             e == [i \in 1..m |-> IF i <= c THEN s[i] ELSE None]
  <2>3. m \in Nat \ {0} /\ c \in 0..m /\ c < m /\ 0 \in 0..(m - 1)
    OBVIOUS
  <2>4. Grow(q) = Buffer(e, 0, c, c)
    BY <2>1, <2>2, ContentsHeld DEF Grow, Buffer
  <2> HIDE DEF m
  <2>5. e \in Cells /\ Len(e) = m /\ \A i \in 1..m : e[i] = IF i <= c THEN s[i] ELSE None
    <3>b. s \in Seq(Players) /\ Len(s) = c
      BY <2>1
    <3>a. \A i \in 1..c : s[i] \in Players
      BY <3>b, ElementOfSeq
    <3>1. \A i \in 1..m : i <= c => s[i] \in Players
      BY <2>3, <3>a
    <3>2. e \in [1..m -> Players \cup {None}]
      BY <3>1
    <3> QED  BY <2>3, <3>2 DEF Cells
  <2> HIDE DEF e
  <2>6. Onward(m, 0, c) = c /\ \A i \in 1..m : Behinds(m, 0, i) = i - 1
    BY <2>3 DEF Onward, Wrapped, Behinds
  <2>7. Laid(Grow(q), s, m, 0, c, e)
    BY <2>1, <2>3, <2>4, <2>5, <2>6 DEF Laid
  <2>8. Room(q) = Grow(q)
    BY <1>2 DEF Room
  <2> QED  BY <2>3, <2>4, <2>5, <2>7, <2>8, HoldsWhen DEF Buffer
<1> QED  BY <1>1, <1>2

(* Push. *)
LEMMA PushBackHolds ==
    ASSUME NEW q, NEW s, Holds(q, s), NEW v \in Players
    PROVE  Holds(PushBack(q, v), Append(s, v))
<1>1. PushBack(q, v) = AtBack(Room(q), v)
  BY DEF PushBack, AtBack
<1> QED  BY <1>1, RoomHolds, BackHolds

(* pushFront. *)
LEMMA PushFrontHolds ==
    ASSUME NEW q, NEW s, Holds(q, s), NEW v \in Players
    PROVE  Holds(PushFront(q, v), <<v>> \o s)
<1>1. PushFront(q, v) = AtFront(Room(q), v)
  BY DEF PushFront, AtFront
<1> QED  BY <1>1, RoomHolds, FrontHolds

(* removeAt. *)
LEMMA RemoveHolds ==
    ASSUME NEW q, NEW s, Holds(q, s), NEW i \in 0..(Len(s) - 1)
    PROVE  Holds(RemovePlace(q, i), [j \in 1..(Len(s) - 1) |-> IF j < i + 1 THEN s[j] ELSE s[j + 1]])
<1>1. Len(q.items) # 0
  BY DEF Holds
<1>2. PICK n \in Nat \ {0} : \E h \in 0..(n - 1), c \in 0..n, f \in Cells : Laid(q, s, n, h, c, f)
  BY <1>1, HeldFacts
<1>3. PICK h \in 0..(n - 1), c \in 0..n, f \in Cells : Laid(q, s, n, h, c, f)
  BY <1>2
<1>4. c - 1 \in 0..(n - 1) /\ i \in 0..(c - 1) /\ s \in Seq(Players) /\ Len(s) = c /\ Len(f) = n
  BY <1>3 DEF Laid
<1> DEFINE w == [j \in 1..(Len(s) - 1) |-> IF j < i + 1 THEN s[j] ELSE s[j + 1]]
           e == [j \in 1..n |-> CASE Behinds(n, h, j) \in i..(c - 2) -> f[Wrapped(n, j) + 1]
                                 [] Behinds(n, h, j) = c - 1         -> None
                                 [] OTHER                            -> f[j]]
<1>5. \A j \in 1..n : (j - 1 - h + n) % n = Behinds(n, h, j) /\ j % n = Wrapped(n, j)
  <2> TAKE j \in 1..n
  <2>1. j - 1 - h + n \in 0..(2 * n - 1) /\ j \in 0..(2 * n - 1)
    OBVIOUS
  <2>2. (j - 1 - h + n) % n = Wrapped(n, j - 1 - h + n) /\ j % n = Wrapped(n, j)
    BY <2>1, WrapFacts
  <2>3. Wrapped(n, j - 1 - h + n) = Behinds(n, h, j)
    BY DEF Wrapped, Behinds
  <2> QED  BY <2>2, <2>3
<1>6. (h + c - 1) % n = Onward(n, h, c - 1)
  <2>1. h + c - 1 = h + (c - 1) /\ c - 1 \in 0..n
    BY <1>4
  <2>2. (h + (c - 1)) % n = Onward(n, h, c - 1)
    BY <2>1, ModFacts
  <2> QED  BY <2>1, <2>2
<1>7. RemovePlace(q, i) = Buffer(e, h, Onward(n, h, c - 1), c - 1)
  <2>1. q = Buffer(f, h, Onward(n, h, c), c) /\ Len(f) = n
    BY <1>3 DEF Laid
  <2>2. q.items = f /\ q.head = h /\ q.count = c
    BY <2>1 DEF Buffer
  <2> DEFINE g == [j \in 1..n |-> CASE (j - 1 - h + n) % n \in i..(c - 2) -> f[(j % n) + 1]
                                   [] (j - 1 - h + n) % n = c - 1         -> None
                                   [] OTHER                               -> f[j]]
  <2> DEFINE g0 == [j \in 1..Len(q.items) |->
                      CASE (j - 1 - q.head + Len(q.items)) % Len(q.items) \in i..(q.count - 2) ->
                               q.items[(j % Len(q.items)) + 1]
                        [] (j - 1 - q.head + Len(q.items)) % Len(q.items) = q.count - 1 -> None
                        [] OTHER -> q.items[j]]
  <2>a. RemovePlace(q, i) = [q EXCEPT !.items = g0, !.tail = (q.head + q.count - 1) % Len(q.items), !.count = @ - 1]
    BY DEF RemovePlace
  <2>b. g0 = g
    BY <2>1, <2>2
  <2> HIDE DEF g, g0
  <2>3. RemovePlace(q, i) = [q EXCEPT !.items = g, !.tail = (h + c - 1) % n, !.count = c - 1]
    BY <2>1, <2>2, <2>a, <2>b
  <2>4. g = e
    BY <1>5 DEF g
  <2> HIDE DEF e
  <2> QED  BY <1>6, <2>1, <2>3, <2>4 DEF Buffer
<1>8. /\ w \in Seq(Players) /\ Len(w) = c - 1
      /\ \A j \in 1..(c - 1) : w[j] = IF j < i + 1 THEN s[j] ELSE s[j + 1]
  <2>1. w \in [1..(c - 1) -> Players]
    BY <1>4
  <2> QED  BY <1>4, <2>1
<1>9. ASSUME NEW j \in 1..n
      PROVE  e[j] = IF Behinds(n, h, j) < c - 1 THEN w[Behinds(n, h, j) + 1] ELSE None
  <2>1. PICK d \in 0..(n - 1) : d = Behinds(n, h, j)
    BY BehindsFacts
  <2>2. f[j] = IF d < c THEN s[d + 1] ELSE None
    BY <1>3, <2>1 DEF Laid
  <2>3. CASE d \in i..(c - 2)
    <3>a. d # n - 1
      BY <1>4, <2>3
    <3>b. Wrapped(n, j) + 1 \in 1..n /\ Behinds(n, h, Wrapped(n, j) + 1) = d + 1
      BY <2>1, <3>a, BehindsFacts
    <3>1. PICK k \in 1..n : k = Wrapped(n, j) + 1 /\ Behinds(n, h, k) = d + 1
      BY <3>b
    <3>2. f[k] = s[d + 2]
      BY <1>3, <1>4, <2>3, <3>1 DEF Laid
    <3>3. w[d + 1] = s[d + 2]
      BY <1>4, <1>8, <2>3
    <3>4. e[j] = f[k]
      BY <2>1, <2>3, <3>1
    <3> HIDE DEF e, w
    <3> QED  BY <1>4, <2>1, <2>3, <3>2, <3>3, <3>4
  <2>4. CASE d = c - 1
    <3>a. d \notin i..(c - 2)
      BY <1>4, <2>4
    <3>1. e[j] = None
      BY <2>1, <2>4, <3>a
    <3> HIDE DEF e, w
    <3> QED  BY <1>4, <2>1, <2>4, <3>1
  <2>5. CASE d \notin i..(c - 2) /\ d # c - 1
    <3>1. e[j] = f[j]
      BY <2>1, <2>5
    <3>2. d < c - 1 => w[d + 1] = s[d + 1]
      BY <1>4, <1>8, <2>5
    <3> HIDE DEF e, w
    <3> QED  BY <1>4, <2>1, <2>2, <2>5, <3>1, <3>2
  <2> QED  BY <2>3, <2>4, <2>5
<1>10. e \in Cells /\ Len(e) = n
  <2>1. \A j \in 1..n : e[j] \in Players \cup {None}
    <3> TAKE j \in 1..n
    <3>1. e[j] = IF Behinds(n, h, j) < c - 1 THEN w[Behinds(n, h, j) + 1] ELSE None
      BY <1>9
    <3>2. Behinds(n, h, j) \in 0..(n - 1)
      BY BehindsFacts
    <3> HIDE DEF e, w
    <3> QED  BY <1>4, <1>8, <3>1, <3>2
  <2>2. e = [j \in 1..n |-> e[j]]
    OBVIOUS
  <2> HIDE DEF e
  <2>3. e \in [1..n -> Players \cup {None}]
    BY <2>1, <2>2
  <2> QED  BY <2>3 DEF Cells
<1> HIDE DEF e, w
<1>11. Laid(RemovePlace(q, i), w, n, h, c - 1, e)
  BY <1>7, <1>8, <1>9, <1>10 DEF Laid
<1>12. c - 1 \in 0..n
  BY <1>4
<1> QED  BY <1>10, <1>11, <1>12, HoldsWhen DEF w
-----------------------------------------------------------------------------
(* What the queue keeps, and what MatchAll keeps while it runs. *)
Distinct(s) == \A i, j \in 1..Len(s) : s[i] = s[j] => i = j

(* The last ones have been tried and have nobody of their tier. *)
Lone ==
    \A i, j \in 1..Len(line) :
        i > Len(line) - failures /\ SameRank(line[i], line[j]) => i = j

Matching ==
    /\ failures \in 0..Len(line) /\ Lone
    /\ Distinct(arrived) /\ EveryonePlaced /\ PlacedAsTheyCame
    /\ \A i \in 1..Len(matches) : SameRank(matches[i][1], matches[i][2])

RingInv ==
    /\ Holds(Ring, line) /\ Distinct(line)
    /\ matches \in Seq(Players \X Players) /\ arrived \in Seq(Players)
    /\ failures # None => Matching

(* The queue is empty. *)
LEMMA RingStarts == RingInit => RingInv
<1> SUFFICES ASSUME RingInit PROVE RingInv
  OBVIOUS
<1>1. line = <<>> /\ matches = <<>> /\ failures = None /\ arrived = <<>>
  BY DEF RingInit
<1>2. Holds(Ring, line)
  <2>1. CASE FirstRoom = 0
    <3>1. ring = <<>>
      BY <2>1 DEF RingInit
    <3>2. Ring = [items |-> <<>>, head |-> 0, tail |-> 0, count |-> 0]
      BY <3>1 DEF Ring, RingInit
    <3>3. Len(line) = 0 /\ line \in Seq(Players)
      BY <1>1
    <3> QED  BY <3>2, <3>3 DEF Holds
  <2>2. CASE FirstRoom # 0
    <3>1. FirstRoom \in Nat \ {0}
      BY <2>2, RingAssumption
    <3>2. ring \in [1..FirstRoom -> Players \cup {None}] /\ \A i \in 1..FirstRoom : ring[i] = None
      BY DEF RingInit
    <3>3. ring \in Cells /\ Len(ring) = FirstRoom
      BY <3>1, <3>2 DEF Cells
    <3>4. Onward(FirstRoom, 0, 0) = 0 /\ 0 \in 0..(FirstRoom - 1) /\ 0 \in 0..FirstRoom
      BY <3>1 DEF Onward, Wrapped
    <3>5. \A i \in 1..FirstRoom : ~(Behinds(FirstRoom, 0, i) < 0)
      BY <3>1, <3>4, BehindsFacts
    <3>6. Ring = Buffer(ring, 0, 0, 0)
      BY DEF Ring, Buffer, RingInit
    <3>7. Laid(Ring, line, FirstRoom, 0, 0, ring)
      BY <1>1, <3>2, <3>3, <3>4, <3>5, <3>6 DEF Laid
    <3> QED  BY <3>1, <3>3, <3>4, <3>7, HoldsWhen
  <2> QED  BY <2>1, <2>2
<1> QED  BY <1>1, <1>2 DEF RingInv, Distinct

(* What the variables are after an operation. *)
LEMMA BecomesHolds ==
    ASSUME NEW q, NEW s, Holds(q, s), Becomes(q), line' = s
    PROVE  Holds(Ring, line)'
<1>1. Ring' = q
  BY DEF Ring, Becomes, Holds
<1> QED  BY <1>1 DEF Holds

(* What the variables say of the line. *)
LEMMA LineFacts ==
    ASSUME Holds(Ring, line)
    PROVE  /\ line \in Seq(Players) /\ inQueue = Len(line)
           /\ \A i \in 0..(Len(line) - 1) : Waiting(i) = line[i + 1]
<1>1. line \in Seq(Players) /\ inQueue = Len(line)
  BY DEF Holds, Ring
<1>2. ASSUME NEW i \in 0..(Len(line) - 1)
      PROVE  Waiting(i) = line[i + 1]
  <2>1. Ring.items[Behind(Ring, i)] = line[i + 1]
    BY HeldThere
  <2> QED  BY <2>1 DEF Waiting, Ring
<1> QED  BY <1>1, <1>2

(* The calls of one who is not matching. *)
LEMMA CallsKeep ==
    ASSUME RingInv, NEW p, Pop \/ (p \in Players /\ (Push(p) \/ RemoveFunc(p)))
    PROVE  RingInv'
<1>1. Holds(Ring, line) /\ Distinct(line) /\ line \in Seq(Players) /\ inQueue = Len(line)
  BY LineFacts DEF RingInv
<1>2. UNCHANGED matchVars /\ failures = None
  BY DEF Push, Pop, RemoveFunc, Idle
<1>3. Holds(Ring, line)' /\ Distinct(line)'
  <2>1. CASE p \in Players /\ Push(p)
    <3>1. Holds(Ring, line)'
      BY <1>1, <2>1, PushBackHolds, BecomesHolds DEF Push
    <3>2. line' = Append(line, p) /\ \A i \in 1..Len(line) : line[i] # p
      BY <1>1, <2>1 DEF Push, ToSet
    <3>3. Distinct(Append(line, p))
      BY <1>1, <3>2 DEF Distinct
    <3> QED  BY <3>1, <3>2, <3>3 DEF Distinct
  <2>2. CASE Pop
    <3>1. line # <<>> /\ line' = Tail(line) /\ Becomes(PopFront(Ring))
      BY <1>1, <2>2 DEF Pop
    <3>2. Holds(Ring, line)'
      BY <1>1, <3>1, PopHolds, BecomesHolds
    <3>3. Distinct(Tail(line))
      BY <1>1, <3>1 DEF Distinct
    <3> QED  BY <3>1, <3>2, <3>3 DEF Distinct
  <2>3. CASE RemoveFunc(p)
    <3>1. PICK i \in 0..(Len(line) - 1) :
             Waiting(i) = p /\ Becomes(RemovePlace(Ring, i)) /\ line' = RemoveFirst(line, p)
      BY <1>1, <2>3 DEF RemoveFunc
    <3>2. i + 1 \in 1..Len(line) /\ line[i + 1] = p /\ \A j \in 1..Len(line) : line[j] = p => j = i + 1
      BY <1>1, <3>1, LineFacts DEF Distinct
    <3> DEFINE s == [j \in 1..(Len(line) - 1) |-> IF j < i + 1 THEN line[j] ELSE line[j + 1]]
    <3>3. line' = s
      BY <1>1, <3>1, <3>2, RemovedOne
    <3>4. Holds(RemovePlace(Ring, i), s)
      BY <1>1, RemoveHolds
    <3>5. Distinct(s)
      <4>1. Len(s) = Len(line) - 1
        BY <1>1, <3>2
      <4> QED  BY <1>1, <3>2, <4>1 DEF Distinct
    <3> HIDE DEF s
    <3>6. Holds(Ring, line)'
      BY <3>1, <3>3, <3>4, BecomesHolds
    <3> QED  BY <3>3, <3>5, <3>6 DEF Distinct
  <2> QED  BY <2>1, <2>2, <2>3
<1> QED  BY <1>2, <1>3 DEF RingInv, matchVars
-----------------------------------------------------------------------------
(* The players as MatchAll has placed them, for any matches and line. *)
InPlaces(m, s) ==
    [i \in 1..(2 * Len(m) + Len(s)) |->
        IF i <= 2 * Len(m) THEN m[(i + 1) \div 2][2 - (i % 2)] ELSE s[i - 2 * Len(m)]]

(* What is asked of it, against the line they came in. *)
Came(r, p, q) == \E i, j \in 1..Len(r) : i < j /\ r[i] = p /\ r[j] = q
InOrder(r, w) ==
    /\ Len(w) = Len(r) /\ ToSet(w) = ToSet(r)
    /\ \A i, j \in 1..Len(w) : i < j /\ SameRank(w[i], w[j]) => Came(r, w[i], w[j])

(* The players of the matches, two by two, and then the line. *)
LEMMA PlacesFacts ==
    ASSUME NEW m \in Seq(Players \X Players), NEW s \in Seq(Players)
    PROVE  /\ InPlaces(m, s) \in Seq(Players) /\ Len(InPlaces(m, s)) = 2 * Len(m) + Len(s)
           /\ \A k \in 1..Len(m) : InPlaces(m, s)[2 * k - 1] = m[k][1] /\ InPlaces(m, s)[2 * k] = m[k][2]
           /\ \A k \in 1..Len(s) : InPlaces(m, s)[2 * Len(m) + k] = s[k]
<1> DEFINE w == InPlaces(m, s)
           N == 2 * Len(m) + Len(s)
<1>1. N \in Nat /\ Len(m) \in Nat /\ Len(s) \in Nat
  OBVIOUS
<1>2. ASSUME NEW i \in 1..N
      PROVE  w[i] = (IF i <= 2 * Len(m) THEN m[(i + 1) \div 2][2 - (i % 2)] ELSE s[i - 2 * Len(m)])
             /\ w[i] \in Players
  <2>1. w[i] = IF i <= 2 * Len(m) THEN m[(i + 1) \div 2][2 - (i % 2)] ELSE s[i - 2 * Len(m)]
    BY DEF InPlaces
  <2>2. CASE i <= 2 * Len(m)
    <3>1. (i + 1) \div 2 \in 1..Len(m) /\ 2 - (i % 2) \in {1, 2}
      BY <1>1, <2>2
    <3>2. m[(i + 1) \div 2] \in Players \X Players
      BY <3>1, ElementOfSeq
    <3> QED  BY <2>1, <2>2, <3>1, <3>2
  <2>3. CASE ~(i <= 2 * Len(m))
    <3>1. i - 2 * Len(m) \in 1..Len(s)
      BY <1>1, <2>3
    <3> QED  BY <2>1, <2>3, <3>1, ElementOfSeq
  <2> QED  BY <2>2, <2>3
<1>3. w \in [1..N -> Players]
  BY <1>2 DEF InPlaces
<1>4. w \in Seq(Players) /\ Len(w) = N
  BY <1>1, <1>3
<1>5. ASSUME NEW k \in 1..Len(m)
      PROVE  w[2 * k - 1] = m[k][1] /\ w[2 * k] = m[k][2]
  <2>1. 2 * k - 1 \in 1..N /\ 2 * k \in 1..N /\ 2 * k - 1 <= 2 * Len(m) /\ 2 * k <= 2 * Len(m)
    BY <1>1
  <2>2. /\ ((2 * k - 1) + 1) \div 2 = k /\ 2 - ((2 * k - 1) % 2) = 1
        /\ (2 * k + 1) \div 2 = k /\ 2 - ((2 * k) % 2) = 2
    OBVIOUS
  <2> HIDE DEF w, N
  <2> QED  BY <1>2, <2>1, <2>2
<1>6. ASSUME NEW k \in 1..Len(s)
      PROVE  w[2 * Len(m) + k] = s[k]
  <2>1. 2 * Len(m) + k \in 1..N /\ ~(2 * Len(m) + k <= 2 * Len(m)) /\ (2 * Len(m) + k) - 2 * Len(m) = k
    BY <1>1
  <2> HIDE DEF w, N
  <2> QED  BY <1>2, <2>1
<1> QED  BY <1>4, <1>5, <1>6

(* Two sequences with the same elements. *)
LEMMA SameElements ==
    ASSUME NEW w \in Seq(Players), NEW v \in Seq(Players),
           \A x \in 1..Len(v) : \E y \in 1..Len(w) : v[x] = w[y],
           \A x \in 1..Len(w) : \E y \in 1..Len(v) : w[x] = v[y]
    PROVE  ToSet(v) = ToSet(w)
<1>1. \A e : e \in ToSet(v) <=> \E x \in 1..Len(v) : v[x] = e
  BY DEF ToSet
<1>2. \A e : e \in ToSet(w) <=> \E x \in 1..Len(w) : w[x] = e
  BY DEF ToSet
<1>3. ASSUME NEW e
      PROVE  e \in ToSet(v) <=> e \in ToSet(w)
  BY <1>1, <1>2
<1> QED  BY <1>3

(* Moving one player back past others of other tiers keeps the order. *)
LEMMA MovedBack ==
    ASSUME NEW w \in Seq(Players), NEW v \in Seq(Players), NEW r, InOrder(r, w), Len(v) = Len(w),
           NEW a \in 1..Len(w), NEW b \in a..Len(w), v[b] = w[a],
           \A x \in 1..Len(w) : x < a \/ b < x => v[x] = w[x],
           \A x \in a..(b - 1) : v[x] = w[x + 1] /\ ~SameRank(w[x + 1], w[a])
    PROVE  InOrder(r, v)
<1> DEFINE p(x) == IF x = b THEN a ELSE IF x \in a..(b - 1) THEN x + 1 ELSE x
           t(y) == IF y = a THEN b ELSE IF y \in (a + 1)..b THEN y - 1 ELSE y
<1>1. Len(w) \in Nat /\ \A x \in 1..Len(w) : /\ p(x) \in 1..Len(w) /\ v[x] = w[p(x)]
                                            /\ t(x) \in 1..Len(w) /\ p(t(x)) = x
  OBVIOUS
<1>2. ToSet(v) = ToSet(w)
  <2> HIDE DEF p, t
  <2>1. \A x \in 1..Len(w) : \E y \in 1..Len(w) : v[x] = w[y]
    BY <1>1
  <2>2. \A x \in 1..Len(w) : \E y \in 1..Len(w) : w[x] = v[y]
    BY <1>1
  <2> QED  BY <2>1, <2>2, SameElements
<1>3. ASSUME NEW i \in 1..Len(w), NEW j \in 1..Len(w), i < j, SameRank(v[i], v[j])
      PROVE  Came(r, v[i], v[j])
  <2>1. v[i] = w[p(i)] /\ v[j] = w[p(j)] /\ p(i) \in 1..Len(w) /\ p(j) \in 1..Len(w)
    BY <1>1
  <2>2. p(i) < p(j) \/ (j = b /\ i \in a..(b - 1))
    BY <1>3
  <2>3. ~(j = b /\ i \in a..(b - 1))
    BY <1>3
  <2> HIDE DEF p
  <2>4. p(i) < p(j)
    BY <2>2, <2>3
  <2> QED  BY <1>3, <2>1, <2>4 DEF InOrder
<1> QED  BY <1>2, <1>3 DEF InOrder

(* So does moving one forward. *)
LEMMA MovedUp ==
    ASSUME NEW w \in Seq(Players), NEW v \in Seq(Players), NEW r, InOrder(r, w), Len(v) = Len(w),
           NEW a \in 1..Len(w), NEW b \in 1..a, v[b] = w[a],
           \A x \in 1..Len(w) : x < b \/ a < x => v[x] = w[x],
           \A x \in (b + 1)..a : v[x] = w[x - 1] /\ ~SameRank(w[a], w[x - 1])
    PROVE  InOrder(r, v)
<1> DEFINE p(x) == IF x = b THEN a ELSE IF x \in (b + 1)..a THEN x - 1 ELSE x
           t(y) == IF y = a THEN b ELSE IF y \in b..(a - 1) THEN y + 1 ELSE y
<1>1. Len(w) \in Nat /\ \A x \in 1..Len(w) : /\ p(x) \in 1..Len(w) /\ v[x] = w[p(x)]
                                            /\ t(x) \in 1..Len(w) /\ p(t(x)) = x
  OBVIOUS
<1>2. ToSet(v) = ToSet(w)
  <2> HIDE DEF p, t
  <2>1. \A x \in 1..Len(w) : \E y \in 1..Len(w) : v[x] = w[y]
    BY <1>1
  <2>2. \A x \in 1..Len(w) : \E y \in 1..Len(w) : w[x] = v[y]
    BY <1>1
  <2> QED  BY <2>1, <2>2, SameElements
<1>3. ASSUME NEW i \in 1..Len(w), NEW j \in 1..Len(w), i < j, SameRank(v[i], v[j])
      PROVE  Came(r, v[i], v[j])
  <2>1. v[i] = w[p(i)] /\ v[j] = w[p(j)] /\ p(i) \in 1..Len(w) /\ p(j) \in 1..Len(w)
    BY <1>1
  <2>2. p(i) < p(j) \/ (i = b /\ j \in (b + 1)..a)
    BY <1>3
  <2>3. ~(i = b /\ j \in (b + 1)..a)
    BY <1>3
  <2> HIDE DEF p
  <2>4. p(i) < p(j)
    BY <2>2, <2>3
  <2> QED  BY <1>3, <2>1, <2>4 DEF InOrder
<1> QED  BY <1>2, <1>3 DEF InOrder

(* Placed, as a sequence of the matches and the line. *)
LEMMA PlacedIs ==
    ASSUME matches \in Seq(Players \X Players), line \in Seq(Players)
    PROVE  EveryonePlaced /\ PlacedAsTheyCame <=> InOrder(arrived, InPlaces(matches, line))
<1>1. Placed = InPlaces(matches, line)
  BY DEF Placed, InPlaces
<1>2. DOMAIN Placed = 1..Len(Placed)
  BY <1>1, PlacesFacts
<1> QED  BY <1>1, <1>2 DEF EveryonePlaced, PlacedAsTheyCame, InOrder, Came, CameFirst

(* And after a step. *)
LEMMA PlacedNext ==
    ASSUME matches' \in Seq(Players \X Players), line' \in Seq(Players),
           InOrder(arrived', InPlaces(matches', line'))
    PROVE  EveryonePlaced' /\ PlacedAsTheyCame'
<1>1. Placed' = InPlaces(matches', line')
  BY DEF Placed, InPlaces
<1>2. DOMAIN Placed' = 1..Len(Placed')
  BY <1>1, PlacesFacts
<1>3. InOrder(arrived', Placed')
  BY <1>1
<1> QED  BY <1>2, <1>3 DEF EveryonePlaced, PlacedAsTheyCame, InOrder, Came, CameFirst

(* The front player is matched. *)
LEMMA MatchFrontKeeps ==
    ASSUME RingInv, MatchFront
    PROVE  RingInv'
<1>1. /\ Holds(Ring, line) /\ Distinct(line) /\ line \in Seq(Players) /\ inQueue = Len(line)
      /\ matches \in Seq(Players \X Players) /\ arrived \in Seq(Players)
  BY LineFacts DEF RingInv
<1>2. Matching /\ 2 <= Len(line)
  BY <1>1 DEF MatchFront, Looping, RingInv
<1>3. PICK i \in 1..(Len(line) - 1) :
         /\ Compatible(i) /\ \A j \in 1..(i - 1) : ~Compatible(j)
         /\ Becomes(RemovePlace(PopFront(Ring), i - 1))
         /\ line' = RemoveFirst(Tail(line), Waiting(i))
         /\ matches' = Append(matches, <<Waiting(0), Waiting(i)>>)
  BY <1>1 DEF MatchFront
<1>4. failures' = 0 /\ arrived' = arrived
  BY DEF MatchFront
<1>5. Waiting(0) = line[1] /\ \A j \in 1..(Len(line) - 1) : Waiting(j) = line[j + 1]
  BY <1>1, <1>2, LineFacts
<1>6. SameRank(line[i + 1], line[1]) /\ \A j \in 1..(i - 1) : ~SameRank(line[j + 1], line[1])
  <2>1. \A j \in 1..(i - 1) : j \in 1..(Len(line) - 1)
    BY <1>1
  <2>2. \A j \in 1..(Len(line) - 1) : Compatible(j) <=> SameRank(line[j + 1], line[1])
    BY <1>5 DEF Compatible, SameRank
  <2> QED  BY <1>3, <2>1, <2>2
<1>7. /\ Tail(line) \in Seq(Players) /\ Len(Tail(line)) = Len(line) - 1
      /\ \A j \in 1..(Len(line) - 1) : Tail(line)[j] = line[j + 1]
  BY <1>1, <1>2
<1> DEFINE s == [j \in 1..(Len(line) - 2) |-> IF j < i THEN line[j + 1] ELSE line[j + 2]]
<1>8. line' = s /\ Holds(RemovePlace(PopFront(Ring), i - 1), s)
  <2> DEFINE u == Tail(line)
             z == [j \in 1..(Len(u) - 1) |-> IF j < (i - 1) + 1 THEN u[j] ELSE u[j + 1]]
  <2>1. u[i] = Waiting(i) /\ i \in 1..Len(u) /\ \A j \in 1..Len(u) : u[j] = Waiting(i) => j = i
    BY <1>1, <1>3, <1>5, <1>7 DEF Distinct
  <2>2. Holds(PopFront(Ring), u) /\ i - 1 \in 0..(Len(u) - 1)
    BY <1>1, <1>2, <1>7, PopHolds
  <2> HIDE DEF u
  <2>3. Holds(RemovePlace(PopFront(Ring), i - 1), z)
    BY <2>2, RemoveHolds
  <2>4. RemoveFirst(u, Waiting(i)) = [j \in 1..(Len(u) - 1) |-> IF j < i THEN u[j] ELSE u[j + 1]]
    BY <1>7, <2>1, RemovedOne DEF u
  <2>5. s = z
    BY <1>1, <1>7 DEF u
  <2>6. s = [j \in 1..(Len(u) - 1) |-> IF j < i THEN u[j] ELSE u[j + 1]]
    BY <1>1, <1>7 DEF u
  <2> HIDE DEF s, z
  <2> QED  BY <1>3, <2>3, <2>4, <2>5, <2>6 DEF u
<1>9. /\ s \in Seq(Players) /\ Len(s) = Len(line) - 2
      /\ \A j \in 1..(Len(line) - 2) : s[j] = IF j < i THEN line[j + 1] ELSE line[j + 2]
  <2>1. s \in [1..(Len(line) - 2) -> Players]
    BY <1>1
  <2> QED  BY <1>1, <1>2, <2>1
<1> HIDE DEF s
<1>10. Holds(Ring, line)' /\ Distinct(line)'
  <2>1. Distinct(s)
    <3> SUFFICES ASSUME NEW x \in 1..(Len(line) - 2), NEW y \in 1..(Len(line) - 2), s[x] = s[y]
                 PROVE  x = y
      BY <1>9 DEF Distinct
    <3>1. PICK a, b \in 1..Len(line) : /\ a = (IF x < i THEN x + 1 ELSE x + 2) /\ s[x] = line[a]
                                      /\ b = (IF y < i THEN y + 1 ELSE y + 2) /\ s[y] = line[b]
      BY <1>1, <1>9
    <3>2. a = b
      BY <1>1, <3>1 DEF Distinct
    <3> QED  BY <3>1, <3>2
  <2> QED  BY <1>3, <1>8, <2>1, BecomesHolds DEF Distinct
<1> DEFINE w == InPlaces(matches, line)
           v == InPlaces(matches', s)
           m == Len(matches)
<1>11. /\ matches' \in Seq(Players \X Players) /\ Len(matches') = m + 1
       /\ matches'[m + 1] = <<line[1], line[i + 1]>> /\ \A k \in 1..m : matches'[k] = matches[k]
  <2>1. <<line[1], line[i + 1]>> \in Players \X Players
    BY <1>1, <1>2
  <2> QED  BY <1>1, <1>3, <1>5, <2>1
<1>12. InOrder(arrived, v)
  <2>1. /\ w \in Seq(Players) /\ Len(w) = 2 * m + Len(line) /\ m \in Nat
        /\ \A k \in 1..m : w[2 * k - 1] = matches[k][1] /\ w[2 * k] = matches[k][2]
        /\ \A k \in 1..Len(line) : w[2 * m + k] = line[k]
    <3>1. m \in Nat
      BY <1>1
    <3> QED  BY <1>1, <3>1, PlacesFacts
  <2>2. /\ v \in Seq(Players) /\ Len(v) = 2 * (m + 1) + (Len(line) - 2)
        /\ \A k \in 1..(m + 1) : v[2 * k - 1] = matches'[k][1] /\ v[2 * k] = matches'[k][2]
        /\ \A k \in 1..(Len(line) - 2) : v[2 * (m + 1) + k] = s[k]
    <3> DEFINE n == matches'
    <3>1. n \in Seq(Players \X Players) /\ Len(n) = m + 1 /\ s \in Seq(Players) /\ Len(s) = Len(line) - 2
      BY <1>9, <1>11
    <3> HIDE DEF n
    <3>2. /\ InPlaces(n, s) \in Seq(Players) /\ Len(InPlaces(n, s)) = 2 * Len(n) + Len(s)
          /\ \A k \in 1..Len(n) : InPlaces(n, s)[2 * k - 1] = n[k][1] /\ InPlaces(n, s)[2 * k] = n[k][2]
          /\ \A k \in 1..Len(s) : InPlaces(n, s)[2 * Len(n) + k] = s[k]
      BY <3>1, PlacesFacts
    <3> HIDE DEF m
    <3>3. v = InPlaces(n, s)
      BY DEF n
    <3> HIDE DEF v
    <3>4. /\ v \in Seq(Players) /\ Len(v) = 2 * (m + 1) + (Len(line) - 2)
          /\ \A k \in 1..(m + 1) : v[2 * k - 1] = n[k][1] /\ v[2 * k] = n[k][2]
          /\ \A k \in 1..(Len(line) - 2) : v[2 * (m + 1) + k] = s[k]
      BY <3>1, <3>2, <3>3
    <3> QED  BY <3>4 DEF n
  <2>3. InOrder(arrived, w)
    BY <1>1, <1>2, PlacedIs DEF Matching
  <2> HIDE DEF w, v, m
  <2> DEFINE a == 2 * m + 1 + i
             b == 2 * m + 2
  <2>4. a \in 1..Len(w) /\ b \in 1..a /\ Len(v) = Len(w) /\ Len(line) \in Nat
    BY <1>1, <2>1, <2>2
  <2>5. v[2 * m + 1] = line[1] /\ v[b] = line[i + 1]
    <3>1. 2 * (m + 1) - 1 = 2 * m + 1 /\ 2 * (m + 1) = b /\ m + 1 \in 1..(m + 1)
      BY <2>1
    <3> QED  BY <1>11, <2>2, <3>1
  <2>6. w[2 * m + 1] = line[1] /\ w[a] = line[i + 1]
    <3>1. a = 2 * m + (i + 1) /\ i + 1 \in 1..Len(line) /\ 1 \in 1..Len(line)
      <4>1. m \in Nat
        BY <2>1
      <4> QED  BY <2>4, <4>1
    <3> QED  BY <2>1, <3>1
  <2>7. ASSUME NEW x \in 1..(2 * m)
        PROVE  v[x] = w[x]
    <3>1. PICK k \in 1..m : x = 2 * k - 1 \/ x = 2 * k
      <4>1. (x + 1) \div 2 \in 1..m /\ (x = 2 * ((x + 1) \div 2) - 1 \/ x = 2 * ((x + 1) \div 2))
        BY <2>1
      <4> QED  BY <4>1
    <3>2. k \in 1..(m + 1)
      BY <2>1
    <3>3. w[2 * k - 1] = matches[k][1] /\ w[2 * k] = matches[k][2]
      BY <2>1
    <3>4. v[2 * k - 1] = matches'[k][1] /\ v[2 * k] = matches'[k][2]
      BY <2>2, <3>2
    <3> QED  BY <1>11, <3>1, <3>3, <3>4
  <2>8. ASSUME NEW x \in (b + 1)..Len(w)
        PROVE  v[x] = IF x <= a THEN w[x - 1] ELSE w[x]
    <3>1. PICK k \in 1..(Len(line) - 2) : x = 2 * (m + 1) + k
      <4>1. x - 2 * (m + 1) \in 1..(Len(line) - 2) /\ x = 2 * (m + 1) + (x - 2 * (m + 1))
        BY <2>1, <2>4
      <4> QED  BY <4>1
    <3>2. v[x] = IF k < i THEN line[k + 1] ELSE line[k + 2]
      BY <1>9, <2>2, <3>1
    <3>3. /\ x - 1 = 2 * m + (k + 1) /\ x = 2 * m + (k + 2) /\ (k < i <=> x <= a)
          /\ k + 1 \in 1..Len(line) /\ k + 2 \in 1..Len(line)
      BY <2>1, <2>4, <3>1
    <3>4. w[x - 1] = line[k + 1] /\ w[x] = line[k + 2]
      BY <2>1, <3>3
    <3> QED  BY <3>2, <3>3, <3>4
  <2>9. ASSUME NEW x \in (b + 1)..a
        PROVE  ~SameRank(w[a], w[x - 1])
    <3>1. PICK k \in 1..(i - 1) : x - 1 = 2 * m + (k + 1)
      <4>1. x - 1 - 2 * m - 1 \in 1..(i - 1) /\ x - 1 = 2 * m + ((x - 1 - 2 * m - 1) + 1)
        BY <2>1, <2>4
      <4> QED  BY <4>1
    <3>2. k + 1 \in 1..Len(line)
      BY <2>4, <3>1
    <3>3. w[x - 1] = line[k + 1]
      BY <2>1, <3>1, <3>2
    <3>4. ~SameRank(line[k + 1], line[1]) /\ SameRank(line[i + 1], line[1])
      BY <1>6, <3>1
    <3> QED  BY <2>6, <3>3, <3>4 DEF SameRank
  <2>10. ASSUME NEW x \in 1..Len(w), x < b \/ a < x
         PROVE  v[x] = w[x]
    <3>1. CASE x <= 2 * m
      BY <2>1, <2>7, <3>1
    <3>2. CASE x = 2 * m + 1
      BY <2>5, <2>6, <3>2
    <3>3. CASE a < x
      <4>1. x \in (b + 1)..Len(w) /\ ~(x <= a)
        BY <2>1, <2>4, <3>3
      <4> QED  BY <2>8, <4>1
    <3> QED  BY <2>1, <2>4, <2>10, <3>1, <3>2, <3>3
  <2>11. \A x \in (b + 1)..a : v[x] = w[x - 1]
    <3> TAKE x \in (b + 1)..a
    <3>1. x \in (b + 1)..Len(w) /\ x <= a
      BY <2>1, <2>4
    <3> QED  BY <2>8, <3>1
  <2>12. w \in Seq(Players) /\ v \in Seq(Players) /\ v[b] = w[a]
    BY <2>1, <2>2, <2>5, <2>6
  <2>13. \A x \in (b + 1)..a : v[x] = w[x - 1] /\ ~SameRank(w[a], w[x - 1])
    BY <2>9, <2>11
  <2>14. \A x \in 1..Len(w) : x < b \/ a < x => v[x] = w[x]
    BY <2>10
  <2> HIDE DEF a, b
  <2> QED  BY <2>3, <2>4, <2>12, <2>13, <2>14, MovedUp
<1>13. Matching'
  <2>1. EveryonePlaced' /\ PlacedAsTheyCame'
    <3>1. line' \in Seq(Players)
      BY <1>8, <1>9
    <3> QED  BY <1>4, <1>8, <1>11, <1>12, <3>1, PlacedNext
  <2>2. \A k \in 1..(m + 1) : SameRank(matches'[k][1], matches'[k][2])
    <3>1. \A k \in 1..m : SameRank(matches[k][1], matches[k][2])
      BY <1>2 DEF Matching
    <3> QED  BY <1>1, <1>6, <1>11, <3>1 DEF SameRank
  <2>3. (failures \in 0..Len(line) /\ Lone)'
    BY <1>1, <1>2, <1>4, <1>8, <1>9 DEF Lone
  <2>4. Distinct(arrived)'
    BY <1>2, <1>4 DEF Matching, Distinct
  <2> QED  BY <1>11, <2>1, <2>2, <2>3, <2>4 DEF Matching, SameRank
<1> QED  BY <1>1, <1>4, <1>10, <1>11, <1>13 DEF RingInv

(* The front player is sent to the back. *)
LEMMA SkipFrontKeeps ==
    ASSUME RingInv, SkipFront
    PROVE  RingInv'
<1>1. /\ Holds(Ring, line) /\ Distinct(line) /\ line \in Seq(Players) /\ inQueue = Len(line)
      /\ matches \in Seq(Players \X Players) /\ arrived \in Seq(Players)
  BY LineFacts DEF RingInv
<1>2. Matching /\ 2 <= Len(line) /\ failures < Len(line)
  BY <1>1 DEF SkipFront, Looping, RingInv
<1>3. /\ failures' = failures + 1 /\ matches' = matches /\ arrived' = arrived
      /\ line' = Append(Tail(line), Head(line))
  BY DEF SkipFront
<1>4. Waiting(0) = line[1] /\ \A j \in 1..(Len(line) - 1) : Waiting(j) = line[j + 1]
  BY <1>1, <1>2, LineFacts
<1>5. \A j \in 2..Len(line) : ~SameRank(line[j], line[1])
  <2> TAKE j \in 2..Len(line)
  <2>1. j - 1 \in 1..(Len(line) - 1) /\ (j - 1) + 1 = j
    BY <1>1
  <2>2. ~Compatible(j - 1)
    BY <1>1, <2>1 DEF SkipFront
  <2> QED  BY <1>4, <2>1, <2>2 DEF Compatible, SameRank
<1> DEFINE s == Append(Tail(line), line[1])
<1>6. /\ s \in Seq(Players) /\ Len(s) = Len(line) /\ line' = s /\ s[Len(line)] = line[1]
      /\ \A j \in 1..(Len(line) - 1) : s[j] = line[j + 1]
  <2>1. line[1] \in Players /\ Head(line) = line[1]
    BY <1>1, <1>2, ElementOfSeq
  <2>2. /\ Tail(line) \in Seq(Players) /\ Len(Tail(line)) = Len(line) - 1
        /\ \A j \in 1..(Len(line) - 1) : Tail(line)[j] = line[j + 1]
    BY <1>1, <1>2
  <2> QED  BY <1>1, <1>3, <2>1, <2>2
<1>7. Holds(Ring, line)'
  <2>1. PICK q \in {PushFront(PopFront(Ring), Waiting(0))} : Becomes(PushBack(PopFront(q), Waiting(0)))
    BY DEF SkipFront
  <2>2. line # <<>> /\ line[1] \in Players
    BY <1>1, <1>2, ElementOfSeq
  <2>3. Holds(PopFront(Ring), Tail(line))
    BY <1>1, <2>2, PopHolds
  <2>4. Holds(q, <<line[1]>> \o Tail(line))
    BY <1>4, <2>1, <2>2, <2>3, PushFrontHolds
  <2>5. <<line[1]>> \o Tail(line) = line
    BY <1>1, <2>2
  <2>6. Holds(PopFront(q), Tail(line))
    BY <2>2, <2>4, <2>5, PopHolds
  <2>7. Holds(PushBack(PopFront(q), line[1]), s)
    BY <2>2, <2>6, PushBackHolds
  <2> QED  BY <1>4, <1>6, <2>1, <2>7, BecomesHolds
<1> HIDE DEF s
<1> DEFINE from(x) == IF x = Len(line) THEN 1 ELSE x + 1
<1>8. \A x \in 1..Len(line) : s[x] = line[from(x)] /\ from(x) \in 1..Len(line)
  BY <1>1, <1>2, <1>6
<1>9. \A x, y \in 1..Len(line) : from(x) = from(y) => x = y
  BY <1>1
<1>10. Distinct(s)
  <2> HIDE DEF from
  <2> QED  BY <1>1, <1>6, <1>8, <1>9 DEF Distinct
<1>11. ASSUME NEW x \in 1..Len(line), NEW y \in 1..Len(line), x > Len(line) - (failures + 1), SameRank(s[x], s[y])
       PROVE  x = y
  <2>1. s[x] = line[from(x)] /\ s[y] = line[from(y)] /\ from(x) \in 1..Len(line) /\ from(y) \in 1..Len(line)
    BY <1>8
  <2>2. CASE x = Len(line)
    <3>1. from(x) = 1 /\ SameRank(line[from(y)], line[1])
      BY <1>11, <2>1, <2>2 DEF SameRank
    <3>2. from(y) = 1
      BY <1>1, <1>5, <2>1, <3>1
    <3> QED  BY <1>9, <3>1, <3>2
  <2>3. CASE x # Len(line)
    <3>1. from(x) > Len(line) - failures
      BY <1>1, <1>2, <1>11, <2>3 DEF Matching
    <3> HIDE DEF from
    <3>2. from(x) = from(y)
      BY <1>2, <1>11, <2>1, <3>1 DEF Matching, Lone
    <3> QED  BY <1>9, <3>2
  <2> QED  BY <2>2, <2>3
<1> HIDE DEF from
<1> DEFINE w == InPlaces(matches, line)
           v == InPlaces(matches, s)
           m == Len(matches)
           a == 2 * m + 1
           b == 2 * m + Len(line)
<1>12. InOrder(arrived, v)
  <2>1. /\ w \in Seq(Players) /\ Len(w) = 2 * m + Len(line) /\ m \in Nat
        /\ \A k \in 1..m : w[2 * k - 1] = matches[k][1] /\ w[2 * k] = matches[k][2]
        /\ \A k \in 1..Len(line) : w[2 * m + k] = line[k]
    <3>1. m \in Nat
      BY <1>1
    <3> QED  BY <1>1, <3>1, PlacesFacts
  <2>2. /\ v \in Seq(Players) /\ Len(v) = 2 * m + Len(line)
        /\ \A k \in 1..m : v[2 * k - 1] = matches[k][1] /\ v[2 * k] = matches[k][2]
        /\ \A k \in 1..Len(line) : v[2 * m + k] = s[k]
    <3>1. /\ InPlaces(matches, s) \in Seq(Players) /\ Len(InPlaces(matches, s)) = 2 * Len(matches) + Len(s)
          /\ \A k \in 1..Len(matches) : InPlaces(matches, s)[2 * k - 1] = matches[k][1]
                                        /\ InPlaces(matches, s)[2 * k] = matches[k][2]
          /\ \A k \in 1..Len(s) : InPlaces(matches, s)[2 * Len(matches) + k] = s[k]
      BY <1>1, <1>6, PlacesFacts
    <3>2. Len(s) = Len(line)
      BY <1>6
    <3> QED  BY <3>1, <3>2
  <2>3. InOrder(arrived, w)
    BY <1>1, <1>2, PlacedIs DEF Matching
  <2> HIDE DEF w, v, m
  <2>4. a \in 1..Len(w) /\ b \in a..Len(w) /\ Len(v) = Len(w) /\ Len(line) \in Nat
    BY <1>1, <1>2, <2>1, <2>2
  <2>5. v[b] = w[a]
    <3>1. Len(line) \in 1..Len(line) /\ 1 \in 1..Len(line)
      BY <1>1, <1>2
    <3> QED  BY <1>6, <2>1, <2>2, <3>1
  <2>6. ASSUME NEW x \in 1..Len(w), x < a \/ b < x
        PROVE  v[x] = w[x]
    <3>1. PICK k \in 1..m : x = 2 * k - 1 \/ x = 2 * k
      <4>1. (x + 1) \div 2 \in 1..m /\ (x = 2 * ((x + 1) \div 2) - 1 \/ x = 2 * ((x + 1) \div 2))
        BY <2>1, <2>4, <2>6
      <4> QED  BY <4>1
    <3> QED  BY <2>1, <2>2, <3>1
  <2>7. ASSUME NEW x \in a..(b - 1)
        PROVE  v[x] = w[x + 1] /\ ~SameRank(w[x + 1], w[a])
    <3>1. PICK k \in 1..(Len(line) - 1) : x = 2 * m + k
      <4>1. x - 2 * m \in 1..(Len(line) - 1) /\ x = 2 * m + (x - 2 * m)
        BY <2>1, <2>4
      <4> QED  BY <4>1
    <3>2. k \in 1..Len(line) /\ k + 1 \in 2..Len(line) /\ k + 1 \in 1..Len(line) /\ x + 1 = 2 * m + (k + 1) /\ 1 \in 1..Len(line)
      BY <2>1, <2>4, <3>1
    <3>3. v[x] = line[k + 1] /\ w[x + 1] = line[k + 1] /\ w[a] = line[1]
      BY <1>6, <2>1, <2>2, <3>1, <3>2
    <3> QED  BY <1>5, <3>2, <3>3
  <2> HIDE DEF a, b
  <2> QED  BY <2>1, <2>2, <2>3, <2>4, <2>5, <2>6, <2>7, MovedBack
<1>13. Matching'
  <2>1. EveryonePlaced' /\ PlacedAsTheyCame'
    BY <1>1, <1>3, <1>6, <1>12, PlacedNext
  <2>2. (failures \in 0..Len(line))'
    BY <1>1, <1>2, <1>3, <1>6 DEF Matching
  <2>3. Lone'
    BY <1>3, <1>6, <1>11 DEF Lone, SameRank
  <2> QED  BY <1>2, <1>3, <2>1, <2>2, <2>3 DEF Matching, SameRank, Distinct
<1> QED  BY <1>1, <1>3, <1>6, <1>7, <1>10, <1>13 DEF RingInv, Distinct

(* MatchAll begins with nobody placed but the line itself. *)
LEMMA MatchAllKeeps ==
    ASSUME RingInv, MatchAll
    PROVE  RingInv'
<1>1. /\ Holds(Ring, line) /\ Distinct(line) /\ line \in Seq(Players) /\ inQueue = Len(line)
  BY LineFacts DEF RingInv
<1>2. /\ failures' = 0 /\ matches' = <<>> /\ arrived' = line /\ line' = line
      /\ ring' = ring /\ head' = head /\ tail' = tail /\ inQueue' = inQueue
  BY DEF MatchAll
<1>3. (Holds(Ring, line) /\ Distinct(line))'
  BY <1>1, <1>2 DEF Holds, Ring, Distinct
<1> DEFINE w == InPlaces(<<>>, line)
<1>4. InOrder(line, w)
  <2>1. w \in Seq(Players) /\ Len(w) = Len(line) /\ \A k \in 1..Len(line) : w[k] = line[k]
    <3>1. PICK n : n = <<>>
      OBVIOUS
    <3>2. n \in Seq(Players \X Players) /\ Len(n) = 0
      BY <3>1
    <3>3. /\ InPlaces(n, line) \in Seq(Players) /\ Len(InPlaces(n, line)) = 2 * Len(n) + Len(line)
          /\ \A k \in 1..Len(line) : InPlaces(n, line)[2 * Len(n) + k] = line[k]
      BY <1>1, <3>2, PlacesFacts
    <3>4. Len(line) \in Nat
      BY <1>1
    <3>5. Len(InPlaces(n, line)) = Len(line) /\ \A k \in 1..Len(line) : InPlaces(n, line)[k] = line[k]
      BY <3>2, <3>3, <3>4
    <3> QED  BY <3>1, <3>3, <3>5
  <2> HIDE DEF w
  <2>2. w = line
    BY <1>1, <2>1
  <2> QED  BY <1>1, <2>2 DEF InOrder, Came
<1>5. EveryonePlaced' /\ PlacedAsTheyCame'
  <2>1. (matches \in Seq(Players \X Players) /\ line \in Seq(Players))'
    BY <1>1, <1>2
  <2> QED  BY <1>2, <1>4, <2>1, PlacedNext
<1>6. Lone' /\ failures' \in 0..Len(line')
  BY <1>1, <1>2 DEF Lone
<1> QED  BY <1>1, <1>2, <1>3, <1>5, <1>6 DEF RingInv, Matching, Distinct

(* Every step keeps it. *)
LEMMA RingStepKeeps ==
    ASSUME RingInv, [RingNext]_queueVars
    PROVE  RingInv'
<1>1. CASE UNCHANGED queueVars
  BY <1>1 DEF queueVars, RingInv, Holds, Ring, Distinct, Matching, Lone, EveryonePlaced, PlacedAsTheyCame,
              Placed, CameFirst, SameRank
<1>2. CASE MatchReturn
  <2>1. /\ UNCHANGED <<ring, head, tail, inQueue, line>>
        /\ matches' = <<>> /\ failures' = None /\ arrived' = <<>>
    BY <1>2 DEF MatchReturn
  <2>2. Ring' = Ring /\ line' = line
    BY <2>1 DEF Ring
  <2>3. (Holds(Ring, line) /\ Distinct(line))'
    BY <2>2 DEF RingInv, Holds, Distinct
  <2> QED  BY <2>1, <2>3 DEF RingInv
<1>3. CASE \E p \in Players : Push(p) \/ RemoveFunc(p)
  BY <1>3, CallsKeep
<1>4. CASE Pop
  BY <1>4, CallsKeep
<1> QED  BY <1>1, <1>2, <1>3, <1>4, MatchFrontKeeps, SkipFrontKeeps, MatchAllKeeps DEF RingNext, MatchStep

(* In every state the ring holds the line, and MatchAll has placed         *)
(* everyone it met in the order they came.                                 *)
THEOREM RingInvariant == RingSpec => []RingInv
<1>1. RingInit => RingInv
  BY RingStarts
<1>2. RingInv /\ [RingNext]_queueVars => RingInv'
  BY RingStepKeeps
<1> QED  BY <1>1, <1>2, PTL DEF RingSpec

(* The line is what the ring holds, wherever it has wrapped to: no slot    *)
(* outside of the line keeps a player.                                     *)
LEMMA HeldLine ==
    ASSUME Holds(Ring, line)
    PROVE  RingHoldsTheLine
<1>1. Contents(Ring) = line
  BY ContentsHeld
<1> DEFINE n == Len(ring)
<1>2. /\ n \in Nat /\ inQueue = Len(line) /\ inQueue \in Nat /\ inQueue <= n /\ line \in Seq(Players)
      /\ \A i \in 1..n : ring[i] = IF Behinds(n, head, i) < inQueue THEN line[Behinds(n, head, i) + 1] ELSE None
      /\ n # 0 => head \in 0..(n - 1) /\ tail = Onward(n, head, inQueue)
  BY DEF Holds, Ring
<1>3. ASSUME n > 0
      PROVE  tail = (head + inQueue) % n
  <2>1. n \in Nat \ {0} /\ head \in 0..(n - 1) /\ inQueue \in 0..n
    BY <1>2, <1>3
  <2> HIDE DEF n
  <2> QED  BY <1>2, <1>3, <2>1, ModFacts
<1>4. ASSUME NEW i \in 1..n, ring[i] # None
      PROVE  \E j \in 0..(inQueue - 1) : i = Behind(Ring, j)
  <2>1. n \in Nat \ {0} /\ head \in 0..(n - 1)
    BY <1>2
  <2> DEFINE j == Behinds(n, head, i)
  <2>2. j \in 0..(n - 1) /\ i = Onward(n, head, j) + 1
    BY <2>1, BehindsFacts
  <2>3. j < inQueue
    BY <1>2, <1>4
  <2>4. j \in 0..(inQueue - 1) /\ j \in 0..n
    BY <1>2, <2>2, <2>3
  <2>5. Behind(Ring, j) = ((head + j) % n) + 1
    BY DEF Behind, Ring
  <2> HIDE DEF j, n
  <2>6. (head + j) % n = Onward(n, head, j)
    BY <2>1, <2>4, ModFacts
  <2> QED  BY <2>2, <2>4, <2>5, <2>6
<1> QED  BY <1>1, <1>3, <1>4 DEF RingHoldsTheLine

(* queue.go: wherever head and tail have wrapped to, the buffer holds the  *)
(* line and nothing else, for any players and any capacity.                *)
THEOREM RingHolds == RingSpec => []RingHoldsTheLine
<1>1. RingInv => RingHoldsTheLine
  BY HeldLine DEF RingInv
<1> QED  BY <1>1, RingInvariant, PTL

(* Whatever the buffer does, MatchAll returns with everyone placed, each   *)
(* pair of one tier, no two of a tier left and within a tier who came      *)
(* first first.                                                            *)
THEOREM MatchesInOrder == RingSpec => MatchedInOrder
<1>1. ASSUME RingInv, MatchReturn
      PROVE  /\ EveryonePlaced /\ PlacedAsTheyCame
             /\ \A i \in 1..Len(matches) : SameRank(matches[i][1], matches[i][2])
             /\ \A i, j \in 1..Len(line) : SameRank(line[i], line[j]) => i = j
  <2>1. Matching /\ line \in Seq(Players) /\ inQueue = Len(line)
    BY <1>1, LineFacts DEF RingInv, MatchReturn
  <2>2. Len(line) < 2 \/ failures = Len(line)
    BY <1>1, <2>1 DEF MatchReturn, Looping, Matching
  <2>3. \A i, j \in 1..Len(line) : SameRank(line[i], line[j]) => i = j
    BY <2>1, <2>2 DEF Matching, Lone
  <2> QED  BY <2>1, <2>3 DEF Matching
<1>2. RingInv => [MatchReturn => /\ EveryonePlaced /\ PlacedAsTheyCame
                                 /\ \A i \in 1..Len(matches) : SameRank(matches[i][1], matches[i][2])
                                 /\ \A i, j \in 1..Len(line) : SameRank(line[i], line[j]) => i = j]_queueVars
  BY <1>1
<1> QED  BY <1>2, RingInvariant, PTL DEF MatchedInOrder

-----------------------------------------------------------------------------
(* The hash table. *)

(* A set of bounded numbers that is not empty has a least one: or else the *)
(* numbers below it all would have as many successors as there are numbers *)
(* among them but the first.                                               *)
LEMMA LeastOf ==
    ASSUME NEW n \in Nat, NEW S \in SUBSET (0..n), S # {}
    PROVE  \E x \in S : \A y \in S : x <= y
<1> SUFFICES ASSUME \A x \in S : \E y \in S : y < x
             PROVE  FALSE
  OBVIOUS
<1> DEFINE U == {x \in 0..n : \A y \in S : x < y}
           f == [x \in U |-> x + 1]
<1>1. 0 \in U
  OBVIOUS
<1>2. f \in [U -> U \ {0}]
  <2> SUFFICES ASSUME NEW x \in U PROVE x + 1 \in U \ {0}
    OBVIOUS
  <2>1. PICK y \in S : TRUE
    OBVIOUS
  <2>2. \A z \in S : x + 1 <= z
    OBVIOUS
  <2>3. \A z \in S : x + 1 # z
    BY <2>2
  <2> QED  BY <2>1, <2>2, <2>3
<1>3. IsFiniteSet(U) /\ Cardinality(U) \in Nat
  <2>1. IsFiniteSet(0..n) /\ U \in SUBSET (0..n)
    BY FS_Interval
  <2> HIDE DEF U
  <2> QED  BY <2>1, FS_Subset, FS_CardinalityType
<1>4. IsFiniteSet(U \ {0}) /\ Cardinality(U \ {0}) = Cardinality(U) - 1
  BY <1>1, <1>3, FS_RemoveElement
<1>5. Cardinality(U \ {0}) < Cardinality(U)
  BY <1>3, <1>4
<1>6. \E x, y \in U : x # y /\ f[x] = f[y]
  <2> HIDE DEF f, U
  <2> QED  BY <1>2, <1>3, <1>4, <1>5, FS_PigeonHole
<1> QED  BY <1>6

(* What holds of 0, and of a number's successor if of the number, holds of *)
(* all up to a bound.                                                      *)
LEMMA Upward ==
    ASSUME NEW n \in Nat, NEW S \in SUBSET (0..n), 0 \in S,
           \A i \in 0..(n - 1) : i \in S => i + 1 \in S
    PROVE  S = 0..n
<1> SUFFICES ASSUME (0..n) \ S # {} PROVE FALSE
  OBVIOUS
<1>1. PICK x \in (0..n) \ S : \A y \in (0..n) \ S : x <= y
  BY LeastOf
<1>2. x - 1 \in 0..(n - 1) /\ x - 1 \in S /\ (x - 1) + 1 = x
  BY <1>1
<1> QED  BY <1>1, <1>2

-----------------------------------------------------------------------------
States == {"empty", "deleted", "occupied"}
SlotSet == [state : States, key : HashKeys \cup {None}, value : HashValues \cup {None}]

(* The table t holds the map m: each key at the end of a chain that        *)
(* nothing cuts, with its value, and nothing else.                         *)
Held(t, m) ==
    /\ t \in Seq(SlotSet) /\ Len(t) \in TableSizes /\ m \in [HashKeys -> HashValues \cup {None}]
    /\ \A i \in 1..Len(t) : t[i].state = "occupied" =>
          /\ t[i].key \in HashKeys /\ t[i].value = m[t[i].key] /\ m[t[i].key] # None
          /\ \E d \in Rounds(t, t[i].key) : SlotAt(t, t[i].key, d) = i
    /\ \A k \in HashKeys : m[k] # None => \E i \in 1..Len(t) : HasKey(t[i], k)
    /\ Cardinality(Slots(t, "occupied")) = Cardinality(KeysIn(m))

Hashes == hashOf \in [HashKeys -> Nat]

(* The rounds of a probe stay in the table and come to every slot. *)
LEMMA RoundFacts ==
    ASSUME Hashes, NEW t \in Seq(SlotSet), Len(t) # 0, NEW k \in HashKeys
    PROVE  /\ \A i \in 0..(Len(t) - 1) : SlotAt(t, k, i) \in 1..Len(t)
           /\ \A e \in 1..Len(t) : \E i \in 0..(Len(t) - 1) : SlotAt(t, k, i) = e
<1>1. PICK n \in Nat \ {0} : n = Len(t)
  OBVIOUS
<1>2. PICK h \in Nat : h = hashOf[k]
  BY DEF Hashes
<1>3. PICK s \in 0..(n - 1) : s = h % n
  OBVIOUS
<1>4. ASSUME NEW i \in 0..(n - 1)
      PROVE  SlotAt(t, k, i) = (IF s + i < n THEN s + i ELSE s + i - n) + 1
  <2>1. SlotAt(t, k, i) = ((s + i) % n) + 1
    BY <1>1, <1>2, <1>3 DEF SlotAt
  <2>2. s + i \in 0..(2 * n - 1)
    OBVIOUS
  <2>3. (s + i) % n = IF s + i < n THEN s + i ELSE s + i - n
    <3>1. (s + i) % n = Wrapped(n, s + i)
      BY <2>2, WrapFacts
    <3> QED  BY <3>1 DEF Wrapped
  <2> QED  BY <2>1, <2>3
<1>5. ASSUME NEW i \in 0..(n - 1)
      PROVE  SlotAt(t, k, i) \in 1..n
  BY <1>4
<1>6. ASSUME NEW e \in 1..n
      PROVE  \E i \in 0..(n - 1) : SlotAt(t, k, i) = e
  <2> DEFINE i == IF s <= e - 1 THEN e - 1 - s ELSE e - 1 - s + n
  <2>1. i \in 0..(n - 1) /\ e = (IF s + i < n THEN s + i ELSE s + i - n) + 1
    OBVIOUS
  <2> HIDE DEF i
  <2>2. SlotAt(t, k, i) = e
    BY <1>4, <2>1
  <2> QED  BY <2>1, <2>2
<1> QED  BY <1>1, <1>5, <1>6

(* A slot is well typed. *)
LEMMA SlotTypes ==
    ASSUME NEW t \in Seq(SlotSet), NEW i \in 1..Len(t)
    PROVE  /\ t[i] \in SlotSet /\ t[i].state \in States
           /\ t[i].key \in HashKeys \cup {None} /\ t[i].value \in HashValues \cup {None}
<1>1. t[i] \in SlotSet
  BY ElementOfSeq
<1> QED  BY <1>1 DEF SlotSet

(* Slots of one state are finitely many. *)
LEMMA SlotsFinite ==
    ASSUME NEW t \in Seq(SlotSet), NEW x
    PROVE  /\ IsFiniteSet(Slots(t, x)) /\ Cardinality(Slots(t, x)) \in Nat
           /\ Cardinality(Slots(t, x)) <= Len(t)
<1>1. IsFiniteSet(1..Len(t)) /\ Cardinality(1..Len(t)) = Len(t)
  <2>1. PICK n \in Nat : n = Len(t)
    OBVIOUS
  <2>2. IsFiniteSet(1..n) /\ Cardinality(1..n) = n
    BY FS_Interval
  <2> QED  BY <2>1, <2>2
<1>2. Slots(t, x) \in SUBSET (1..Len(t))
  BY DEF Slots
<1> QED  BY <1>1, <1>2, FS_Subset, FS_CardinalityType

(* A map has finitely many keys. *)
LEMMA KeysFinite ==
    ASSUME NEW m
    PROVE  /\ IsFiniteSet(KeysIn(m)) /\ Cardinality(KeysIn(m)) \in Nat
           /\ Cardinality(KeysIn(m)) <= Cardinality(HashKeys) /\ Cardinality(HashKeys) \in Nat
<1>1. KeysIn(m) \in SUBSET HashKeys
  BY DEF KeysIn
<1> QED  BY <1>1, HashAssumption, FS_Subset, FS_CardinalityType

(* A table with fewer keys than slots has a place for a new one. *)
LEMMA PlaceThere ==
    ASSUME Hashes, NEW t \in Seq(SlotSet), NEW k \in HashKeys, Cardinality(Slots(t, "occupied")) < Len(t)
    PROVE  /\ FreeRounds(t, k) # {}
           /\ \E d \in FreeRounds(t, k) : PlaceFor(t, k) = SlotAt(t, k, d)
<1>1. Len(t) \in Nat /\ Len(t) # 0
  BY SlotsFinite
<1>2. PICK e \in 1..Len(t) : t[e].state # "occupied"
  <2> SUFFICES ASSUME \A e \in 1..Len(t) : t[e].state = "occupied" PROVE FALSE
    OBVIOUS
  <2>1. Slots(t, "occupied") = 1..Len(t)
    BY DEF Slots
  <2> QED  BY <1>1, <2>1, FS_Interval
<1> DEFINE S == {i \in 0..(Len(t) - 1) : Looked(t, k, i).state # "occupied"}
<1>3. S # {}
  <2>1. PICK i \in 0..(Len(t) - 1) : SlotAt(t, k, i) = e
    BY <1>1, RoundFacts
  <2> QED  BY <1>2, <2>1 DEF Looked
<1>4. PICK d \in S : \A i \in S : d <= i
  <2>1. Len(t) - 1 \in Nat /\ S \in SUBSET (0..(Len(t) - 1))
    BY <1>1
  <2> HIDE DEF S
  <2> QED  BY <1>3, <2>1, LeastOf
<1>5. d \in FreeRounds(t, k)
  <2>1. ASSUME NEW j \in 0..(d - 1)
        PROVE  Looked(t, k, j).state = "occupied"
    <3>1. j \in 0..(Len(t) - 1) /\ ~(d <= j)
      BY <1>1
    <3> QED  BY <1>4, <3>1
  <2> QED  BY <2>1 DEF FreeRounds
<1> QED  BY <1>5 DEF PlaceFor

(* A probe finds a key in one round. *)
LEMMA OneRound ==
    ASSUME NEW t, NEW k, NEW d \in Hits(t, k), NEW e \in Hits(t, k)
    PROVE  d = e
<1>1. d \in Int /\ e \in Int /\ 0 <= d /\ 0 <= e /\ HasKey(Looked(t, k, d), k) /\ HasKey(Looked(t, k, e), k)
  BY DEF Hits, Rounds
<1>2. \A j \in 0..(d - 1) : ~HasKey(Looked(t, k, j), k)
  BY DEF Hits, Rounds
<1>3. \A j \in 0..(e - 1) : ~HasKey(Looked(t, k, j), k)
  BY DEF Hits, Rounds
<1>4. ~(d < e) /\ ~(e < d)
  BY <1>1, <1>2, <1>3
<1> QED  BY <1>1, <1>4

(* In a table that holds a map a key has one slot, and its probe gets there. *)
LEMMA KeyOnce ==
    ASSUME NEW t, NEW m, Held(t, m), NEW i \in 1..Len(t), NEW k, HasKey(t[i], k)
    PROVE  /\ k \in HashKeys /\ m[k] # None /\ t[i].value = m[k]
           /\ \E d \in Hits(t, k) : SlotAt(t, k, d) = i
           /\ \A d \in Hits(t, k) : SlotAt(t, k, d) = i
           /\ \A j \in 1..Len(t) : HasKey(t[j], k) => j = i
<1>1. \A j \in 1..Len(t) : HasKey(t[j], k) => \E d \in Hits(t, k) : SlotAt(t, k, d) = j
  <2> SUFFICES ASSUME NEW j \in 1..Len(t), HasKey(t[j], k)
               PROVE  \E d \in Hits(t, k) : SlotAt(t, k, d) = j
    OBVIOUS
  <2>1. t[j].state = "occupied" /\ t[j].key = k
    BY DEF HasKey
  <2>2. PICK d \in Rounds(t, k) : SlotAt(t, k, d) = j
    BY <2>1 DEF Held
  <2>3. d \in Hits(t, k)
    BY <2>2 DEF Hits, Looked
  <2> QED  BY <2>2, <2>3
<1>2. PICK d \in Hits(t, k) : SlotAt(t, k, d) = i
  BY <1>1
<1>3. \A e \in Hits(t, k) : e = d
  BY OneRound
<1>4. k \in HashKeys /\ m[k] # None /\ t[i].value = m[k]
  BY DEF Held, HasKey
<1> QED  BY <1>1, <1>2, <1>3, <1>4

(* What a lookup answers. *)
LEMMA Answers ==
    ASSUME Hashes, NEW t, NEW m, Held(t, m), NEW k \in HashKeys
    PROVE  IF m[k] = None THEN Hits(t, k) = {}
           ELSE Hits(t, k) # {} /\ \A d \in Hits(t, k) : Looked(t, k, d).value = m[k]
<1>1. t \in Seq(SlotSet) /\ Len(t) \in Nat \ {0}
  BY HashAssumption DEF Held
<1>2. ASSUME NEW d \in Hits(t, k)
      PROVE  m[k] # None /\ Looked(t, k, d).value = m[k]
  <2>1. d \in 0..(Len(t) - 1) /\ HasKey(Looked(t, k, d), k)
    BY DEF Hits, Rounds
  <2>2. SlotAt(t, k, d) \in 1..Len(t)
    BY <1>1, <2>1, RoundFacts
  <2> QED  BY <2>1, <2>2, KeyOnce DEF Looked
<1>3. ASSUME m[k] # None
      PROVE  Hits(t, k) # {}
  <2>1. PICK i \in 1..Len(t) : HasKey(t[i], k)
    BY <1>3 DEF Held
  <2> QED  BY <2>1, KeyOnce
<1> QED  BY <1>2, <1>3

(* How a slot that changes its state changes the counts. *)
LEMMA SlotsChanged ==
    ASSUME NEW t \in Seq(SlotSet), NEW p \in 1..Len(t), NEW x
    PROVE  IF t[p].state = x
           THEN /\ Cardinality(Slots(t, x) \cup {p}) = Cardinality(Slots(t, x))
                /\ Cardinality(Slots(t, x) \ {p}) = Cardinality(Slots(t, x)) - 1
           ELSE /\ Cardinality(Slots(t, x) \cup {p}) = Cardinality(Slots(t, x)) + 1
                /\ Cardinality(Slots(t, x) \ {p}) = Cardinality(Slots(t, x))
<1>1. p \in Slots(t, x) <=> t[p].state = x
  BY DEF Slots
<1>2. IsFiniteSet(Slots(t, x))
  BY SlotsFinite
<1> QED  BY <1>1, <1>2, FS_AddElement, FS_RemoveElement

(* The table and the map with a new key, and with another value under one. *)
Assign(m, k, v) == [m EXCEPT ![k] = v]
Inserted(t, k, v) == [t EXCEPT ![PlaceFor(t, k)] = Slot(k, v)]
Replaced(t, k, d, v) == [t EXCEPT ![SlotAt(t, k, d)] = Slot(k, v)]

(* A key that the table has not is put where the probe ends or at a        *)
(* tombstone.                                                              *)
LEMMA InsertKeeps ==
    ASSUME Hashes, NEW t, NEW m, Held(t, m), NEW k \in HashKeys, m[k] = None, NEW v \in HashValues,
           Cardinality(Slots(t, "occupied")) < Len(t)
    PROVE  /\ Held(Inserted(t, k, v), Assign(m, k, v)) /\ Len(Inserted(t, k, v)) = Len(t)
           /\ PlaceFor(t, k) \in 1..Len(t)
           /\ Cardinality(Slots(Inserted(t, k, v), "occupied")) = Cardinality(Slots(t, "occupied")) + 1
           /\ Slots(Inserted(t, k, v), "deleted") = Slots(t, "deleted") \ {PlaceFor(t, k)}
<1> DEFINE p == PlaceFor(t, k)
           s == Slot(k, v)
           u == [t EXCEPT ![p] = s]
           w == [m EXCEPT ![k] = v]
<1>1. /\ t \in Seq(SlotSet) /\ Len(t) \in Nat \ {0} /\ Len(t) \in TableSizes
      /\ m \in [HashKeys -> HashValues \cup {None}]
  BY HashAssumption DEF Held
<1>2. PICK d \in FreeRounds(t, k) : p = SlotAt(t, k, d)
  BY <1>1, PlaceThere
<1>3. /\ d \in 0..(Len(t) - 1) /\ t[p].state # "occupied"
      /\ \A j \in 0..(d - 1) : Looked(t, k, j).state = "occupied"
  BY <1>2 DEF FreeRounds, Looked
<1>4. p \in 1..Len(t)
  BY <1>1, <1>2, <1>3, RoundFacts
<1>5. s \in SlotSet /\ s.state = "occupied" /\ s.key = k /\ s.value = v /\ v # None
  BY HashAssumption DEF Slot, SlotSet, States
<1> HIDE DEF p, s
<1>6. /\ u \in Seq(SlotSet) /\ Len(u) = Len(t)
      /\ \A i \in 1..Len(t) : u[i] = IF i = p THEN s ELSE t[i]
  BY <1>1, <1>4, <1>5
<1>7. /\ Slots(u, "occupied") = Slots(t, "occupied") \cup {p}
      /\ Slots(u, "deleted") = Slots(t, "deleted") \ {p}
      /\ Cardinality(Slots(u, "occupied")) = Cardinality(Slots(t, "occupied")) + 1
  <2>1. u[p].state = "occupied" /\ u[p].state # "deleted"
    BY <1>4, <1>5, <1>6
  <2>2. \A x : Slots(u, x) = IF u[p].state = x THEN Slots(t, x) \cup {p} ELSE Slots(t, x) \ {p}
    <3> HIDE DEF u
    <3> QED  BY <1>4, <1>6 DEF Slots
  <2>3. Cardinality(Slots(t, "occupied") \cup {p}) = Cardinality(Slots(t, "occupied")) + 1
    BY <1>1, <1>3, <1>4, SlotsChanged
  <2> HIDE DEF u
  <2> QED  BY <2>1, <2>2, <2>3
<1>8. w \in [HashKeys -> HashValues \cup {None}] /\ \A q \in HashKeys : w[q] = IF q = k THEN v ELSE m[q]
  BY <1>1
<1>9. Cardinality(KeysIn(w)) = Cardinality(KeysIn(m)) + 1
  <2>1. KeysIn(w) = KeysIn(m) \cup {k} /\ k \notin KeysIn(m)
    BY <1>5, <1>8 DEF KeysIn
  <2> QED  BY <2>1, KeysFinite, FS_AddElement
<1> HIDE DEF u, w
<1>10. \A q \in HashKeys, i \in 0..(Len(t) - 1) :
          /\ SlotAt(u, q, i) = SlotAt(t, q, i)
          /\ Looked(u, q, i) = IF SlotAt(t, q, i) = p THEN s ELSE Looked(t, q, i)
  <2> TAKE q \in HashKeys, i \in 0..(Len(t) - 1)
  <2>1. SlotAt(t, q, i) \in 1..Len(t)
    BY <1>1, RoundFacts
  <2>2. SlotAt(u, q, i) = SlotAt(t, q, i)
    BY <1>6 DEF SlotAt
  <2> QED  BY <1>6, <2>1, <2>2 DEF Looked
<1>11. \A i \in 1..Len(t) : ~HasKey(t[i], k)
  BY KeyOnce
<1>12. ASSUME NEW i \in 1..Len(u), u[i].state = "occupied"
       PROVE  /\ u[i].key \in HashKeys /\ u[i].value = w[u[i].key] /\ w[u[i].key] # None
              /\ \E e \in Rounds(u, u[i].key) : SlotAt(u, u[i].key, e) = i
  <2>1. CASE i = p
    <3>1. u[i] = s
      BY <1>6, <2>1
    <3>2. ASSUME NEW j \in 0..(d - 1)
          PROVE  ~EndsChain(Looked(u, k, j)) /\ ~HasKey(Looked(u, k, j), k)
      <4>1. j \in 0..(Len(t) - 1)
        BY <1>1, <1>3
      <4>2. Looked(t, k, j).state = "occupied" /\ SlotAt(t, k, j) # p
        BY <1>3 DEF Looked
      <4>3. SlotAt(t, k, j) \in 1..Len(t) /\ Looked(u, k, j) = t[SlotAt(t, k, j)]
        BY <1>1, <1>10, <4>1, <4>2, RoundFacts DEF Looked
      <4> QED  BY <1>11, <4>2, <4>3 DEF EndsChain, HasKey, Looked
    <3>3. d \in Rounds(u, k)
      BY <1>3, <1>6, <3>2 DEF Rounds
    <3>4. SlotAt(u, k, d) = i
      BY <1>2, <1>3, <1>10, <2>1
    <3> QED  BY <1>5, <1>8, <3>1, <3>3, <3>4
  <2>2. CASE i # p
    <3>1. u[i] = t[i] /\ i \in 1..Len(t)
      BY <1>6, <2>2
    <3> DEFINE q == t[i].key
    <3>2. q \in HashKeys /\ t[i].value = m[q] /\ m[q] # None /\ q # k
      BY <1>12, <3>1 DEF Held
    <3>3. PICK e \in Rounds(t, q) : SlotAt(t, q, e) = i
      BY <1>12, <3>1 DEF Held
    <3>4. e \in 0..(Len(t) - 1) /\ \A j \in 0..(e - 1) : ~EndsChain(Looked(t, q, j)) /\ ~HasKey(Looked(t, q, j), q)
      BY <3>3 DEF Rounds
    <3> HIDE DEF q
    <3>5. ASSUME NEW j \in 0..(e - 1)
          PROVE  ~EndsChain(Looked(u, q, j)) /\ ~HasKey(Looked(u, q, j), q)
      <4>1. j \in 0..(Len(t) - 1)
        BY <1>1, <3>4
      <4>2. ~EndsChain(s) /\ ~HasKey(s, q)
        BY <1>5, <3>2 DEF EndsChain, HasKey
      <4> QED  BY <1>10, <3>2, <3>4, <4>1, <4>2
    <3>6. e \in Rounds(u, q)
      BY <1>6, <3>4, <3>5 DEF Rounds
    <3>7. SlotAt(u, q, e) = i
      BY <1>10, <3>2, <3>3, <3>4
    <3> QED  BY <1>8, <3>1, <3>2, <3>6, <3>7 DEF q
  <2> QED  BY <2>1, <2>2
<1>13. ASSUME NEW q \in HashKeys, w[q] # None
       PROVE  \E i \in 1..Len(u) : HasKey(u[i], q)
  <2>1. CASE q = k
    BY <1>4, <1>5, <1>6, <2>1 DEF HasKey
  <2>2. CASE q # k
    <3>1. PICK i \in 1..Len(t) : HasKey(t[i], q)
      BY <1>8, <1>13, <2>2 DEF Held
    <3>2. i # p
      BY <1>3, <3>1 DEF HasKey
    <3> QED  BY <1>6, <3>1, <3>2
  <2> QED  BY <2>1, <2>2
<1>14. Held(u, w)
  <2>1. Cardinality(Slots(u, "occupied")) = Cardinality(KeysIn(w))
    BY <1>7, <1>9 DEF Held
  <2> QED  BY <1>1, <1>6, <1>8, <1>12, <1>13, <2>1 DEF Held
<1> QED  BY <1>4, <1>6, <1>7, <1>14 DEF u, w, p, s, Inserted, Assign

(* Another value under a key. *)
LEMMA ReplaceKeeps ==
    ASSUME Hashes, NEW t, NEW m, Held(t, m), NEW k \in HashKeys, NEW d \in Hits(t, k), NEW v \in HashValues
    PROVE  /\ Held(Replaced(t, k, d, v), Assign(m, k, v)) /\ Len(Replaced(t, k, d, v)) = Len(t)
           /\ \A x : Slots(Replaced(t, k, d, v), x) = Slots(t, x)
<1> DEFINE p == SlotAt(t, k, d)
           s == Slot(k, v)
           u == [t EXCEPT ![p] = s]
           w == [m EXCEPT ![k] = v]
<1>1. /\ t \in Seq(SlotSet) /\ Len(t) \in Nat \ {0} /\ Len(t) \in TableSizes
      /\ m \in [HashKeys -> HashValues \cup {None}]
  BY HashAssumption DEF Held
<1>2. d \in 0..(Len(t) - 1) /\ HasKey(t[p], k)
  BY DEF Hits, Rounds, Looked
<1>3. p \in 1..Len(t)
  BY <1>1, <1>2, RoundFacts
<1>4. s \in SlotSet /\ s.state = "occupied" /\ s.key = k /\ s.value = v /\ v # None
  BY HashAssumption DEF Slot, SlotSet, States
<1> HIDE DEF p, s
<1>5. /\ u \in Seq(SlotSet) /\ Len(u) = Len(t)
      /\ \A i \in 1..Len(t) : u[i] = IF i = p THEN s ELSE t[i]
  BY <1>1, <1>3, <1>4
<1>6. w \in [HashKeys -> HashValues \cup {None}] /\ \A q \in HashKeys : w[q] = IF q = k THEN v ELSE m[q]
  BY <1>1
<1>7. m[k] # None /\ \A i \in 1..Len(t) : HasKey(t[i], k) <=> i = p
  BY <1>2, <1>3, KeyOnce
<1>8. KeysIn(w) = KeysIn(m)
  BY <1>4, <1>6, <1>7 DEF KeysIn
<1> HIDE DEF u, w
<1>9. ASSUME NEW i \in 1..Len(t)
      PROVE  (u[i].state = t[i].state /\ u[i].key = t[i].key) \/ (u[i].state = t[i].state /\ t[i].state # "occupied")
  BY <1>2, <1>4, <1>5 DEF HasKey
<1>10. \A x : Slots(u, x) = Slots(t, x)
  <2> TAKE x
  <2>1. \A i \in 1..Len(t) : u[i].state = x <=> t[i].state = x
    BY <1>9
  <2> QED  BY <1>5, <2>1 DEF Slots
<1>11. \A q \in HashKeys, i \in 0..(Len(t) - 1) :
          /\ SlotAt(u, q, i) = SlotAt(t, q, i)
          /\ EndsChain(Looked(u, q, i)) <=> EndsChain(Looked(t, q, i))
          /\ HasKey(Looked(u, q, i), q) <=> HasKey(Looked(t, q, i), q)
  <2> TAKE q \in HashKeys, i \in 0..(Len(t) - 1)
  <2>1. SlotAt(t, q, i) \in 1..Len(t)
    BY <1>1, RoundFacts
  <2>2. SlotAt(u, q, i) = SlotAt(t, q, i)
    BY <1>5 DEF SlotAt
  <2> QED  BY <1>9, <2>1, <2>2 DEF Looked, EndsChain, HasKey
<1>12. \A q \in HashKeys : Rounds(u, q) = Rounds(t, q)
  <2> TAKE q \in HashKeys
  <2>1. \A i \in 0..(Len(t) - 1) : \A j \in 0..(i - 1) : j \in 0..(Len(t) - 1)
    BY <1>1
  <2> QED  BY <1>5, <1>11, <2>1 DEF Rounds
<1>13. ASSUME NEW i \in 1..Len(u), u[i].state = "occupied"
       PROVE  /\ u[i].key \in HashKeys /\ u[i].value = w[u[i].key] /\ w[u[i].key] # None
              /\ \E e \in Rounds(u, u[i].key) : SlotAt(u, u[i].key, e) = i
  <2>1. i \in 1..Len(t) /\ t[i].state = "occupied" /\ u[i].key = t[i].key
    BY <1>5, <1>9, <1>13
  <2> DEFINE q == t[i].key
  <2>2. q \in HashKeys /\ t[i].value = m[q] /\ m[q] # None
    BY <2>1 DEF Held
  <2>3. PICK e \in Rounds(t, q) : SlotAt(t, q, e) = i
    BY <2>1 DEF Held
  <2>4. e \in 0..(Len(t) - 1)
    BY <2>3 DEF Rounds
  <2>5. i = p <=> q = k
    BY <1>7, <2>1 DEF HasKey
  <2> HIDE DEF q
  <2>6. e \in Rounds(u, q) /\ SlotAt(u, q, e) = i
    BY <1>11, <1>12, <2>2, <2>3, <2>4
  <2>7. u[i].value = w[q] /\ w[q] # None
    BY <1>4, <1>5, <1>6, <2>1, <2>2, <2>5
  <2> QED  BY <2>1, <2>2, <2>6, <2>7 DEF q
<1>14. ASSUME NEW q \in HashKeys, w[q] # None
       PROVE  \E i \in 1..Len(u) : HasKey(u[i], q)
  <2>1. m[q] # None
    BY <1>6, <1>7, <1>14
  <2>2. PICK i \in 1..Len(t) : HasKey(t[i], q)
    BY <2>1 DEF Held
  <2>3. HasKey(u[i], q)
    BY <1>9, <2>2 DEF HasKey
  <2> QED  BY <1>5, <2>2, <2>3
<1>15. Held(u, w)
  <2>1. Cardinality(Slots(u, "occupied")) = Cardinality(KeysIn(w))
    BY <1>8, <1>10 DEF Held
  <2> QED  BY <1>1, <1>5, <1>6, <1>13, <1>14, <2>1 DEF Held
<1> QED  BY <1>5, <1>10, <1>15 DEF u, w, p, s, Replaced, Assign

(* A key that is deleted: a tombstone stands in the chains of the others. *)
LEMMA DeleteKeeps ==
    ASSUME Hashes, NEW t, NEW m, Held(t, m), NEW k \in HashKeys, NEW d \in Hits(t, k)
    PROVE  LET u == [t EXCEPT ![SlotAt(t, k, d)] = Tombstone]
           IN  /\ Held(u, [m EXCEPT ![k] = None]) /\ Len(u) = Len(t)
               /\ Cardinality(Slots(u, "occupied")) = Cardinality(Slots(t, "occupied")) - 1
               /\ Cardinality(Slots(u, "deleted")) = Cardinality(Slots(t, "deleted")) + 1
<1> DEFINE p == SlotAt(t, k, d)
           s == Tombstone
           u == [t EXCEPT ![p] = s]
           w == [m EXCEPT ![k] = None]
<1>1. /\ t \in Seq(SlotSet) /\ Len(t) \in Nat \ {0} /\ Len(t) \in TableSizes
      /\ m \in [HashKeys -> HashValues \cup {None}]
  BY HashAssumption DEF Held
<1>2. d \in 0..(Len(t) - 1) /\ HasKey(t[p], k)
  BY DEF Hits, Rounds, Looked
<1>3. p \in 1..Len(t)
  BY <1>1, <1>2, RoundFacts
<1>4. s \in SlotSet /\ s.state = "deleted"
  BY DEF Tombstone, SlotSet, States
<1> HIDE DEF p, s
<1>5. /\ u \in Seq(SlotSet) /\ Len(u) = Len(t)
      /\ \A i \in 1..Len(t) : u[i] = IF i = p THEN s ELSE t[i]
  BY <1>1, <1>3, <1>4
<1>6. w \in [HashKeys -> HashValues \cup {None}] /\ \A q \in HashKeys : w[q] = IF q = k THEN None ELSE m[q]
  BY <1>1
<1>7. m[k] # None /\ \A i \in 1..Len(t) : HasKey(t[i], k) <=> i = p
  BY <1>2, <1>3, KeyOnce
<1>8. Cardinality(KeysIn(w)) = Cardinality(KeysIn(m)) - 1
  <2>1. KeysIn(w) = KeysIn(m) \ {k} /\ k \in KeysIn(m)
    BY <1>6, <1>7 DEF KeysIn
  <2> QED  BY <2>1, KeysFinite, FS_RemoveElement
<1>9. /\ Cardinality(Slots(u, "occupied")) = Cardinality(Slots(t, "occupied")) - 1
      /\ Cardinality(Slots(u, "deleted")) = Cardinality(Slots(t, "deleted")) + 1
  <2>1. /\ u[p].state = "deleted" /\ u[p].state # "occupied"
        /\ t[p].state = "occupied" /\ t[p].state # "deleted"
    BY <1>2, <1>3, <1>4, <1>5 DEF HasKey
  <2>2. \A x : Slots(u, x) = IF u[p].state = x THEN Slots(t, x) \cup {p} ELSE Slots(t, x) \ {p}
    <3> HIDE DEF u
    <3> QED  BY <1>3, <1>5 DEF Slots
  <2>3. Cardinality(Slots(t, "occupied") \ {p}) = Cardinality(Slots(t, "occupied")) - 1
    BY <1>1, <1>3, <2>1, SlotsChanged
  <2>4. Cardinality(Slots(t, "deleted") \cup {p}) = Cardinality(Slots(t, "deleted")) + 1
    BY <1>1, <1>3, <2>1, SlotsChanged
  <2> HIDE DEF u
  <2> QED  BY <2>1, <2>2, <2>3, <2>4
<1> HIDE DEF u, w
<1>10. \A q \in HashKeys, i \in 0..(Len(t) - 1) :
          /\ SlotAt(u, q, i) = SlotAt(t, q, i)
          /\ Looked(u, q, i) = IF SlotAt(t, q, i) = p THEN s ELSE Looked(t, q, i)
  <2> TAKE q \in HashKeys, i \in 0..(Len(t) - 1)
  <2>1. SlotAt(t, q, i) \in 1..Len(t)
    BY <1>1, RoundFacts
  <2>2. SlotAt(u, q, i) = SlotAt(t, q, i)
    BY <1>5 DEF SlotAt
  <2> QED  BY <1>5, <2>1, <2>2 DEF Looked
<1>11. ~EndsChain(s) /\ \A q \in HashKeys : ~HasKey(s, q)
  BY <1>4 DEF EndsChain, HasKey
<1>12. \A q \in HashKeys : Rounds(t, q) \subseteq Rounds(u, q)
  <2> SUFFICES ASSUME NEW q \in HashKeys, NEW e \in Rounds(t, q)
               PROVE  e \in Rounds(u, q)
    OBVIOUS
  <2>1. /\ e \in 0..(Len(t) - 1)
        /\ \A j \in 0..(e - 1) : ~EndsChain(Looked(t, q, j)) /\ ~HasKey(Looked(t, q, j), q)
    BY DEF Rounds
  <2>2. \A j \in 0..(e - 1) : j \in 0..(Len(t) - 1)
    BY <1>1, <2>1
  <2>3. \A j \in 0..(e - 1) : ~EndsChain(Looked(u, q, j)) /\ ~HasKey(Looked(u, q, j), q)
    BY <1>10, <1>11, <2>1, <2>2
  <2> QED  BY <1>5, <2>1, <2>3 DEF Rounds
<1>13. ASSUME NEW i \in 1..Len(u), u[i].state = "occupied"
       PROVE  /\ u[i].key \in HashKeys /\ u[i].value = w[u[i].key] /\ w[u[i].key] # None
              /\ \E e \in Rounds(u, u[i].key) : SlotAt(u, u[i].key, e) = i
  <2>1. i \in 1..Len(t) /\ i # p /\ u[i] = t[i] /\ t[i].state = "occupied"
    BY <1>4, <1>5, <1>13
  <2> DEFINE q == t[i].key
  <2>2. q \in HashKeys /\ t[i].value = m[q] /\ m[q] # None
    BY <2>1 DEF Held
  <2>3. PICK e \in Rounds(t, q) : SlotAt(t, q, e) = i
    BY <2>1 DEF Held
  <2>4. e \in 0..(Len(t) - 1)
    BY <2>3 DEF Rounds
  <2>5. q # k
    BY <1>7, <2>1 DEF HasKey
  <2> HIDE DEF q
  <2>6. e \in Rounds(u, q) /\ SlotAt(u, q, e) = i
    BY <1>10, <1>12, <2>2, <2>3, <2>4
  <2> QED  BY <1>6, <2>1, <2>2, <2>5, <2>6 DEF q
<1>14. ASSUME NEW q \in HashKeys, w[q] # None
       PROVE  \E i \in 1..Len(u) : HasKey(u[i], q)
  <2>1. m[q] # None /\ q # k
    BY <1>6, <1>14
  <2>2. PICK i \in 1..Len(t) : HasKey(t[i], q)
    BY <2>1 DEF Held
  <2>3. i # p
    BY <1>2, <2>1, <2>2 DEF HasKey
  <2> QED  BY <1>5, <2>2, <2>3
<1>15. Held(u, w)
  <2>1. Cardinality(Slots(u, "occupied")) = Cardinality(KeysIn(w))
    BY <1>8, <1>9 DEF Held
  <2> QED  BY <1>1, <1>5, <1>6, <1>13, <1>14, <2>1 DEF Held
<1> QED  BY <1>5, <1>9, <1>15 DEF u, w, p, s

(* A table without keys holds the map without keys. *)
LEMMA EmptyKept ==
    ASSUME NEW size \in TableSizes
    PROVE  /\ Held(Table(size), [k \in HashKeys |-> None]) /\ Len(Table(size)) = size
           /\ Slots(Table(size), "occupied") = {} /\ Slots(Table(size), "deleted") = {}
<1> DEFINE t == Table(size)
           m == [k \in HashKeys |-> None]
<1>1. size \in Nat \ {0}
  BY HashAssumption
<1>2. EmptySlot \in SlotSet /\ EmptySlot.state = "empty"
  BY DEF EmptySlot, SlotSet, States
<1>3. t \in Seq(SlotSet) /\ Len(t) = size /\ \A i \in 1..size : t[i] = EmptySlot
  <2>1. t \in [1..size -> SlotSet]
    BY <1>2 DEF Table
  <2> QED  BY <1>1, <2>1 DEF Table
<1> HIDE DEF t
<1>4. Slots(t, "occupied") = {} /\ Slots(t, "deleted") = {}
  BY <1>2, <1>3 DEF Slots
<1>5. KeysIn(m) = {}
  BY DEF KeysIn
<1>6. Held(t, m)
  BY <1>2, <1>3, <1>4, <1>5 DEF Held
<1> QED  BY <1>3, <1>4, <1>6 DEF t

(* slotsFor: a size at which the load is below the limit. *)
LEMMA SlotsForFacts ==
    ASSUME NEW n \in 1..Cardinality(HashKeys)
    PROVE  SlotsFor(n) \in TableSizes /\ 10 * n < 7 * SlotsFor(n) /\ n < SlotsFor(n)
<1>1. n \in Nat \ {0}
  BY KeysFinite
<1> DEFINE x == (10 * n) \div 7 + 1
           S == {s \in TableSizes : s >= x}
<1>2. x \in Nat /\ 10 * n < 7 * x
  BY <1>1
<1>3. PICK s \in TableSizes : s >= x
  BY HashAssumption
<1>4. s \in Nat /\ TableSizes \subseteq Nat
  BY HashAssumption
<1> HIDE DEF x
<1>5. PICK y \in S \cap (0..s) : \A z \in S \cap (0..s) : y <= z
  <2>1. s \in S \cap (0..s)
    BY <1>3, <1>4
  <2>2. S \cap (0..s) \in SUBSET (0..s)
    OBVIOUS
  <2> HIDE DEF S
  <2> QED  BY <1>4, <2>1, <2>2, LeastOf
<1>6. y \in S /\ \A z \in S : y <= z
  BY <1>4, <1>5
<1>7. SlotsFor(n) = Min(S)
  BY DEF SlotsFor, x
<1>8. Min(S) \in S
  <2> HIDE DEF S
  <2> QED  BY <1>6 DEF Min
<1>9. SlotsFor(n) \in TableSizes /\ SlotsFor(n) >= x /\ SlotsFor(n) \in Nat
  BY <1>4, <1>7, <1>8
<1> HIDE DEF S
<1> QED  BY <1>1, <1>2, <1>9

(* resize: the new table holds the same map, and no tombstone. *)
LEMMA RehashKeeps ==
    ASSUME Hashes, NEW old, NEW m, Held(old, m), NEW size \in TableSizes,
           Cardinality(Slots(old, "occupied")) < size
    PROVE  LET u == Rehashed(old, size)
           IN  Held(u, m) /\ Len(u) = size /\ Slots(u, "deleted") = {}
<1> DEFINE N == Len(old)
           f == CHOOSE g : g = [i \in 0..N |-> IF i = 0 THEN Table(size) ELSE Carried(old[i], g[i - 1])]
           part(i) == [k \in HashKeys |-> IF \E j \in 1..i : HasKey(old[j], k) THEN m[k] ELSE None]
<1>1. /\ old \in Seq(SlotSet) /\ N \in Nat /\ size \in Nat
      /\ m \in [HashKeys -> HashValues \cup {None}]
  BY HashAssumption DEF Held
<1>2. Rehashed(old, size) = f[N]
  BY DEF Rehashed
<1>3. f = [i \in 0..N |-> IF i = 0 THEN Table(size) ELSE Carried(old[i], f[i - 1])]
  <2> DEFINE S == {i \in 0..N : \E g : g = [j \in 0..i |-> IF j = 0 THEN Table(size) ELSE Carried(old[j], g[j - 1])]}
  <2>1. 0 \in S
    <3> DEFINE g == [j \in 0..0 |-> Table(size)]
    <3>1. g = [j \in 0..0 |-> IF j = 0 THEN Table(size) ELSE Carried(old[j], g[j - 1])]
      OBVIOUS
    <3> HIDE DEF g
    <3> QED  BY <1>1, <3>1
  <2>2. ASSUME NEW i \in 0..(N - 1), i \in S
        PROVE  i + 1 \in S
    <3>1. PICK g : g = [j \in 0..i |-> IF j = 0 THEN Table(size) ELSE Carried(old[j], g[j - 1])]
      BY <2>2
    <3> DEFINE h == [j \in 0..(i + 1) |-> IF j = i + 1 THEN Carried(old[j], g[i]) ELSE g[j]]
    <3>2. \A j \in 0..(i + 1) : h[j] = IF j = 0 THEN Table(size) ELSE Carried(old[j], h[j - 1])
      BY <3>1
    <3>3. h = [j \in 0..(i + 1) |-> IF j = 0 THEN Table(size) ELSE Carried(old[j], h[j - 1])]
      BY <3>2
    <3> HIDE DEF h
    <3> QED  BY <1>1, <3>3
  <2>3. N \in S
    <3>1. S \in SUBSET (0..N)
      OBVIOUS
    <3> HIDE DEF S, N
    <3> QED  BY <1>1, <2>1, <2>2, <3>1, Upward
  <2>4. \E g : g = [i \in 0..N |-> IF i = 0 THEN Table(size) ELSE Carried(old[i], g[i - 1])]
    BY <2>3
  <2> QED  BY <2>4
<1> HIDE DEF f
<1>4. f[0] = Table(size) /\ \A i \in 0..(N - 1) : f[i + 1] = Carried(old[i + 1], f[i])
  <2>1. \A i \in 0..N : f[i] = IF i = 0 THEN Table(size) ELSE Carried(old[i], f[i - 1])
    BY <1>3
  <2> QED  BY <1>1, <2>1
<1> DEFINE Filled(i) == Held(f[i], part(i)) /\ Len(f[i]) = size /\ Slots(f[i], "deleted") = {}
<1>5. Filled(0)
  <2>1. part(0) = [k \in HashKeys |-> None]
    OBVIOUS
  <2> QED  BY <1>4, <2>1, EmptyKept
<1>6. ASSUME NEW i \in 0..(N - 1), Filled(i)
      PROVE  Filled(i + 1)
  <2>1. i + 1 \in 1..N /\ \A j \in 1..(i + 1) : j \in 1..i \/ j = i + 1
    BY <1>1
  <2>2. CASE old[i + 1].state # "occupied"
    <3>1. f[i + 1] = f[i]
      BY <1>4, <2>2 DEF Carried
    <3>2. \A k \in HashKeys : (\E j \in 1..i : HasKey(old[j], k)) <=> (\E j \in 1..(i + 1) : HasKey(old[j], k))
      BY <2>1, <2>2 DEF HasKey
    <3>3. part(i + 1) = part(i)
      BY <3>2
    <3> HIDE DEF part
    <3> QED  BY <1>6, <3>1, <3>3
  <2>3. CASE old[i + 1].state = "occupied"
    <3> DEFINE k == old[i + 1].key
               v == m[k]
               t == f[i]
    <3>1. /\ k \in HashKeys /\ v \in HashValues /\ old[i + 1].value = v /\ HasKey(old[i + 1], k)
          /\ \A j \in 1..N : HasKey(old[j], k) => j = i + 1
      <4>1. HasKey(old[i + 1], k)
        BY <2>3 DEF HasKey
      <4> HIDE DEF k
      <4> QED  BY <1>1, <2>1, <4>1, KeyOnce
    <3>2. old[i + 1] = Slot(k, v)
      <4>1. old[i + 1] \in SlotSet
        BY <1>1, <2>1, ElementOfSeq
      <4> QED  BY <2>3, <3>1, <4>1 DEF Slot, SlotSet
    <3>3. f[i + 1] = Inserted(t, k, v)
      BY <1>4, <2>3, <3>2 DEF Carried, Inserted
    <3> HIDE DEF k, v
    <3>4. part(i)[k] = None
      BY <1>1, <3>1
    <3>5. part(i + 1) = Assign(part(i), k, v)
      <4>1. \A q \in HashKeys : part(i + 1)[q] = IF q = k THEN m[k] ELSE part(i)[q]
        <5> TAKE q \in HashKeys
        <5>1. CASE q = k
          BY <2>1, <3>1, <5>1
        <5>2. CASE q # k
          <6>1. (\E j \in 1..i : HasKey(old[j], q)) <=> (\E j \in 1..(i + 1) : HasKey(old[j], q))
            BY <2>1, <3>1, <5>2 DEF HasKey
          <6> QED  BY <5>2, <6>1
        <5> QED  BY <5>1, <5>2
      <4> QED  BY <4>1 DEF v, Assign
    <3>6. Cardinality(Slots(t, "occupied")) < Len(t)
      <4>1. KeysIn(part(i)) \in SUBSET KeysIn(m)
        BY DEF KeysIn
      <4>2. Cardinality(KeysIn(part(i))) <= Cardinality(KeysIn(m))
        <5> HIDE DEF part
        <5> QED  BY <4>1, KeysFinite, FS_Subset
      <4>3. Cardinality(KeysIn(m)) < size /\ Cardinality(KeysIn(m)) \in Nat /\ Cardinality(KeysIn(part(i))) \in Nat
        BY KeysFinite DEF Held
      <4> HIDE DEF part, t
      <4> QED  BY <1>1, <1>6, <4>2, <4>3 DEF Held, t
    <3> HIDE DEF part
    <3>7. Held(t, part(i))
      BY <1>6
    <3> HIDE DEF t
    <3> DEFINE z == part(i)
    <3>8. /\ Held(Inserted(t, k, v), Assign(z, k, v)) /\ Len(Inserted(t, k, v)) = Len(t)
          /\ Slots(Inserted(t, k, v), "deleted") = Slots(t, "deleted") \ {PlaceFor(t, k)}
      <4>1. z[k] = None /\ Held(t, z)
        BY <3>4, <3>7
      <4> HIDE DEF z
      <4> QED  BY <3>1, <3>6, <4>1, InsertKeeps
    <3>9. Len(t) = size /\ Slots(t, "deleted") = {}
      BY <1>6 DEF t
    <3> QED  BY <3>3, <3>5, <3>8, <3>9
  <2> QED  BY <2>2, <2>3
<1>7. Filled(N)
  <2> DEFINE S == {i \in 0..N : Filled(i)}
  <2>1. 0 \in S /\ S \in SUBSET (0..N)
    <3>1. 0 \in 0..N
      BY <1>1
    <3> HIDE DEF Filled
    <3> QED  BY <1>5, <3>1
  <2>2. \A i \in 0..(N - 1) : i \in S => i + 1 \in S
    <3> TAKE i \in 0..(N - 1)
    <3>1. i \in 0..N /\ i + 1 \in 0..N
      BY <1>1
    <3>2. Filled(i) => Filled(i + 1)
      BY <1>6
    <3> HIDE DEF Filled
    <3> QED  BY <3>1, <3>2
  <2>3. N \in S
    <3> HIDE DEF S, N
    <3> QED  BY <1>1, <2>1, <2>2, Upward
  <2> QED  BY <2>3
<1>8. part(N) = m
  <2>1. \A k \in HashKeys : m[k] # None <=> \E j \in 1..N : HasKey(old[j], k)
    <3> TAKE k \in HashKeys
    <3>1. m[k] # None => \E j \in 1..N : HasKey(old[j], k)
      BY DEF Held
    <3>2. ASSUME NEW j \in 1..N, HasKey(old[j], k)
          PROVE  m[k] # None
      BY <3>2, KeyOnce
    <3> QED  BY <3>1, <3>2
  <2> QED  BY <1>1, <2>1
<1> QED  BY <1>2, <1>7, <1>8

-----------------------------------------------------------------------------
HashInv ==
    /\ Hashes
    /\ IF table = <<>> THEN occupied = 0 /\ dead = 0 /\ hashMap = [k \in HashKeys |-> None]
       ELSE /\ Held(table, hashMap)
            /\ occupied = Cardinality(Slots(table, "occupied"))
            /\ dead = Cardinality(Slots(table, "deleted"))
            /\ 10 * (occupied + dead) <= 7 * Len(table)

(* What Put finds: a table that holds the map, and not too full. *)
LEMMA AllocatedKept ==
    ASSUME HashInv, NEW k \in HashKeys
    PROVE  /\ Held(Allocated, hashMap)
           /\ occupied = Cardinality(Slots(Allocated, "occupied"))
           /\ dead = Cardinality(Slots(Allocated, "deleted"))
           /\ 10 * (occupied + dead) <= 7 * Len(Allocated)
<1>1. CASE table # <<>>
  BY <1>1 DEF HashInv, Allocated
<1>2. CASE table = <<>>
  <2>1. 1 \in 1..Cardinality(HashKeys)
    BY HashAssumption, FS_EmptySet, FS_CardinalityType
  <2>2. SlotsFor(1) \in TableSizes
    BY <2>1, SlotsForFacts
  <2>3. Allocated = Table(SlotsFor(1)) /\ occupied = 0 /\ dead = 0 /\ hashMap = [q \in HashKeys |-> None]
    BY <1>2 DEF HashInv, Allocated
  <2>4. SlotsFor(1) \in Nat
    BY <2>2, HashAssumption
  <2>5. /\ Held(Allocated, hashMap) /\ Len(Allocated) \in Nat
        /\ Slots(Allocated, "occupied") = {} /\ Slots(Allocated, "deleted") = {}
    BY <2>2, <2>3, <2>4, EmptyKept
  <2> QED  BY <2>3, <2>5, FS_EmptySet
<1> QED  BY <1>1, <1>2

(* The invariant of the next state, from the table a step puts there. *)
LEMMA NextKept ==
    ASSUME Hashes, hashOf' = hashOf, NEW t, NEW m, Held(t, m), table' = t, hashMap' = m,
           occupied' = Cardinality(Slots(t, "occupied")), dead' = Cardinality(Slots(t, "deleted")),
           10 * (occupied' + dead') <= 7 * Len(t)
    PROVE  HashInv'
<1>1. t # <<>>
  <2>1. Len(t) # 0
    BY HashAssumption DEF Held
  <2> QED  BY <2>1
<1>2. Held(table, hashMap)'
  <2>1. \A k, i : SlotAt(table, k, i)' = SlotAt(t, k, i)
    BY DEF SlotAt
  <2>2. \A k, i : Looked(table, k, i)' = Looked(t, k, i)
    BY <2>1 DEF Looked
  <2>3. \A k : Rounds(table, k)' = Rounds(t, k)
    BY <2>2 DEF Rounds
  <2> QED  BY <2>1, <2>3 DEF Held
<1> QED  BY <1>1, <1>2 DEF HashInv, Hashes, Slots

(* Put. *)
LEMMA PutKeeps ==
    ASSUME HashInv, NEW k \in HashKeys, NEW v \in HashValues, HashPut(k, v)
    PROVE  HashInv'
<1> DEFINE t == Allocated
           m == hashMap
           w == Assign(m, k, v)
<1>1. /\ Hashes /\ Held(t, m) /\ 10 * (occupied + dead) <= 7 * Len(t)
      /\ occupied = Cardinality(Slots(t, "occupied")) /\ dead = Cardinality(Slots(t, "deleted"))
  BY AllocatedKept DEF HashInv
<1>2. /\ t \in Seq(SlotSet) /\ Len(t) \in Nat \ {0} /\ occupied \in Nat /\ dead \in Nat
      /\ m \in [HashKeys -> HashValues \cup {None}]
  <2>1. t \in Seq(SlotSet) /\ Len(t) \in Nat \ {0} /\ m \in [HashKeys -> HashValues \cup {None}]
    BY <1>1, HashAssumption DEF Held
  <2> HIDE DEF t
  <2> QED  BY <1>1, <2>1, SlotsFinite
<1>3. hashMap' = w /\ hashOf' = hashOf /\ (HashReplace(t, k, v) \/ HashInsert(t, k, v))
  BY DEF HashPut, Assign
<1> HIDE DEF t, m, w
<1>4. CASE HashReplace(t, k, v)
  <2>1. PICK i \in Hits(t, k) : /\ table' = [t EXCEPT ![SlotAt(t, k, i)] = Slot(k, v)]
                               /\ occupied' = occupied /\ dead' = dead
    BY <1>4 DEF HashReplace
  <2> DEFINE u == Replaced(t, k, i, v)
  <2>2. Held(u, w) /\ Len(u) = Len(t) /\ \A x : Slots(u, x) = Slots(t, x)
    BY <1>1, ReplaceKeeps DEF w
  <2>3. table' = u
    BY <2>1 DEF Replaced
  <2> HIDE DEF u
  <2> QED  BY <1>1, <1>3, <2>1, <2>2, <2>3, NextKept
<1>5. CASE HashInsert(t, k, v)
  <2> DEFINE p == PlaceFor(t, k)
             u == Inserted(t, k, v)
             used == IF t[p].state = "deleted" THEN dead - 1 ELSE dead
             full == OverLoaded(occupied + 1 + used, Len(t))
  <2>1. /\ Hits(t, k) = {} /\ occupied' = occupied + 1
        /\ table' = IF full THEN Rehashed(u, SlotsFor(occupied + 1)) ELSE u
        /\ dead' = IF full THEN 0 ELSE used
    BY <1>5 DEF HashInsert, Inserted
  <2>2. m[k] = None
    BY <1>1, <2>1, Answers
  <2>3. Cardinality(Slots(t, "occupied")) < Len(t)
    BY <1>1, <1>2
  <2>4. /\ Held(u, w) /\ Len(u) = Len(t) /\ p \in 1..Len(t)
        /\ Cardinality(Slots(u, "occupied")) = occupied + 1
        /\ Slots(u, "deleted") = Slots(t, "deleted") \ {p}
    BY <1>1, <2>2, <2>3, InsertKeeps DEF w
  <2>5. Cardinality(Slots(u, "deleted")) = used /\ used \in Nat
    <3>1. Cardinality(Slots(t, "deleted") \ {p}) = used
      BY <1>1, <1>2, <2>4, SlotsChanged
    <3>2. Cardinality(Slots(u, "deleted")) \in Nat
      <4> HIDE DEF u
      <4> QED  BY <2>4, SlotsFinite DEF Held
    <3> QED  BY <2>4, <3>1, <3>2
  <2> HIDE DEF u, used
  <2>6. CASE ~full
    <3>1. 10 * (occupied' + dead') <= 7 * Len(u)
      BY <1>2, <2>1, <2>4, <2>5, <2>6 DEF OverLoaded
    <3> QED  BY <1>1, <1>3, <2>1, <2>4, <2>5, <2>6, <3>1, NextKept
  <2>7. CASE full
    <3>1. occupied + 1 \in 1..Cardinality(HashKeys)
      <4>1. occupied + 1 = Cardinality(KeysIn(w))
        BY <2>4 DEF Held
      <4> QED  BY <1>2, <4>1, KeysFinite
    <3> DEFINE size == SlotsFor(occupied + 1)
               z == Rehashed(u, size)
    <3>2. size \in TableSizes /\ 10 * (occupied + 1) < 7 * size /\ occupied + 1 < size
      BY <3>1, SlotsForFacts
    <3>3. Held(z, w) /\ Len(z) = size /\ Slots(z, "deleted") = {}
      <4> HIDE DEF size
      <4> QED  BY <1>1, <2>4, <3>2, RehashKeeps
    <3>4. table' = z /\ occupied' = occupied + 1 /\ dead' = 0
      BY <2>1, <2>7
    <3> HIDE DEF size, z
    <3>5. Cardinality(Slots(z, "occupied")) = occupied + 1
      BY <2>4, <3>3 DEF Held
    <3>6. 10 * (occupied' + dead') <= 7 * Len(z)
      BY <1>2, <3>2, <3>3, <3>4, HashAssumption
    <3> QED  BY <1>1, <1>3, <3>3, <3>4, <3>5, <3>6, FS_EmptySet, NextKept
  <2> QED  BY <2>6, <2>7
<1> QED  BY <1>3, <1>4, <1>5

(* Delete. *)
LEMMA DeletionKeeps ==
    ASSUME HashInv, NEW k \in HashKeys, HashDelete(k)
    PROVE  HashInv'
<1>1. PICK i \in Hits(table, k) :
         /\ table' = [table EXCEPT ![SlotAt(table, k, i)] = Tombstone] /\ hashOf' = hashOf
         /\ occupied' = occupied - 1 /\ dead' = dead + 1 /\ hashMap' = [hashMap EXCEPT ![k] = None]
  BY DEF HashDelete
<1>2. table # <<>>
  BY DEF HashDelete, HashInv
<1>3. /\ Hashes /\ Held(table, hashMap) /\ 10 * (occupied + dead) <= 7 * Len(table)
      /\ occupied = Cardinality(Slots(table, "occupied")) /\ dead = Cardinality(Slots(table, "deleted"))
  BY <1>2 DEF HashInv
<1>4. occupied \in Nat /\ dead \in Nat /\ Len(table) \in Nat
  BY <1>3, SlotsFinite DEF Held
<1> DEFINE u == [table EXCEPT ![SlotAt(table, k, i)] = Tombstone]
           w == [hashMap EXCEPT ![k] = None]
<1>5. /\ Held(u, w) /\ Len(u) = Len(table)
      /\ Cardinality(Slots(u, "occupied")) = occupied - 1 /\ Cardinality(Slots(u, "deleted")) = dead + 1
  BY <1>3, DeleteKeeps
<1>6. table' = u /\ hashMap' = w
  BY <1>1
<1> HIDE DEF u, w
<1>7. 10 * (occupied' + dead') <= 7 * Len(u)
  BY <1>1, <1>3, <1>4, <1>5
<1> QED  BY <1>1, <1>3, <1>5, <1>6, <1>7, NextKept

(* After every call the table holds the map, each key at the end of a      *)
(* chain that nothing cuts, and the counters count it.                     *)
THEOREM HashInvariant == HashSpec => []HashInv
<1>1. HashInit => HashInv
  BY HashAssumption DEF HashInit, HashInv, Hashes
<1>2. HashInv /\ [HashNext]_hashVars => HashInv'
  <2> SUFFICES ASSUME HashInv, [HashNext]_hashVars PROVE HashInv'
    OBVIOUS
  <2>1. CASE UNCHANGED hashVars
    <3>1. CASE table = <<>>
      BY <2>1, <3>1 DEF hashVars, HashInv, Hashes
    <3>2. CASE table # <<>>
      BY <2>1, <3>2, NextKept DEF hashVars, HashInv
    <3> QED  BY <3>1, <3>2
  <2>2. CASE HashNext
    <3>1. PICK k \in HashKeys : (\E v \in HashValues : HashPut(k, v)) \/ HashDelete(k)
      BY <2>2 DEF HashNext
    <3>2. CASE \E v \in HashValues : HashPut(k, v)
      BY <3>2, PutKeeps
    <3> QED  BY <3>1, <3>2, DeletionKeeps
  <2> QED  BY <2>1, <2>2
<1> QED  BY <1>1, <1>2, PTL DEF HashSpec

(* hashmap.go: after any Puts and Deletes every lookup answers what the    *)
(* calls stored, for any keys, hash functions and table sizes.             *)
THEOREM LookupHolds == HashSpec => []LookupIsTheMap
<1>1. ASSUME HashInv
      PROVE  LookupIsTheMap
  <2>1. CASE table = <<>>
    <3>1. occupied = 0 /\ hashMap = [k \in HashKeys |-> None]
      BY <1>1, <2>1 DEF HashInv
    <3>2. Slots(table, "occupied") = {} /\ KeysIn(hashMap) = {}
      BY <2>1, <3>1 DEF Slots, KeysIn
    <3> QED  BY <3>1, <3>2 DEF LookupIsTheMap, Get
  <2>2. CASE table # <<>>
    <3>1. Hashes /\ Held(table, hashMap) /\ occupied = Cardinality(Slots(table, "occupied"))
      BY <1>1, <2>2 DEF HashInv
    <3>2. ASSUME NEW k \in HashKeys
          PROVE  Get(k) = hashMap[k]
      <4>1. CASE hashMap[k] = None
        <5>1. Hits(table, k) = {}
          BY <3>1, <4>1, Answers
        <5> QED  BY <4>1, <5>1 DEF Get
      <4>2. CASE hashMap[k] # None
        <5>1. Hits(table, k) # {} /\ \A d \in Hits(table, k) : Looked(table, k, d).value = hashMap[k]
          BY <3>1, <4>2, Answers
        <5>2. occupied # 0
          <6>1. k \in KeysIn(hashMap)
            BY <4>2 DEF KeysIn
          <6>2. Cardinality(KeysIn(hashMap)) # 0
            BY <6>1, KeysFinite, FS_EmptySet
          <6> QED  BY <3>1, <6>2 DEF Held
        <5> QED  BY <5>1, <5>2 DEF Get
      <4> QED  BY <4>1, <4>2
    <3> QED  BY <3>1, <3>2 DEF LookupIsTheMap, Held
  <2> QED  BY <2>1, <2>2
<1> QED  BY <1>1, HashInvariant, PTL

(* hashmap.go: the counters count the slots, and a probe always has an     *)
(* answer.                                                                 *)
THEOREM RoomHoldsOut == HashSpec => []RoomIsLeft
<1>1. ASSUME HashInv
      PROVE  RoomIsLeft
  <2>1. CASE table = <<>>
    <3>1. Slots(table, "occupied") = {} /\ Slots(table, "deleted") = {}
      BY <2>1 DEF Slots
    <3> QED  BY <1>1, <2>1, <3>1, FS_EmptySet DEF HashInv, RoomIsLeft
  <2>2. CASE table # <<>>
    <3>1. /\ Hashes /\ Held(table, hashMap) /\ 10 * (occupied + dead) <= 7 * Len(table)
          /\ occupied = Cardinality(Slots(table, "occupied")) /\ dead = Cardinality(Slots(table, "deleted"))
      BY <1>1, <2>2 DEF HashInv
    <3>2. table \in Seq(SlotSet) /\ Len(table) \in Nat \ {0} /\ occupied \in Nat /\ dead \in Nat
      BY <3>1, SlotsFinite, HashAssumption DEF Held
    <3>3. occupied + dead < Len(table) /\ ~OverLoaded(occupied + dead, Len(table)) /\ occupied < Len(table)
      BY <3>1, <3>2 DEF OverLoaded
    <3>4. \A k \in HashKeys : FreeRounds(table, k) # {}
      BY <3>1, <3>2, <3>3, PlaceThere
    <3> QED  BY <3>1, <3>3, <3>4 DEF RoomIsLeft
  <2> QED  BY <2>1, <2>2
<1> QED  BY <1>1, HashInvariant, PTL

-----------------------------------------------------------------------------
(* The structures and the steps together. *)

(* After any sequence of calls the hash table and the ring buffer hold     *)
(* what their callers stored, and there is room for a new key (hashmap.go, *)
(* queue.go), for any keys, players, hash functions and sizes.             *)
THEOREM StructuresAreHeld == HashSpec /\ RingSpec => []StructuresHold
<1> QED  BY LookupHolds, RoomHoldsOut, RingHolds, PTL DEF StructuresHold

(* What single steps of three lessons keep: Seen leaves the map of         *)
(* deliveries swept, MatchAll serves who came first, and a search's range  *)
(* narrows.                                                                *)
THEOREM OrderIsKept == HookSpec /\ RingSpec /\ SearchSpec => StepsKeepOrder
<1> QED  BY HistoryStaysSwept, MatchesInOrder, RangesShrink DEF StepsKeepOrder
=============================================================================
