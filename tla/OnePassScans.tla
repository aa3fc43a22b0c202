---------------------------- MODULE OnePassScans ----------------------------
(***************************************************************************)
(* dsa/patterns/monotonicstack, slidingwindow and twopointers over the     *)
(* input: the stack of indices whose answer is not known yet, windows of a *)
(* size and those whose left end follows the right one, and pointers that  *)
(* close in from both ends or write behind a reader.  Positions count from *)
(* 1; a window is left..right, 0 is Absent and <<0, 0>> no pair.           *)
(***************************************************************************)
EXTENDS InputSequence, SequencesExt, FiniteSetsExt

Top(stack) == Last(stack)

(* The stack without the run of indices at its top that Beaten holds of.   *)
RECURSIVE Unbeaten(_, _)

(* Mutant: an index answers only the nearest one it beats. *)
UnbeatenOnce(stack, beaten) ==
    IF stack # <<>> /\ Top(stack) \in beaten THEN Front(stack) ELSE stack

Unbeaten(stack, beaten) ==
    IF stack # <<>> /\ Top(stack) \in beaten THEN Unbeaten(Front(stack), beaten) ELSE stack

(* One index of the scan: what it beats is answered by it, and it is pushed. *)
ScanStep(state, at, beats) ==
    LET kept == Unbeaten(state.stack, {i \in 1..Len(input) : <<input[at], input[i]>> \in beats})
        gone == {state.stack[j] : j \in (Len(kept) + 1)..Len(state.stack)}
    IN  [stack |-> Append(kept, at),
         out   |-> [i \in 1..Len(input) |-> IF i \in gone THEN at ELSE state.out[i]]]
Scan(order, beats) ==
    FoldLeft(LAMBDA state, at : ScanStep(state, at, beats),
             [stack |-> <<>>, out |-> [i \in 1..Len(input) |-> 0]], order).out

Forwards  == [i \in 1..Len(input) |-> i]
Backwards == Reverse(Forwards)
ValuePairs     == InputValues \X InputValues
Greater        == {p \in ValuePairs : p[1] > p[2]}
Smaller        == {p \in ValuePairs : p[1] < p[2]}
GreaterOrEqual == {p \in ValuePairs : p[1] >= p[2]}
SmallerOrEqual == {p \in ValuePairs : p[1] <= p[2]}

NextGreater            == Scan(Forwards, Greater)
NextGreaterOrEqual     == Scan(Forwards, GreaterOrEqual)
NextSmaller            == Scan(Forwards, Smaller)
PreviousGreater        == Scan(Backwards, Greater)
PreviousSmaller        == Scan(Backwards, Smaller)
PreviousSmallerOrEqual == Scan(Backwards, SmallerOrEqual)

DaysUntilWarmer == [i \in 1..Len(input) |-> IF NextGreater[i] = 0 THEN 0 ELSE NextGreater[i] - i]
StockSpan == [i \in 1..Len(input) |-> i - PreviousGreater[i]]

(* Spanner: the same spans from prices that arrive one at a time. *)
Span(state, at) ==
    LET kept == Unbeaten(state.stack, {i \in 1..Len(input) : input[i] <= input[at]})
    IN  [stack |-> Append(kept, at),
         spans |-> Append(state.spans, IF kept = <<>> THEN at ELSE at - Top(kept))]
SpannerSpans == FoldLeft(Span, [stack |-> <<>>, spans |-> <<>>], Forwards).spans

(* The widest run around each bar that no bar is smaller in. *)
WidthAt(i) == (IF NextSmaller[i] = 0 THEN Len(input) + 1 ELSE NextSmaller[i]) - PreviousSmaller[i] - 1
LargestRectangle == IF input = <<>> THEN 0 ELSE Max({input[i] * WidthAt(i) : i \in 1..Len(input)})

(* Mutant: the layer is as deep as the wall that closed it. *)
LayerToWall(left, floor, i) ==
    (i - left - 1) * (input[i] - input[floor])

(* One layer over a floor, up to the lower of its walls. *)
Layer(left, floor, i) ==
    (i - left - 1) * (Min({input[left], input[i]}) - input[floor])

(* The floors below the bar are closed one by one; the last has no left wall. *)
RECURSIVE Pour(_, _)
Pour(state, i) ==
    IF state.stack = <<>> THEN [state EXCEPT !.stack = <<i>>]
    ELSE IF input[Top(state.stack)] >= input[i] THEN [state EXCEPT !.stack = Append(@, i)]
    ELSE LET rest == Front(state.stack)
         IN  Pour([stack |-> rest,
                   total |-> state.total
                             + (IF rest = <<>> THEN 0 ELSE Layer(Top(rest), Top(state.stack), i))], i)
TrapWater == FoldLeft(Pour, [stack |-> <<>>, total |-> 0], Forwards).total

(* Two pointers: the side whose highest wall is lower moves. *)
RECURSIVE TwoPointers(_, _, _, _)
TwoPointers(left, right, leftMax, rightMax) ==
    CASE left >= right -> 0
      [] left < right /\ leftMax <= rightMax ->
            LET m == Max({leftMax, input[left + 1]})
            IN  m - input[left + 1] + TwoPointers(left + 1, right, m, rightMax)
      [] OTHER ->
            LET m == Max({rightMax, input[right - 1]})
            IN  m - input[right - 1] + TwoPointers(left, right - 1, leftMax, m)
TrapWaterTwoPointers ==
    IF Len(input) < 3 THEN 0 ELSE TwoPointers(1, Len(input), input[1], Last(input))

RECURSIVE StripLeadingZeros(_)
StripLeadingZeros(s) ==
    CASE s = <<>> -> <<0>>
      [] Len(s) > 1 /\ Head(s) = 0 -> StripLeadingZeros(Tail(s))
      [] OTHER -> s

(* A greater digit before d goes, while removals are left. *)
RECURSIVE PopGreater(_, _)
PopGreater(state, d) ==
    IF state.k > 0 /\ state.stack # <<>> /\ Top(state.stack) > d
    THEN PopGreater([stack |-> Front(state.stack), k |-> state.k - 1], d)
    ELSE [state EXCEPT !.stack = Append(@, d)]

(* Mutant: removals that are left over are forgotten. *)
TrimNothing(state) == state.stack

(* The removals left over come off the end. *)
Trim(state) == SubSeq(state.stack, 1, Len(state.stack) - state.k)
RemoveDigits(digits, k) ==
    CASE k <= 0           -> StripLeadingZeros(digits)
      [] k >= Len(digits) /\ k > 0 -> <<0>>
      [] OTHER            -> StripLeadingZeros(Trim(FoldLeft(PopGreater, [stack |-> <<>>, k |-> k], digits)))

-----------------------------------------------------------------------------
NearestAfter(beats) ==
    [i \in 1..Len(input) |->
        LET after == {j \in (i + 1)..Len(input) : <<input[j], input[i]>> \in beats}
        IN  IF after = {} THEN 0 ELSE Min(after)]
NearestBefore(beats) ==
    [i \in 1..Len(input) |->
        LET before == {j \in 1..(i - 1) : <<input[j], input[i]>> \in beats}
        IN  IF before = {} THEN 0 ELSE Max(before)]

(* Each scan gives the nearest element of its side that beats the element,  *)
(* ties included or not as its name says, and the spans of prices are the   *)
(* same computed at once and as they arrive (monotonicstack.go:58-205).    *)
NearestByStack ==
    Given =>
        /\ NextGreater = NearestAfter(Greater) /\ NextGreaterOrEqual = NearestAfter(GreaterOrEqual)
        /\ NextSmaller = NearestAfter(Smaller)
        /\ PreviousGreater = NearestBefore(Greater) /\ PreviousSmaller = NearestBefore(Smaller)
        /\ PreviousSmallerOrEqual = NearestBefore(SmallerOrEqual)
        /\ \A i \in 1..Len(input) :
               /\ DaysUntilWarmer[i] = IF NearestAfter(Greater)[i] = 0 THEN 0 ELSE NearestAfter(Greater)[i] - i
               /\ SpannerSpans[i] = StockSpan[i]

(* The rectangle is the largest under the bars, equal bars included, and    *)
(* the water held between them is the same by layers, by two pointers and   *)
(* counted column by column (monotonicstack.go:223-323).                   *)
BarsAreMeasured ==
    Given =>
        LET n == Len(input)
            runs == {<<i, j>> \in (1..n) \X (1..n) : i <= j}
            areas == {(r[2] - r[1] + 1) * Min({input[i] : i \in r[1]..r[2]}) : r \in runs}
            column(i) == Min({Max({input[j] : j \in 1..i}), Max({input[j] : j \in i..n})}) - input[i]
            held == FoldLeft(LAMBDA sum, i : sum + column(i), 0, Forwards)
        IN  /\ LargestRectangle = IF n = 0 THEN 0 ELSE Max(areas)
            /\ TrapWater = held /\ TrapWaterTwoPointers = held

NumberOf(s) == FoldLeft(LAMBDA n, d : 10 * n + d, 0, s)

(* Whatever digits and however many removals, the number left is the least  *)
(* that any choice of k digits leaves, without leading zeros                *)
(* (monotonicstack.go:337-376).                                            *)
RemovalIsLeast ==
    Given /\ input # <<>> =>
        \A k \in 0..(Len(input) + 1) :
            LET kept == {places \in SUBSET (1..Len(input)) : Cardinality(places) = Max({Len(input) - k, 0})}
                left(places) == NumberOf([i \in 1..Cardinality(places) |->
                                              input[SetToSortSeq(places, <)[i]]])
                out == RemoveDigits(input, k)
            IN  /\ NumberOf(out) = Min({left(p) : p \in kept})
                /\ Len(out) = 1 \/ out[1] # 0

-----------------------------------------------------------------------------
(* Windows and pointers. *)

Positions == [i \in 1..Len(input) |-> i]
SumOf(s) == FoldLeft(LAMBDA n, v : n + v, 0, s)

(* A window of k slides by one that enters and one that leaves.             *)
MaxSumOfSize(k) ==
    FoldLeft(LAMBDA w, right :
                 LET now == w.sum + input[right] - input[right - k]
                 IN  [sum |-> now, best |-> Max({w.best, now})],
             [sum |-> SumOf(SubSeq(input, 1, k)), best |-> SumOf(SubSeq(input, 1, k))],
             SubSeq(Positions, k + 1, Len(input))).best

(* The sums of AverageOfSize: the one that leaves goes once it was counted. *)
SumsOfSize(k) ==
    FoldLeft(LAMBDA w, i :
                 LET now == w.sum + input[i]
                 IN  IF i < k THEN [w EXCEPT !.sum = now]
                     ELSE [sum |-> now - input[i - k + 1], out |-> Append(w.out, now)],
             [sum |-> 0, out |-> <<>>], Positions).out

(* Mutant: what has left the window stays at the front. *)
InWindowAlways(deque, right, k) == deque

(* At most the front of the deque has left the window. *)
InWindow(deque, right, k) == IF deque[1] <= right - k THEN Tail(deque) ELSE deque

(* MaxOfEachWindow: a deque of positions whose values fall. *)
MaxOfEachWindow(k) ==
    FoldLeft(LAMBDA w, right :
                 LET above == SelectLastInSeq(w.deque, LAMBDA i : input[i] > input[right])
                     now   == InWindow(Append(SubSeq(w.deque, 1, above), right), right, k)
                 IN  [deque |-> now, out |-> IF right < k THEN w.out ELSE Append(w.out, input[now[1]])],
             [deque |-> <<>>, out |-> <<>>], Positions).out

(* Mutant: the left end also goes back to a copy that left the window. *)
LeftPastAny(left, at) == at + 1

(* The earlier copy leaves the window, unless it did already. *)
LeftPast(left, at) == IF at >= left THEN at + 1 ELSE left

LongestUnique ==
    FoldLeft(LAMBDA w, i :
                 LET at   == SelectLastInSeq(SubSeq(input, 1, i - 1), LAMBDA v : v = input[i])
                     left == LeftPast(w.left, at)
                 IN  [left |-> left, best |-> Max({w.best, i - left + 1})],
             [left |-> 1, best |-> 0], Positions).best

(* The left end moves over ones and zeros until no more than k are inside. *)
ZerosIn(left, right) == Cardinality({i \in left..right : input[i] = 0})
LongestOnesWithFlips(k) ==
    FoldLeft(LAMBDA w, right :
                 LET left == CHOOSE l \in w.left..(right + 1) :
                                 /\ ZerosIn(l, right) <= k
                                 /\ \A m \in w.left..(l - 1) : ZerosIn(m, right) > k
                 IN  [left |-> left, best |-> Max({w.best, right - left + 1})],
             [left |-> 1, best |-> 0], Positions).best

(* The left end moves on while the sum is enough; best 0 is none yet. *)
RECURSIVE Tightened(_, _, _)
Tightened(w, right, target) ==
    LET length == right - w.left + 1
    IN  IF w.sum < target \/ w.left > right THEN w
        ELSE Tightened([left |-> w.left + 1, sum |-> w.sum - input[w.left],
                        best |-> IF w.best = 0 \/ length < w.best THEN length ELSE w.best], right, target)
MinSubarrayAtLeast(target) ==
    IF target <= 0 THEN 0
    ELSE FoldLeft(LAMBDA w, right : Tightened([w EXCEPT !.sum = @ + input[right]], right, target),
                  [left |-> 1, sum |-> 0, best |-> 0], Positions).best

(* Mutant: a value that leaves breaks the window only when none is left. *)
LeavesShort(have, need) == have - 1 = 0

(* A value that leaves breaks the window when there were just enough of it. *)
LeavesTooFew(have, need) == have = need

(* MinWindowContaining: have counts the values needed, missing those of
   which there are too few; the best window so far, <<>> for none.          *)
RECURSIVE Shrunk(_, _, _)
Shrunk(w, right, need) ==
    LET v == input[w.left]
        best == IF w.best = <<>> \/ right - w.left < w.best[2] - w.best[1] THEN <<w.left, right>> ELSE w.best
    IN  IF w.missing > 0 THEN w
        ELSE Shrunk([left    |-> w.left + 1, best |-> best,
                     have    |-> IF need[v] > 0 THEN [w.have EXCEPT ![v] = @ - 1] ELSE w.have,
                     missing |-> IF need[v] > 0 /\ LeavesTooFew(w.have[v], need[v]) THEN 1 ELSE 0], right, need)
Entered(w, v, need) ==
    IF need[v] = 0 THEN w
    ELSE [w EXCEPT !.have[v] = @ + 1, !.missing = IF w.have[v] + 1 = need[v] THEN @ - 1 ELSE @]
MinWindowContaining(pattern) ==
    LET need == [v \in InputValues |-> Cardinality({i \in 1..Len(pattern) : pattern[i] = v})]
    IN  IF pattern = <<>> \/ Len(input) < Len(pattern) THEN <<>>
        ELSE FoldLeft(LAMBDA w, right : Shrunk(Entered(w, input[right], need), right, need),
                      [left |-> 1, best |-> <<>>, have |-> [v \in InputValues |-> 0],
                       missing |-> Cardinality(ToSet(pattern))], Positions).best

(* CountSubarraysWithSum, of any integers: the prefixes met so far. *)
CountSubarraysWithSum(nums, target) ==
    FoldLeft(LAMBDA w, v :
                 LET prefix == w.prefix + v
                 IN  [prefix |-> prefix, seen |-> Append(w.seen, prefix),
                      count |-> w.count + Cardinality({i \in 1..Len(w.seen) : w.seen[i] = prefix - target})],
             [prefix |-> 0, seen |-> <<0>>, count |-> 0], nums).count

-----------------------------------------------------------------------------
(* Two pointers. *)
RECURSIVE TwoSumFrom(_, _, _, _)
TwoSumFrom(s, target, left, right) ==
    LET sum == s[left] + s[right]
    IN  IF left >= right THEN <<0, 0>>
        ELSE CASE sum = target -> <<left, right>>
               [] sum < target -> TwoSumFrom(s, target, left + 1, right)
               [] sum > target -> TwoSumFrom(s, target, left, right - 1)
TwoSumSorted(s, target) == IF s = <<>> THEN <<0, 0>> ELSE TwoSumFrom(s, target, 1, Len(s))

(* TwoSumUnsorted: the last position seen of each value. *)
TwoSumUnsorted(s, target) ==
    LET earlier(i) == SelectLastInSeq(SubSeq(s, 1, i - 1), LAMBDA v : v = target - s[i])
        hits == {i \in 1..Len(s) : earlier(i) # 0}
    IN  IF hits = {} THEN <<0, 0>> ELSE <<earlier(Min(hits)), Min(hits)>>

RECURSIVE SkipRight(_, _, _)
SkipRight(s, left, right) == IF left < right /\ s[left] = s[left + 1] THEN SkipRight(s, left + 1, right) ELSE left
RECURSIVE SkipLeft(_, _, _)
SkipLeft(s, left, right) == IF left < right /\ s[right] = s[right - 1] THEN SkipLeft(s, left, right - 1) ELSE right

(* Mutant: after a triple the pointers move by one. *)
PastTripleOnce(s, left, right) == <<left + 1, right - 1>>

(* After a triple both pointers pass the copies of their values. *)
PastTriple(s, left, right) ==
    LET l == SkipRight(s, left, right) IN <<l + 1, SkipLeft(s, l, right) - 1>>

RECURSIVE TriplesFrom(_, _, _, _)
TriplesFrom(s, i, left, right) ==
    LET sum  == s[i] + s[left] + s[right]
        past == PastTriple(s, left, right)
    IN  IF left >= right THEN <<>>
        ELSE CASE sum < 0 -> TriplesFrom(s, i, left + 1, right)
               [] sum > 0 -> TriplesFrom(s, i, left, right - 1)
               [] sum = 0 -> <<<<s[i], s[left], s[right]>>>> \o TriplesFrom(s, i, past[1], past[2])
(* A first value that was one already is skipped, and positive ones end it. *)
ThreeSum(nums) ==
    LET s == SortSeq(nums, <)
    IN  FoldLeft(LAMBDA out, i : IF (i > 1 /\ s[i] = s[i - 1]) \/ s[i] > 0 THEN out
                                 ELSE out \o TriplesFrom(s, i, i + 1, Len(s)),
                 <<>>, [i \in 1..(Len(s) - 2) |-> i])

RECURSIVE ContainerFrom(_, _)

(* Mutant: the higher wall moves. *)
ContainerMovingHigher(left, right) ==
    IF left >= right THEN 0
    ELSE Max({(right - left) * Min({input[left], input[right]}),
              IF input[left] >= input[right] THEN ContainerFrom(left + 1, right) ELSE ContainerFrom(left, right - 1)})

(* The lower wall moves. *)
ContainerFrom(left, right) ==
    IF left >= right THEN 0
    ELSE Max({(right - left) * Min({input[left], input[right]}),
              IF input[left] < input[right] THEN ContainerFrom(left + 1, right) ELSE ContainerFrom(left, right - 1)})
MaxWaterContainer == ContainerFrom(1, Len(input))

(* IsPalindrome: 0 is a character that is passed over. *)
RECURSIVE PalindromeFrom(_, _)
PalindromeFrom(left, right) ==
    LET l == Min({i \in left..right : i = right \/ input[i] # 0})
        r == Max({i \in l..right : i = l \/ input[i] # 0})
    IN  left >= right \/ (input[l] = input[r] /\ PalindromeFrom(l + 1, r - 1))
IsPalindrome == PalindromeFrom(1, Len(input))

(* Dedupe and DedupeAllowing rewrite the prefix 1..write of s. *)
Rewrite(state, v) == [s |-> [state.s EXCEPT ![state.write + 1] = v], write |-> state.write + 1]
Dedupe(s) ==
    IF s = <<>> THEN <<>>
    ELSE LET done == FoldLeft(LAMBDA st, read : IF st.s[read] = st.s[st.write] THEN st ELSE Rewrite(st, st.s[read]),
                              [s |-> s, write |-> 1], [i \in 1..(Len(s) - 1) |-> i + 1])
         IN  SubSeq(done.s, 1, done.write)

(* Mutant: the element before the write position is compared. *)
TooManyAtEnd(state, v, limit) == state.write >= limit /\ state.s[state.write] = v

(* An element is one too many when the one limit places back is a copy. *)
TooMany(state, v, limit) == state.write >= limit /\ state.s[state.write - limit + 1] = v
DedupeAllowing(s, limit) ==
    IF limit <= 0 THEN <<>>
    ELSE LET done == FoldLeft(LAMBDA st, read : IF TooMany(st, st.s[read], limit) THEN st ELSE Rewrite(st, st.s[read]),
                              [s |-> s, write |-> 0], [i \in 1..Len(s) |-> i])
         IN  SubSeq(done.s, 1, done.write)
MoveZerosToEnd(s) ==
    LET done == FoldLeft(LAMBDA st, read : IF st.s[read] = 0 THEN st ELSE Rewrite(st, st.s[read]),
                         [s |-> s, write |-> 0], [i \in 1..Len(s) |-> i])
    IN  [i \in 1..Len(s) |-> IF i <= done.write THEN done.s[i] ELSE 0]

(* What is kept is swapped forward, in its order. *)
PartitionByPredicate(s, keep) ==
    FoldLeft(LAMBDA st, read : IF st.s[read] \notin keep THEN st
                               ELSE [s |-> [st.s EXCEPT ![st.write + 1] = st.s[read], ![read] = st.s[st.write + 1]],
                                     write |-> st.write + 1],
             [s |-> s, write |-> 0], [i \in 1..Len(s) |-> i])

RECURSIVE SquaresBetween(_, _, _)
SquaresBetween(s, left, right) ==
    IF left > right THEN <<>>
    ELSE IF s[left] * s[left] > s[right] * s[right] THEN Append(SquaresBetween(s, left + 1, right), s[left] * s[left])
    ELSE Append(SquaresBetween(s, left, right - 1), s[right] * s[right])
SquaresOfSorted(s) == SquaresBetween(s, 1, Len(s))

-----------------------------------------------------------------------------
Runs == {r \in (1..Len(input)) \X (1..Len(input)) : r[1] <= r[2]}
RunOf(r) == SubSeq(input, r[1], r[2])
Longest(S) == Max({0} \cup {r[2] - r[1] + 1 : r \in S})
Shortest(S) == IF S = {} THEN 0 ELSE Min({r[2] - r[1] + 1 : r \in S})
HoldsAll(s, pattern) ==
    \A v \in ToSet(pattern) : Cardinality({i \in 1..Len(s) : s[i] = v})
                              >= Cardinality({i \in 1..Len(pattern) : pattern[i] = v})

(* The sums, the best of them and the maxima of the windows of a size are   *)
(* what each window gives by itself (slidingwindow.go:46-151).             *)
SizedWindowsAgree ==
    Given =>
        \A k \in 1..Len(input) :
            LET windows == [i \in 1..(Len(input) - k + 1) |-> SubSeq(input, i, i + k - 1)]
            IN  /\ SumsOfSize(k) = [i \in DOMAIN windows |-> SumOf(windows[i])]
                /\ MaxSumOfSize(k) = Max({SumOf(w) : w \in ToSet(windows)})
                /\ MaxOfEachWindow(k) = [i \in DOMAIN windows |-> Max(ToSet(windows[i]))]

(* A window that grows and shrinks finds the longest run without a copy and *)
(* with few enough zeros, the shortest with a sum, and counts the runs of a *)
(* sum, negatives included, as looking at every run does                    *)
(* (slidingwindow.go:165-255, :329-340).                                   *)
RunsAreFound ==
    Given =>
        /\ LongestUnique = Longest({r \in Runs : IsInjective(RunOf(r))})
        /\ \A k \in 0..2 : LongestOnesWithFlips(k) = Longest({r \in Runs : ZerosIn(r[1], r[2]) <= k})
        /\ \A t \in 1..7 : MinSubarrayAtLeast(t) = Shortest({r \in Runs : SumOf(RunOf(r)) >= t})
        /\ LET nums == [i \in 1..Len(input) |-> input[i] - 1]
           IN  \A t \in -2..2 : CountSubarraysWithSum(nums, t)
                                = Cardinality({r \in Runs : SumOf(SubSeq(nums, r[1], r[2])) = t})

(* The shortest window that has the pattern's values, each as often as it   *)
(* does, is found, the first of equal ones (slidingwindow.go:268-315).     *)
PatternIsCovered ==
    Given =>
        \A p \in UNION {[1..n -> {0, 1}] : n \in 1..3} :
            LET w   == MinWindowContaining(p)
                all == {r \in Runs : HoldsAll(RunOf(r), p)}
            IN  IF w = <<>> THEN all = {}
                ELSE /\ w \in all /\ w[2] - w[1] + 1 = Shortest(all)
                     /\ \A r \in all : r[2] - r[1] = w[2] - w[1] => w[1] <= r[1]

Centred == [i \in 1..Len(input) |-> input[i] - 1]
Pairs(s, target) == {p \in (1..Len(s)) \X (1..Len(s)) : p[1] < p[2] /\ s[p[1]] + s[p[2]] = target}
CopiesUpTo(s, i) == Cardinality({j \in 1..i : s[j] = s[i]})

(* A pair with the sum is found when there is one, and every triple of sum  *)
(* zero once, whatever copies there are (twopointers.go:45-152).           *)
SumsAreFound ==
    Given =>
        LET s == SortSeq(Centred, <)
            triples == {SortSeq(<<s[i], s[j], s[k]>>, <) :
                        <<i, j, k>> \in {t \in (1..Len(s)) \X (1..Len(s)) \X (1..Len(s)) :
                                             t[1] < t[2] /\ t[2] < t[3] /\ s[t[1]] + s[t[2]] + s[t[3]] = 0}}
        IN  /\ \A t \in -2..4 :
                  /\ IF Pairs(s, t) = {} THEN TwoSumSorted(s, t) = <<0, 0>> ELSE TwoSumSorted(s, t) \in Pairs(s, t)
                  /\ IF Pairs(input, t) = {} THEN TwoSumUnsorted(input, t) = <<0, 0>>
                     ELSE TwoSumUnsorted(input, t) \in Pairs(input, t)
            /\ ToSet(ThreeSum(Centred)) = triples /\ Len(ThreeSum(Centred)) = Cardinality(triples)

(* Closing in from both ends passes over no better pair of walls, and the   *)
(* characters that do not count change no palindrome                       *)
(* (twopointers.go:161-213).                                               *)
EndsCloseIn ==
    Given =>
        LET held == {(j - i) * Min({input[i], input[j]}) : <<i, j>> \in {p \in (1..Len(input)) \X (1..Len(input)) : p[1] < p[2]}}
            read == SelectSeq(input, LAMBDA v : v # 0)
        IN  /\ MaxWaterContainer = Max({0} \cup held)
            /\ IsPalindrome <=> read = Reverse(read)

(* Rewriting a slice in place, the reads ahead of the writes, keeps each    *)
(* element that was to be kept, in its order, and no more copies than       *)
(* allowed (twopointers.go:244-360).                                       *)
RewritesKeepTheRest ==
    Given =>
        LET s == SortSeq(input, <)
            p == PartitionByPredicate(input, {0, 2})
            squares == SquaresOfSorted(SortSeq(Centred, <))
        IN  /\ Dedupe(s) = SortSeq(SetToSeq(ToSet(s)), <)
            /\ \A limit \in 0..3 :
                  DedupeAllowing(s, limit) = [k \in 1..Cardinality({i \in 1..Len(s) : CopiesUpTo(s, i) <= limit}) |->
                      s[CHOOSE i \in 1..Len(s) : CopiesUpTo(s, i) <= limit
                                                 /\ Cardinality({j \in 1..i : CopiesUpTo(s, j) <= limit}) = k]]
            /\ MoveZerosToEnd(input) = SelectSeq(input, LAMBDA v : v # 0) \o SelectSeq(input, LAMBDA v : v = 0)
            /\ SubSeq(p.s, 1, p.write) = SelectSeq(input, LAMBDA v : v \in {0, 2})
            /\ SortSeq(p.s, <) = s
            /\ squares = SortSeq([i \in 1..Len(input) |-> Centred[i] * Centred[i]], <)
=============================================================================
