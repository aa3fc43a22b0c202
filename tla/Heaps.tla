-------------------------------- MODULE Heaps --------------------------------
(***************************************************************************)
(* dsa/patterns/heap over the input: the array heap, what is kept with it   *)
(* (the k best, the k most frequent, a merge of lists) and the median of a  *)
(* stream in two heaps.  Children of i are 2i and 2i + 1; less, a heap's    *)
(* comparison, is the set of pairs of which the first goes first.          *)
(***************************************************************************)
EXTENDS InputSequence, SequencesExt, FiniteSetsExt

Ascends  == {p \in InputValues \X InputValues : p[1] < p[2]}
Descends == {p \in InputValues \X InputValues : p[1] > p[2]}
Exchange(s, i, j) == [s EXCEPT ![i] = s[j], ![j] = s[i]]

RECURSIVE SiftUp(_, _, _)
SiftUp(s, i, less) ==
    IF i = 1 \/ <<s[i], s[i \div 2]>> \notin less THEN s ELSE SiftUp(Exchange(s, i, i \div 2), i \div 2, less)

RECURSIVE SiftDown(_, _, _)

(* Mutant: the right child is compared with the root, not with the better. *)
SiftDownPastBetter(s, i, less) ==
    LET left == IF 2 * i <= Len(s) /\ <<s[2 * i], s[i]>> \in less THEN 2 * i ELSE i
        best == IF 2 * i + 1 <= Len(s) /\ <<s[2 * i + 1], s[i]>> \in less THEN 2 * i + 1 ELSE left
    IN  IF best = i THEN s ELSE SiftDown(Exchange(s, i, best), best, less)

SiftDown(s, i, less) ==
    LET left == IF 2 * i <= Len(s) /\ <<s[2 * i], s[i]>> \in less THEN 2 * i ELSE i
        best == IF 2 * i + 1 <= Len(s) /\ <<s[2 * i + 1], s[left]>> \in less THEN 2 * i + 1 ELSE left
    IN  IF best = i THEN s ELSE SiftDown(Exchange(s, i, best), best, less)

HeapFrom(s, less) ==
    FoldLeft(LAMBDA t, k : SiftDown(t, Len(s) \div 2 + 1 - k, less), s, [k \in 1..(Len(s) \div 2) |-> k])
HeapPush(s, v, less) == SiftUp(Append(s, v), Len(s) + 1, less)

(* The heap without its top: the last element takes the top's place. *)
HeapRest(s, less) ==
    IF Len(s) = 1 THEN <<>> ELSE SiftDown([Front(s) EXCEPT ![1] = Last(s)], 1, less)

(* PushPop: what comes back, and the heap. *)
PushPop(s, v, less) ==
    IF s = <<>> \/ <<s[1], v>> \notin less THEN [top |-> v, heap |-> s]
    ELSE [top |-> s[1], heap |-> SiftDown([s EXCEPT ![1] = v], 1, less)]

RECURSIVE Popped(_, _)
Popped(s, less) == IF s = <<>> THEN <<>> ELSE <<s[1]>> \o Popped(HeapRest(s, less), less)

(* Mutant: the best ones seen are let go of. *)
OfferWorst(heap, v, k, less) ==
    IF Len(heap) < k THEN HeapPush(heap, v, less)
    ELSE IF <<heap[1], v>> \in less THEN heap ELSE PushPop(heap, v, less).heap

(* A value is kept while there is room, or when it beats the worst one kept. *)
Offer(heap, v, k, less) ==
    IF Len(heap) < k THEN HeapPush(heap, v, less)
    ELSE IF <<heap[1], v>> \notin less THEN heap ELSE PushPop(heap, v, less).heap

(* KLargest and KSmallest: a heap of the first k, with the worst at its top. *)
KBest(s, k, less) ==
    IF k <= 0 \/ s = <<>> THEN <<>>
    ELSE LET n == Min({k, Len(s)})
         IN  Reverse(Popped(FoldLeft(LAMBDA h, v : Offer(h, v, n, less), HeapFrom(SubSeq(s, 1, n), less),
                                     SubSeq(s, n + 1, Len(s))), less))

(* KMostFrequent: the pairs <<value, count>> arrive in the map's order. *)
Rarer(c) == {p \in c \X c : p[1][2] < p[2][2] \/ (p[1][2] = p[2][2] /\ p[1][1] > p[2][1])}
Counted(s) == {<<v, Cardinality({i \in 1..Len(s) : s[i] = v})>> : v \in ToSet(s)}
KMostFrequent(order, k) ==
    LET rarer == Rarer(ToSet(order))
    IN  IF k <= 0 THEN <<>> ELSE Reverse(Popped(FoldLeft(LAMBDA h, c : Offer(h, c, k, rarer), <<>>, order), rarer))

(* MergeSorted: a cursor <<list, index>> per list that is not empty. *)
Nearer(lists) ==
    LET cursors == {<<i, j>> \in (1..Len(lists)) \X (1..MaxInput) : j <= Len(lists[i])}
    IN  {p \in cursors \X cursors : lists[p[1][1]][p[1][2]] < lists[p[2][1]][p[2][2]]}
RECURSIVE MergeFrom(_, _)
MergeFrom(lists, heap) ==
    LET c    == heap[1]
        rest == HeapRest(heap, Nearer(lists))
    IN  IF heap = <<>> THEN <<>>
        ELSE <<lists[c[1]][c[2]]>>
             \o MergeFrom(lists, IF c[2] < Len(lists[c[1]]) THEN HeapPush(rest, <<c[1], c[2] + 1>>, Nearer(lists)) ELSE rest)
MergeSorted(lists) ==
    MergeFrom(lists, FoldLeft(LAMBDA h, i : IF lists[i] = <<>> THEN h ELSE HeapPush(h, <<i, 1>>, Nearer(lists)),
                              <<>>, [i \in 1..Len(lists) |-> i]))

(* Mutant: the upper half may be one longer too. *)
EvenedLate(lower, upper) ==
    CASE Len(lower) > Len(upper) + 1 ->
            [lower |-> HeapRest(lower, Descends), upper |-> HeapPush(upper, lower[1], Ascends)]
      [] Len(upper) > Len(lower) + 1 ->
            [lower |-> HeapPush(lower, upper[1], Descends), upper |-> HeapRest(upper, Ascends)]
      [] OTHER -> [lower |-> lower, upper |-> upper]

(* The lower half holds as many as the upper one, or one more. *)
Evened(lower, upper) ==
    CASE Len(lower) > Len(upper) + 1 ->
            [lower |-> HeapRest(lower, Descends), upper |-> HeapPush(upper, lower[1], Ascends)]
      [] Len(upper) > Len(lower) ->
            [lower |-> HeapPush(lower, upper[1], Descends), upper |-> HeapRest(upper, Ascends)]
      [] OTHER -> [lower |-> lower, upper |-> upper]

AddValue(m, v) ==
    IF m.lower = <<>> \/ v <= m.lower[1] THEN Evened(HeapPush(m.lower, v, Descends), m.upper)
    ELSE Evened(m.lower, HeapPush(m.upper, v, Ascends))
MedianPair(s) ==
    LET m == FoldLeft(AddValue, [lower |-> <<>>, upper |-> <<>>], s)
    IN  <<m.lower[1], IF Len(m.lower) > Len(m.upper) THEN m.lower[1] ELSE m.upper[1]>>

-----------------------------------------------------------------------------
IsHeap(s, less) == \A i \in 2..Len(s) : <<s[i], s[i \div 2]>> \notin less
InOrderOf(s, less) == SortSeq(s, LAMBDA a, b : <<a, b>> \in less)
Orderings(S) == {o \in [1..Cardinality(S) -> S] : ToSet(o) = S}

(* A heap built at once and one built by pushes are heaps of the same       *)
(* values, popping either yields them in order, and PushPop is a push and a *)
(* pop (heap.go:87-230).                                                   *)
HeapsGiveTheOrder ==
    Given =>
        LET built  == HeapFrom(input, Ascends)
            pushed == FoldLeft(LAMBDA h, v : HeapPush(h, v, Ascends), <<>>, input)
        IN  /\ \A h \in {built, pushed} :
                  /\ IsHeap(h, Ascends) /\ Popped(h, Ascends) = InOrderOf(input, Ascends)
                  /\ \A v \in InputValues :
                        LET p == PushPop(h, v, Ascends)
                        IN  /\ IsHeap(p.heap, Ascends)
                            /\ <<p.top>> \o Popped(p.heap, Ascends) = InOrderOf(Append(input, v), Ascends)

(* The k best are those a sort would give, in its order, whatever order the *)
(* counts are met in; and lists that are sorted merge into a sorted one of  *)
(* all their values (heap.go:255-420).                                     *)
TheBestAreKept ==
    Given =>
        LET up   == InOrderOf(input, Ascends)
            down == InOrderOf(input, Descends)
            parts == {<<InOrderOf(SubSeq(input, 1, i), Ascends), InOrderOf(SubSeq(input, i + 1, j), Ascends),
                        InOrderOf(SubSeq(input, j + 1, Len(input)), Ascends)>> :
                      <<i, j>> \in {p \in (0..Len(input)) \X (0..Len(input)) : p[1] <= p[2]}}
        IN  /\ \A k \in 0..(Len(input) + 1) :
                  /\ KBest(input, k, Ascends)  = SubSeq(down, 1, Min({k, Len(input)}))
                  /\ KBest(input, k, Descends) = SubSeq(up, 1, Min({k, Len(input)}))
            /\ \A o \in Orderings(Counted(input)) : \A k \in 1..2 :
                  KMostFrequent(o, k) = SubSeq(Reverse(InOrderOf(o, Rarer(ToSet(o)))), 1, Min({k, Len(o)}))
            /\ \A lists \in parts : MergeSorted(lists) = up

(* After every value of the stream the two tops are its lower and its upper *)
(* median (median.go:51-101).                                              *)
MedianIsInTheMiddle ==
    Given /\ input # <<>> =>
        LET up == InOrderOf(input, Ascends)
            n  == Len(input)
        IN  MedianPair(input) = <<up[(n + 1) \div 2], up[n \div 2 + 1]>>
=============================================================================
