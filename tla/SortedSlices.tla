---------------------------- MODULE SortedSlices ----------------------------
(***************************************************************************)
(* dsa/sorting and dsa/searching over the input: six sorts of its tagged   *)
(* elements, compared by value only, so that an unstable one shows; the    *)
(* searches built on Partition, and the three that need no sorted slice.   *)
(* The sorts count from 1, a slice being an interval of the sequence; the  *)
(* searches use the code's indices, from 0.                                *)
(***************************************************************************)
EXTENDS InputSequence, SequencesExt, FiniteSetsExt

CONSTANT SortThreshold   \* bound: the slices insertion sort takes over (12 in the code)

Before(a, b) == a[1] < b[1]
Swap(s, i, j) == [s EXCEPT ![i] = s[j], ![j] = s[i]]

(* Adjacent swaps up to end; a pass without one ends the sort. *)
BubblePass(s, end) ==
    FoldLeft(LAMBDA t, i : IF Before(t[i], t[i - 1]) THEN Swap(t, i - 1, i) ELSE t,
             s, [i \in 1..(end - 1) |-> i + 1])
RECURSIVE Bubble(_, _)
Bubble(s, end) ==
    IF end <= 1 \/ BubblePass(s, end) = s THEN s ELSE Bubble(BubblePass(s, end), end - 1)

(* The next element slides below the ones that are greater. *)
Place(sorted, x) ==
    LET at == Cardinality({i \in 1..Len(sorted) : ~Before(x, sorted[i])})
    IN  SubSeq(sorted, 1, at) \o <<x>> \o SubSeq(sorted, at + 1, Len(sorted))
Insertion(s) == FoldLeft(Place, <<>>, s)

(* The first of the smallest of the rest is swapped into place. *)
Selection(s) ==
    FoldLeft(LAMBDA t, i :
                 Swap(t, i, CHOOSE j \in i..Len(t) :
                                /\ \A k \in i..Len(t) : ~Before(t[k], t[j])
                                /\ \A k \in i..(j - 1) : Before(t[j], t[k])),
             s, [i \in 1..(Len(s) - 1) |-> i])

(* The heap keeps the largest at the root; children of i are 2i and 2i + 1. *)
RECURSIVE SiftLargest(_, _, _)
SiftLargest(s, root, size) ==
    LET left    == IF 2 * root <= size /\ Before(s[root], s[2 * root]) THEN 2 * root ELSE root
        largest == IF 2 * root + 1 <= size /\ Before(s[left], s[2 * root + 1]) THEN 2 * root + 1 ELSE left
    IN  IF largest = root THEN s ELSE SiftLargest(Swap(s, root, largest), largest, size)

HeapSort(s) ==
    LET n     == Len(s)
        built == FoldLeft(LAMBDA t, k : SiftLargest(t, n \div 2 + 1 - k, n), s, [k \in 1..(n \div 2) |-> k])
    IN  FoldLeft(LAMBDA t, k : SiftLargest(Swap(t, 1, n + 1 - k), 1, n - k), built, [k \in 1..(n - 1) |-> k])

RECURSIVE Merge(_, _)
(* Mutant: of two equal heads the right one goes first. *)
MergeRightFirst(l, r) ==
    IF l = <<>> \/ r = <<>> THEN l \o r
    ELSE IF Before(Head(l), Head(r)) THEN <<Head(l)>> \o Merge(Tail(l), r) ELSE <<Head(r)>> \o Merge(l, Tail(r))

(* The left head goes first unless the right one is smaller. *)
Merge(l, r) ==
    IF l = <<>> \/ r = <<>> THEN l \o r
    ELSE IF ~Before(Head(r), Head(l)) THEN <<Head(l)>> \o Merge(Tail(l), r) ELSE <<Head(r)>> \o Merge(l, Tail(r))

RECURSIVE MergeSort(_)
MergeSort(s) ==
    IF Len(s) <= SortThreshold THEN Insertion(s)
    ELSE LET mid == Len(s) \div 2
             l   == MergeSort(SubSeq(s, 1, mid))
             r   == MergeSort(SubSeq(s, mid + 1, Len(s)))
         IN  IF ~Before(r[1], l[mid]) THEN l \o r ELSE Merge(l, r)

Median3(a, b, c) ==
    LET lo == IF Before(b, a) THEN b ELSE a
        hi == IF Before(b, a) THEN a ELSE b
    IN  IF ~Before(c, hi) THEN hi ELSE IF Before(c, lo) THEN lo ELSE c
ChoosePivot(s) == Median3(s[1], s[(Len(s) \div 2) + 1], s[Len(s)])

(* Three-way partition: below lt is smaller than the pivot, from gt on it is
   greater, i is the next element to look at.                               *)
RECURSIVE Partitioned(_, _, _, _, _)
(* Mutant: i advances over the element just swapped in. *)
PartitionedSkips(s, pivot, lt, i, gt) ==
    IF i >= gt THEN [s |-> s, lt |-> lt, gt |-> gt]
    ELSE CASE Before(s[i], pivot) -> Partitioned(Swap(s, lt, i), pivot, lt + 1, i + 1, gt)
           [] Before(pivot, s[i]) -> Partitioned(Swap(s, gt - 1, i), pivot, lt, i + 1, gt - 1)
           [] OTHER               -> Partitioned(s, pivot, lt, i + 1, gt)

Partitioned(s, pivot, lt, i, gt) ==
    IF i >= gt THEN [s |-> s, lt |-> lt, gt |-> gt]
    ELSE CASE Before(s[i], pivot) -> Partitioned(Swap(s, lt, i), pivot, lt + 1, i + 1, gt)
           [] Before(pivot, s[i]) -> Partitioned(Swap(s, gt - 1, i), pivot, lt, i, gt - 1)
           [] OTHER               -> Partitioned(s, pivot, lt, i + 1, gt)

(* Out of budget the slice is sorted by the fallback, heapsort. *)
RECURSIVE Quick(_, _)
Quick(s, budget) ==
    CASE Len(s) <= SortThreshold -> Insertion(s)
      [] Len(s) > SortThreshold /\ budget <= 0 -> HeapSort(s)
      [] OTHER ->
            LET p == Partitioned(s, ChoosePivot(s), 1, 1, Len(s) + 1)
            IN  Quick(SubSeq(p.s, 1, p.lt - 1), budget - 1)
                \o SubSeq(p.s, p.lt, p.gt - 1)
                \o Quick(SubSeq(p.s, p.gt, Len(s)), budget - 1)

-----------------------------------------------------------------------------
Ascending(s) == \A i \in 1..(Len(s) - 1) : ~Before(s[i + 1], s[i])
SortOf(s, t) == Ascending(t) /\ Len(t) = Len(s) /\ ToSet(t) = ToSet(s)
Stable(t) == \A i \in 1..(Len(t) - 1) : t[i][1] = t[i + 1][1] => t[i][2] < t[i + 1][2]

(* Bubble, insertion and merge sort are stable sorts: elements that compare *)
(* equal keep their order, through the early exit of a pass without a swap, *)
(* the skipped merge and the small slices (quadratic.go:22-67,              *)
(* divide.go:41-95).                                                       *)
StableSorts ==
    Given =>
        \A t \in {Bubble(Tagged, Len(input)), Insertion(Tagged), MergeSort(Tagged)} :
            SortOf(Tagged, t) /\ Stable(t)

(* Selection, heap and quick sort return the same elements in order, quick  *)
(* sort whatever budget is left when the splits go bad (quadratic.go:80,    *)
(* heapsort.go:28, divide.go:155-215).                                     *)
UnstableSorts ==
    Given =>
        /\ SortOf(Tagged, Selection(Tagged)) /\ SortOf(Tagged, HeapSort(Tagged))
        /\ \A budget \in 0..2 : SortOf(Tagged, Quick(Tagged, budget))

-----------------------------------------------------------------------------
(* dsa/searching *)

At0(s, i) == s[i + 1]
Indices(s) == 0..(Len(s) - 1)

RECURSIVE Bisect(_, _, _)

(* Mutant: the index that holds is left out of range with those above it. *)
BisectBelow(lo, hi, holds) ==
    LET mid == lo + (hi - lo) \div 2
    IN  CASE lo >= hi -> lo
          [] lo < hi /\ mid \in holds -> Bisect(lo, mid - 1, holds)
          [] OTHER -> Bisect(mid + 1, hi, holds)

(* Partition's loop; holds is the set of indices the predicate is true of.  *)
Bisect(lo, hi, holds) ==
    LET mid == lo + (hi - lo) \div 2
    IN  CASE lo >= hi -> lo
          [] lo < hi /\ mid \in holds -> Bisect(lo, mid, holds)
          [] OTHER -> Bisect(mid + 1, hi, holds)
Partition(n, holds) == Bisect(0, n, holds)

LowerBound(s, target) == Partition(Len(s), {i \in Indices(s) : At0(s, i) >= target})
UpperBound(s, target) == Partition(Len(s), {i \in Indices(s) : At0(s, i) > target})
BinarySearch(s, target) ==
    LET i == LowerBound(s, target) IN <<i, i < Len(s) /\ At0(s, i) = target>>
LastIndex(s, target) ==
    LET i == UpperBound(s, target) - 1 IN <<i, i >= 0 /\ At0(s, i) = target>>
Count(s, target) == UpperBound(s, target) - LowerBound(s, target)

(* Mutant: the window ends before the bound. *)
WindowEndShort(bound, s) == IF bound < Len(s) THEN bound ELSE Len(s)

WindowEnd(bound, s) == IF bound + 1 < Len(s) THEN bound + 1 ELSE Len(s)

RECURSIVE BoundPast(_, _, _)
BoundPast(s, target, bound) ==
    IF bound < Len(s) /\ At0(s, bound) < target THEN BoundPast(s, target, 2 * bound) ELSE bound
Exponential(s, target) ==
    IF s = <<>> THEN <<0, FALSE>>
    ELSE IF s[1] >= target THEN <<0, s[1] = target>>
    ELSE LET bound  == BoundPast(s, target, 1)
             window == SubSeq(s, (bound \div 2) + 1, WindowEnd(bound, s))
             i      == LowerBound(window, target)
         IN  <<bound \div 2 + i, i < Len(window) /\ At0(window, i) = target>>

(* Mutant: a left half of one element does not count as sorted. *)
LeftIsSortedStrict(s, lo, mid) == At0(s, lo) < At0(s, mid)

LeftIsSorted(s, lo, mid) == At0(s, lo) <= At0(s, mid)

(* One half is sorted, and says whether the target is in it; with the same
   value at both ends and in the middle neither end can be it.              *)
RECURSIVE RotatedFrom(_, _, _, _)
RotatedFrom(s, target, lo, hi) ==
    LET mid   == lo + (hi - lo) \div 2
        alike == At0(s, lo) = At0(s, mid) /\ At0(s, mid) = At0(s, hi)
        left  == LeftIsSorted(s, lo, mid)
        inside == IF left THEN target >= At0(s, lo) /\ target < At0(s, mid)
                          ELSE target > At0(s, mid) /\ target <= At0(s, hi)
    IN  IF lo > hi THEN -1
        ELSE CASE At0(s, mid) = target -> mid
               [] At0(s, mid) # target /\ alike -> RotatedFrom(s, target, lo + 1, hi - 1)
               [] OTHER -> IF left = inside THEN RotatedFrom(s, target, lo, mid - 1)
                                            ELSE RotatedFrom(s, target, mid + 1, hi)
SearchRotated(s, target) == RotatedFrom(s, target, 0, Len(s) - 1)

RotationPoint(s) ==
    IF s = <<>> THEN 0 ELSE Partition(Len(s), {i \in Indices(s) : At0(s, i) <= At0(s, Len(s) - 1)})

FindPeak(s) ==
    IF s = <<>> THEN -1 ELSE Partition(Len(s) - 1, {i \in 0..(Len(s) - 2) : At0(s, i) > At0(s, i + 1)})

-----------------------------------------------------------------------------
Targets == UNION {{v - 1, v, v + 1} : v \in InputValues}
Sorted(s) == \A i \in 1..(Len(s) - 1) : s[i] <= s[i + 1]
Rotation(s, k) == SubSeq(s, k + 1, Len(s)) \o SubSeq(s, 1, k)

(* Over any sorted slice, with duplicates and for values it does not hold,  *)
(* the boundaries are the number of smaller and of no greater elements, and *)
(* the doubling search agrees with the plain one (searching.go:53-177).     *)
BoundsCount ==
    Given /\ Sorted(input) =>
        \A t \in Targets :
            LET below == Cardinality({i \in Indices(input) : At0(input, i) < t})
                upto  == Cardinality({i \in Indices(input) : At0(input, i) <= t})
            IN  /\ LowerBound(input, t) = below /\ UpperBound(input, t) = upto
                /\ BinarySearch(input, t) = <<below, upto > below>>
                /\ LastIndex(input, t) = <<upto - 1, upto > below>>
                /\ Count(input, t) = upto - below
                /\ Exponential(input, t) = BinarySearch(input, t)

(* A rotated slice is searched without losing a value that is there, also   *)
(* where duplicates hide which half is sorted; without duplicates the       *)
(* rotation point is the smallest element (rotated.go:27-95).              *)
RotatedIsFound ==
    Given /\ Sorted(input) =>
        \A k \in Indices(input) :
            LET s == Rotation(input, k)
            IN  /\ \A t \in Targets :
                       IF t \in ToSet(s) THEN SearchRotated(s, t) >= 0 /\ At0(s, SearchRotated(s, t)) = t
                                         ELSE SearchRotated(s, t) = -1
                /\ Cardinality(ToSet(s)) = Len(s) => At0(s, RotationPoint(s)) = Min(ToSet(s))

(* Whatever the slice, the bisection ends on an element no smaller than its *)
(* neighbours, greater than both when no two neighbours are equal           *)
(* (rotated.go:97-120).                                                    *)
PeakIsFound ==
    Given /\ input # <<>> =>
        LET p == FindPeak(input)
            around == {i \in {p - 1, p + 1} : i \in Indices(input)}
            plateau == \E i \in 1..(Len(input) - 1) : input[i] = input[i + 1]
        IN  \A i \in around : At0(input, i) <= At0(input, p)
                              /\ (~plateau => At0(input, i) < At0(input, p))
=============================================================================
