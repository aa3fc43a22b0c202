---------------------------- MODULE IntervalSets ----------------------------
(***************************************************************************)
(* dsa/patterns/intervals: half-open intervals over every list of a few of  *)
(* them, the empty and the reversed included.                              *)
(***************************************************************************)
EXTENDS Integers, SequencesExt, FiniteSetsExt

CONSTANTS
    LastPoint,      \* bound: intervals start and end within 0..LastPoint
    MaxIntervals    \* bound: how many are given

VARIABLE intervals  \* the intervals <<start, end>> given, in their order

IntervalsInit == intervals = <<>>
IntervalsNext ==
    /\ Len(intervals) < MaxIntervals
    /\ \E s, e \in 0..LastPoint : intervals' = Append(intervals, <<s, e>>)

IsEmpty(i) == i[2] <= i[1]
Overlaps(i, j) == ~IsEmpty(i) /\ ~IsEmpty(j) /\ i[1] < j[2] /\ j[1] < i[2]
Intersect(i, j) == <<Max({i[1], j[1]}), Min({i[2], j[2]})>>
NonEmpty(s) == SelectSeq(s, LAMBDA i : ~IsEmpty(i))
ByStart(s) == SortSeq(s, LAMBDA i, j : i[1] < j[1] \/ (i[1] = j[1] /\ i[2] < j[2]))
ByEnd(s) == SortSeq(s, LAMBDA i, j : i[2] < j[2] \/ (i[2] = j[2] /\ i[1] < j[1]))

(* Mutant: the merged interval ends where the last one that joined it does. *)
JoinedToLast(out, i) ==
    IF out = <<>> \/ i[1] > Last(out)[2] THEN Append(out, i)
    ELSE Append(Front(out), <<Last(out)[1], i[2]>>)

(* An interval that starts before the last one ends, or where, joins it.    *)
Joined(out, i) ==
    IF out = <<>> \/ i[1] > Last(out)[2] THEN Append(out, i)
    ELSE Append(Front(out), <<Last(out)[1], Max({Last(out)[2], i[2]})>>)
MergeAll(s) == FoldLeft(Joined, <<>>, ByStart(NonEmpty(s)))

(* Insert: the ones before, those that touch it as one, the ones after.     *)
InsertInto(sorted, add) ==
    LET before == SelectSeq(sorted, LAMBDA i : i[2] < add[1])
        after  == SelectSeq(sorted, LAMBDA i : i[1] > add[2])
        met    == {add} \cup {i \in ToSet(sorted) : i[2] >= add[1] /\ i[1] <= add[2]}
    IN  IF IsEmpty(add) THEN sorted
        ELSE before \o <<<<Min({i[1] : i \in met}), Max({i[2] : i \in met})>>>> \o after

(* AnyOverlap looks at neighbours by start only. *)
AnyOverlap(s) == \E k \in 2..Len(s) : Overlaps(ByStart(s)[k - 1], ByStart(s)[k])

(* Mutant: at one instant the starts go first. *)
StartsFirst(s) == SortSeq(s, LAMBDA e, f : e[1] < f[1] \/ (e[1] = f[1] /\ e[2] > f[2]))

(* At one instant the ends <<at, -1>> go before the starts <<at, 1>>. *)
Instants(s) == SortSeq(s, LAMBDA e, f : e[1] < f[1] \/ (e[1] = f[1] /\ e[2] < f[2]))
MinRooms(s) ==
    FoldLeft(LAMBDA rooms, e : [now |-> rooms.now + e[2], most |-> Max({rooms.most, rooms.now + e[2]})],
             [now |-> 0, most |-> 0],
             Instants(FoldLeft(LAMBDA out, i : out \o <<<<i[1], 1>>, <<i[2], -1>>>>, <<>>, NonEmpty(s)))).most

(* The one that ends first is kept, and what overlaps it is passed over. *)
MaxNonOverlapping(s) ==
    FoldLeft(LAMBDA out, i : IF out # <<>> /\ i[1] < Last(out)[2] THEN out ELSE Append(out, i),
             <<>>, ByEnd(NonEmpty(s)))
MinRemovals(s) == Len(NonEmpty(s)) - Len(MaxNonOverlapping(s))

RECURSIVE Intersection(_, _)

(* Mutant: the one that starts first is passed. *)
IntersectionByStart(a, b) ==
    IF a = <<>> \/ b = <<>> THEN <<>>
    ELSE NonEmpty(<<Intersect(a[1], b[1])>>)
         \o (IF a[1][1] < b[1][1] THEN Intersection(Tail(a), b) ELSE Intersection(a, Tail(b)))

(* The one that ends first is passed. *)
Intersection(a, b) ==
    IF a = <<>> \/ b = <<>> THEN <<>>
    ELSE NonEmpty(<<Intersect(a[1], b[1])>>)
         \o (IF a[1][2] < b[1][2] THEN Intersection(Tail(a), b) ELSE Intersection(a, Tail(b)))

(* What is left of the base, block by block; at is how far it is done. *)
Subtract(base, covered) ==
    LET step(s, block) ==
            IF block[2] <= s.at \/ block[1] >= base[2] THEN s
            ELSE [at  |-> block[2],
                  out |-> IF block[1] > s.at THEN Append(s.out, <<s.at, block[1]>>) ELSE s.out]
        done == FoldLeft(step, [at |-> base[1], out |-> <<>>], MergeAll(covered))
    IN  IF IsEmpty(base) THEN <<>>
        ELSE IF done.at < base[2] THEN Append(done.out, <<done.at, base[2]>>) ELSE done.out

TotalCovered(s) == FoldLeft(LAMBDA n, i : n + i[2] - i[1], 0, MergeAll(s))

-----------------------------------------------------------------------------
Points(i) == i[1]..(i[2] - 1)
Covered(s) == UNION {Points(i) : i \in ToSet(s)}
Disjoint(S) == \A i, j \in S : i # j => Points(intervals[i]) \cap Points(intervals[j]) = {}

(* The merged intervals cover the points of those given, in order and with  *)
(* a gap between any two; one more that is inserted leaves what merging it  *)
(* with them would (intervals.go:115-182).                                 *)
MergeCoversTheSame ==
    intervals # <<>> =>
        LET m == MergeAll(intervals)
        IN  /\ Covered(m) = Covered(intervals) /\ TotalCovered(intervals) = Cardinality(Covered(intervals))
            /\ \A i \in 2..Len(m) : m[i - 1][2] < m[i][1]
            /\ \A s, e \in 0..LastPoint : InsertInto(m, <<s, e>>) = MergeAll(Append(m, <<s, e>>))

(* The rooms are as many as intervals ever share a point, intervals that    *)
(* only touch share one; as many as can be are kept apart; and an overlap   *)
(* is found whenever there is one, unless an empty interval sorts between   *)
(* the two (intervals.go:190-298).                                         *)
OverlapsAreCounted ==
    intervals # <<>> =>
        LET busy == {Cardinality({i \in 1..Len(intervals) : p \in Points(intervals[i])}) : p \in 0..LastPoint}
            kept == {i \in 1..Len(intervals) : ~IsEmpty(intervals[i])}
        IN  /\ MinRooms(intervals) = Max(busy)
            /\ MinRemovals(intervals) = Cardinality(kept) - Max({Cardinality(S) : S \in {T \in SUBSET kept : Disjoint(T)}})
            /\ AnyOverlap(intervals) => Max(busy) > 1
            /\ kept = 1..Len(intervals) => (AnyOverlap(intervals) <=> Max(busy) > 1)

(* Two lists of merged intervals intersect in their common points, and what *)
(* is left of an interval are its points that no block covers               *)
(* (intervals.go:304-359).                                                 *)
SetAlgebraHolds ==
    \A n \in 0..Len(intervals) :
        LET a == MergeAll(SubSeq(intervals, 1, n))
            b == MergeAll(SubSeq(intervals, n + 1, Len(intervals)))
        IN  /\ Covered(Intersection(a, b)) = Covered(a) \cap Covered(b)
            /\ n > 0 => Covered(Subtract(intervals[n], b)) = Points(intervals[n]) \ Covered(b)
=============================================================================
