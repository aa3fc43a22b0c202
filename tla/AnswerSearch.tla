---------------------------- MODULE AnswerSearch ----------------------------
(***************************************************************************)
(* dsa/searching.SearchAnswer, one turn of its loop at a time, over ints of *)
(* a machine's width: sums and differences wrap, and the midpoint is taken  *)
(* in unsigned arithmetic.  ok(x) is the monotonic predicate x >= boundary. *)
(* SearchMax of dsa/patterns/binarysearchanswer is read off its end.        *)
(***************************************************************************)
EXTENDS Integers, NoValue

CONSTANT MaxInt    \* math.MaxInt: 2^63 - 1 in the code, as small as a run likes

ASSUME WidthAssumption == MaxInt \in Nat

MinInt  == -MaxInt - 1
Ints    == MinInt..MaxInt
Modulus == 2 * MaxInt + 2

(* uint(x), the sum or difference of two uints, and int(u). *)
Unsigned(x) == IF x < 0 THEN x + Modulus ELSE x
WrapUint(u) == IF u < 0 THEN u + Modulus ELSE IF u >= Modulus THEN u - Modulus ELSE u

(* Mutant: the unsigned midpoint is taken as it is. *)
SignedNever(u) == u

Signed(u) == IF u > MaxInt THEN u - Modulus ELSE u

(* What an int sum or difference keeps of its value. *)
Wrap(x) == IF x > MaxInt THEN x - Modulus ELSE IF x < MinInt THEN x + Modulus ELSE x

(* Mutant: lo + (hi - lo) / 2, the difference wrapped to an int. *)
MidpointSigned(l, h) == l + Wrap(h - l) \div 2

(* int(uint(lo) + (uint(hi) - uint(lo)) / 2) *)
Midpoint(l, h) ==
    Signed(WrapUint(Unsigned(l) + WrapUint(Unsigned(h) - Unsigned(l)) \div 2))

VARIABLES
    low, high,        \* the arguments
    boundary,         \* the least value ok is true of; MaxInt + 1 for none
    lo, hi,           \* the loop's
    best, found,
    searching         \* the loop goes on

searchVars == <<low, high, boundary, lo, hi, best, found, searching>>

SearchInit ==
    /\ low \in Ints /\ high \in Ints
    /\ boundary \in MinInt..(MaxInt + 1)
    /\ lo = low /\ hi = high
    /\ best = 0 /\ found = FALSE
    /\ searching = (low <= high)

Ok(x) == x >= boundary

(* Mutant: the loop looks below mid also when mid is lo. *)
LookBelowAlways ==
    LET mid == Midpoint(lo, hi)
    IN  /\ searching /\ Ok(mid)
        /\ best' = mid /\ found' = TRUE
        /\ hi' = Wrap(mid - 1) /\ searching' = (lo <= Wrap(mid - 1))
        /\ UNCHANGED <<low, high, boundary, lo>>

(* ok(mid): mid is the best so far, and the loop looks below it unless mid
   is lo, whose predecessor may not exist.                                  *)
LookBelow ==
    LET mid == Midpoint(lo, hi)
    IN  /\ searching /\ Ok(mid)
        /\ best' = mid /\ found' = TRUE
        /\ IF mid = lo THEN hi' = hi /\ searching' = FALSE
                       ELSE hi' = Wrap(mid - 1) /\ searching' = (lo <= Wrap(mid - 1))
        /\ UNCHANGED <<low, high, boundary, lo>>

LookAbove ==
    LET mid == Midpoint(lo, hi)
    IN  /\ searching /\ ~Ok(mid)
        /\ IF mid = hi THEN lo' = lo /\ searching' = FALSE
                       ELSE lo' = Wrap(mid + 1) /\ searching' = (Wrap(mid + 1) <= hi)
        /\ UNCHANGED <<low, high, boundary, hi, best, found>>

SearchNext == LookBelow \/ LookAbove

SearchSpec == SearchInit /\ [][SearchNext]_searchVars /\ WF_searchVars(SearchNext)

(* SearchMax with feasible(x) == x < boundary, None for ErrImpossible. *)
SearchMax ==
    CASE low > high -> None
      [] low <= high /\ ~found -> high
      [] low <= high /\ found  -> IF best = low THEN None ELSE Wrap(best - 1)

-----------------------------------------------------------------------------
SearchTypeOK ==
    /\ low \in Ints /\ high \in Ints /\ lo \in Ints /\ hi \in Ints /\ best \in Ints
    /\ boundary \in MinInt..(MaxInt + 1)
    /\ found \in BOOLEAN /\ searching \in BOOLEAN

(* For every pair of bounds the machine's ints allow, the loop ends on the  *)
(* least value of the range that ok is true of, or finds none exactly when  *)
(* there is none: the midpoint never leaves the range, and neither bound    *)
(* wraps (rotated.go:145-182).                                             *)
AnswerIsLeast ==
    ~searching => IF low <= high /\ boundary <= high
                  THEN found /\ best = (IF low >= boundary THEN low ELSE boundary)
                  ELSE ~found

(* SearchMax steps back from the first value that fails without leaving the *)
(* range: it returns the greatest value that works, or none when not even   *)
(* the least does (binarysearchanswer.go:82-98).                           *)
AnswerIsGreatest ==
    ~searching => IF low <= high /\ low < boundary
                  THEN SearchMax = (IF high < boundary THEN high ELSE boundary - 1)
                  ELSE SearchMax = None

(* Every turn leaves a smaller range or ends the loop, which is why it ends *)
(* at the extremes of the width too.                                       *)
RangeShrinks == [][lo' >= lo /\ hi' <= hi /\ (searching' => hi' - lo' < hi - lo)]_searchVars

(* The search ends. *)
SearchOver == ~searching

(* The search ends on the least (SearchAnswer) and the greatest (SearchMax) *)
(* value that works, and on ints at every width.                            *)
AnswersAreFound == SearchTypeOK /\ AnswerIsLeast /\ AnswerIsGreatest
=============================================================================
