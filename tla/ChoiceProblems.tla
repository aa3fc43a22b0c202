--------------------------- MODULE ChoiceProblems ---------------------------
(***************************************************************************)
(* dsa/patterns/dynamicprogramming and backtracking over the input: tables  *)
(* of the best answers to smaller problems, with the walk back to the       *)
(* choices that made them, and searches that undo each choice.  A search's  *)
(* path is what its calls give, put behind the choice they were made after. *)
(***************************************************************************)
EXTENDS InputSequence, SequencesExt, FiniteSetsExt

CONSTANT Dictionary    \* the words of WordBreak, sequences of input values

-----------------------------------------------------------------------------
(* Mutant: a coin is used once at most, as an item of a knapsack is. *)
AddCoinOnce(ways, coin) ==
    [s \in DOMAIN ways |-> IF coin = 0 \/ s < coin THEN ways[s] ELSE ways[s] + ways[s - coin]]

(* CoinChangeWays: the coins in the outer loop, so each set is met once. *)
AddCoin(ways, coin) ==
    LET sum[s \in DOMAIN ways] == IF coin = 0 \/ s < coin THEN ways[s] ELSE ways[s] + sum[s - coin]
    IN  sum

CoinChangeWays(coins, amount) ==
    FoldLeft(AddCoin, [s \in 0..amount |-> IF s = 0 THEN 1 ELSE 0], coins)[amount]

UsableAt(coins, sum) == {i \in DOMAIN coins : coins[i] > 0 /\ coins[i] <= sum}

(* The sums in the outer loop: the orders of a set are told apart. *)
CoinChangePermutations(coins, amount) ==
    LET ways[sum \in 0..amount] ==
            IF sum = 0 THEN 1 ELSE MapThenSumSet(LAMBDA i : ways[sum - coins[i]], UsableAt(coins, sum))
    IN  ways[amount]

(* The fewest coins, None if no sum of them is the amount. *)
MinCoins(coins, amount) ==
    LET best[sum \in 0..amount] ==
            LET rest == {best[sum - coins[i]] : i \in UsableAt(coins, sum)} \ {None}
            IN  IF sum = 0 THEN 0 ELSE IF rest = {} THEN None ELSE Min(rest) + 1
    IN  best[amount]

LongestCommonSubsequence(a, b) ==
    LET table[i \in 0..Len(a), j \in 0..Len(b)] ==
            IF i = 0 \/ j = 0 THEN 0
            ELSE IF a[i] = b[j] THEN table[i - 1, j - 1] + 1
            ELSE Max({table[i - 1, j], table[i, j - 1]})
        walk[i \in 0..Len(a), j \in 0..Len(b)] ==
            IF i = 0 \/ j = 0 THEN <<>>
            ELSE IF a[i] = b[j] THEN Append(walk[i - 1, j - 1], a[i])
            ELSE IF table[i - 1, j] >= table[i, j - 1] THEN walk[i - 1, j] ELSE walk[i, j - 1]
    IN  [length |-> table[Len(a), Len(b)], sequence |-> walk[Len(a), Len(b)]]

(* Mutant: the shorter one's insertions are left out. *)
NextRowWithoutInserts(previous, element, b) ==
    [j \in 0..Len(b) |->
        IF j = 0 THEN previous[0] + 1
        ELSE Min({previous[j - 1] + (IF element = b[j] THEN 0 ELSE 1), previous[j] + 1})]

(* One row of EditDistance from the row before it. *)
NextRow(previous, element, b) ==
    LET current[j \in 0..Len(b)] ==
            IF j = 0 THEN previous[0] + 1
            ELSE Min({previous[j - 1] + (IF element = b[j] THEN 0 ELSE 1), previous[j] + 1, current[j - 1] + 1})
    IN  current

EditDistance(a, b) ==
    LET longer == IF Len(a) < Len(b) THEN b ELSE a
        shorter == IF Len(a) < Len(b) THEN a ELSE b
    IN  FoldLeft(LAMBDA row, element : NextRow(row, element, shorter), [j \in 0..Len(shorter) |-> j], longer)[Len(shorter)]

(* Knapsack01: item i weighs weights[i]; the walk takes an item where the table rose. *)
Knapsack01(weights, values, capacity) ==
    LET table[i \in 0..Len(weights), w \in 0..capacity] ==
            IF i = 0 THEN 0
            ELSE IF weights[i] > w THEN table[i - 1, w]
            ELSE Max({table[i - 1, w], table[i - 1, w - weights[i]] + values[i]})
        walk[i \in 0..Len(weights), w \in 0..capacity] ==
            IF i = 0 THEN {}
            ELSE IF table[i, w] = table[i - 1, w] THEN walk[i - 1, w]
            ELSE {i} \cup walk[i - 1, w - weights[i]]
    IN  [value |-> table[Len(weights), capacity], chosen |-> walk[Len(weights), capacity]]

LISQuadratic(nums) ==
    LET best[i \in DOMAIN nums] == Max({1} \cup {best[j] + 1 : j \in {k \in 1..(i - 1) : nums[k] < nums[i]}})
    IN  Max({0} \cup {best[i] : i \in DOMAIN nums})

(* Mutant: an equal element makes a run longer. *)
TailPastEqual(tails, v) == 1 + Cardinality({k \in DOMAIN tails : input[tails[k]] <= v})

(* slices.BinarySearch: the first tail that is not below v. *)
TailFor(tails, v) == 1 + Cardinality({k \in DOMAIN tails : input[tails[k]] < v})

(* One element of LIS: tailIndex, and each element's parent (0 for none). *)
Extend(state, i) ==
    LET at == TailFor(state.tails, input[i])
    IN  [tails  |-> IF at > Len(state.tails) THEN Append(state.tails, i) ELSE ReplaceAt(state.tails, at, i),
         parent |-> Append(state.parent, IF at = 1 THEN 0 ELSE state.tails[at - 1])]

LIS ==
    LET end == FoldLeft(Extend, [tails |-> <<>>, parent |-> <<>>], [i \in DOMAIN input |-> i])
        back[i \in 0..Len(input)] == IF i = 0 THEN <<>> ELSE Append(back[end.parent[i]], input[i])
    IN  [length |-> Len(end.tails), sequence |-> IF input = <<>> THEN <<>> ELSE back[Last(end.tails)]]

(* Mutant: the longest word is not looked at. *)
LongestWordShort == Max({0} \cup {Len(w) - 1 : w \in Dictionary})

LongestWord == Max({0} \cup {Len(w) : w \in Dictionary})

(* from(i) is where the first word found to end at i starts. *)
WordBreak(s) ==
    LET can[i \in 0..Len(s)] ==
            i = 0 \/ \E j \in Max({0, i - LongestWord})..(i - 1) : can[j] /\ SubSeq(s, j + 1, i) \in Dictionary
        from(i) == Min({j \in 0..(i - 1) : can[j] /\ SubSeq(s, j + 1, i) \in Dictionary})
        words[i \in 0..Len(s)] == IF i = 0 THEN <<>> ELSE Append(words[from(i)], SubSeq(s, from(i) + 1, i))
    IN  IF can[Len(s)] THEN words[Len(s)] ELSE None

(* LongestPalindromicSubstring: the run around each centre, odd and even. *)
Expand(left, right) ==
    LET mirrored == {r \in 0..Len(input) :
            /\ left - r >= 0 /\ right + r <= Len(input) + 1
            /\ \A d \in 0..(r - 1) : left - d > 0 /\ right + d <= Len(input) /\ input[left - d] = input[right + d]}
    IN  right - left - 1 + 2 * Max(mirrored)
LongestPalindromicSubstring ==
    Max({0} \cup {Expand(i, i) : i \in DOMAIN input} \cup {Expand(i, i + 1) : i \in DOMAIN input})

-----------------------------------------------------------------------------
PutBefore(v, paths) == [i \in DOMAIN paths |-> <<v>> \o paths[i]]

(* The paths of the choices that are taken, from the lowest. *)
PathsInOrder(paths) ==
    LET order == SetToSortSeq(DOMAIN paths, <) IN FlattenSeq([k \in DOMAIN order |-> paths[order[k]]])

Subsets(s) ==
    LET explore[at \in 1..(Len(s) + 1)] ==
            IF at > Len(s) THEN <<<<>>>> ELSE explore[at + 1] \o PutBefore(s[at], explore[at + 1])
    IN  explore[1]

(* Mutant: it is skipped wherever it comes. *)
NewEverywhere(s, at) == {i \in at..Len(s) : i = 1 \/ s[i] # s[i - 1]}

(* An element equal to the one before it is skipped at its level only. *)
NewFrom(s, at) == {i \in at..Len(s) : i = at \/ s[i] # s[i - 1]}

SubsetsDistinct(s) ==
    LET sorted == SortSeq(s, <)
        explore[at \in 1..(Len(s) + 1)] ==
            <<<<>>>> \o PathsInOrder([i \in NewFrom(sorted, at) |-> PutBefore(sorted[i], explore[i + 1])])
    IN  explore[1]

(* k of 1..n; the loop stops where too few numbers are left. *)
Combinations(n, k) ==
    LET explore[start \in 1..(n + 1), need \in 0..k] ==
            IF need = 0 THEN <<<<>>>>
            ELSE PathsInOrder([v \in start..(n - need + 1) |-> PutBefore(v, explore[v + 1, need - 1])])
    IN  IF k > n THEN <<>> ELSE explore[1, k]

CombinationSum(candidates, target) ==
    LET sorted == SetToSortSeq(ToSet(candidates), <)
        explore[start \in 1..(Len(sorted) + 1), remaining \in 0..target] ==
            IF remaining = 0 THEN <<<<>>>>
            ELSE PathsInOrder([i \in {k \in UsableAt(sorted, remaining) : k >= start} |->
                                  PutBefore(sorted[i], explore[i, remaining - sorted[i]])])
    IN  explore[1, target]

Swapped(work, i, j) == [work EXCEPT ![i] = work[j], ![j] = work[i]]

PermutationsOf(s) ==
    LET explore[at \in 1..(Len(s) + 1), work \in [DOMAIN s -> ToSet(s)]] ==
            IF at > Len(s) THEN <<work>> ELSE PathsInOrder([i \in at..Len(s) |-> explore[at + 1, Swapped(work, at, i)]])
    IN  explore[1, s]

(* The first of equal elements that are free goes first. *)
FreeOf(s, used) == {i \in DOMAIN s \ used : i = 1 \/ s[i] # s[i - 1] \/ i - 1 \in used}

PermutationsDistinct(s) ==
    LET sorted == SortSeq(s, <)
        explore[used \in SUBSET DOMAIN s] ==
            IF used = DOMAIN s THEN <<<<>>>>
            ELSE PathsInOrder([i \in FreeOf(sorted, used) |-> PutBefore(sorted[i], explore[used \cup {i}])])
    IN  explore[{}]

(* Mutant: one of the two diagonals is not looked at. *)
AttacksOneWay(position, col) ==
    \E row \in DOMAIN position : position[row] = col \/ row - position[row] = Len(position) + 1 - col

(* A queen on an earlier row shares the column or a diagonal. *)
Attacked(position, col) ==
    \E row \in DOMAIN position :
        \/ position[row] = col
        \/ row - position[row] = Len(position) + 1 - col
        \/ row + position[row] = Len(position) + 1 + col

NQueens(n) ==
    LET place(positions) ==
            FlattenSeq([k \in DOMAIN positions |->
                PathsInOrder([c \in {col \in 1..n : ~Attacked(positions[k], col)} |-> <<Append(positions[k], c)>>])])
        rows[row \in 0..n] == IF row = 0 THEN <<<<>>>> ELSE place(rows[row - 1])
    IN  rows[n]

-----------------------------------------------------------------------------
FirstPart(k) == SubSeq(input, 1, k)
SecondPart(k) == SubSeq(input, k + 1, Len(input))
Cuts == 0..Len(input)
SubsequencesOf(s) ==
    {LET at == SetToSortSeq(D, <) IN [k \in DOMAIN at |-> s[at[k]]] : D \in SUBSET DOMAIN s}
TotalIn(s) == MapThenSumSet(LAMBDA i : s[i], DOMAIN s)
LongestOf(sequences) == Max({Len(s) : s \in sequences})

(* The subsequence that a table's walk gives back is one, of both sequences  *)
(* or ascending, of the length that the table says, and none is longer.      *)
SubsequencesAreLongest ==
    Given =>
        /\ \A k \in Cuts :
              LET common == SubsequencesOf(FirstPart(k)) \cap SubsequencesOf(SecondPart(k))
                  found == LongestCommonSubsequence(FirstPart(k), SecondPart(k))
              IN  found.sequence \in common /\ Len(found.sequence) = found.length /\ found.length = LongestOf(common)
        /\ LET ascending == {s \in SubsequencesOf(input) : \A i \in 1..(Len(s) - 1) : s[i] < s[i + 1]}
           IN  /\ LIS.sequence \in ascending /\ Len(LIS.sequence) = LIS.length
               /\ LIS.length = LongestOf(ascending) /\ LISQuadratic(input) = LIS.length
        /\ LongestPalindromicSubstring = LongestOf({s \in SubSeqs(input) : s = Reverse(s)} \cup {<<>>})

(* Pairs of places that are kept or replaced, in order in both sequences. *)
Matchings(a, b) == {<<S, T>> \in (SUBSET DOMAIN a) \X (SUBSET DOMAIN b) : Cardinality(S) = Cardinality(T)}
CostOf(a, b, m) ==
    LET left == SetToSortSeq(m[1], <) right == SetToSortSeq(m[2], <)
    IN  Len(a) + Len(b) - 2 * Len(left) + Cardinality({i \in DOMAIN left : a[left[i]] # b[right[i]]})

(* A pair of sequences: the input cut in two, or itself turned round.        *)
EditedPairs ==
    {<<FirstPart(k), SecondPart(k)>> : k \in Cuts}
        \cup {<<input, SecondPart(k) \o FirstPart(k)>> : k \in {c \in Cuts : Len(input) <= 4}}

(* No script of inserts, deletes and substitutions is shorter than the two   *)
(* rolling rows of EditDistance say, whichever argument is the longer one.   *)
DistancesAreLeast ==
    Given => \A pair \in EditedPairs :
        EditDistance(pair[1], pair[2]) = Min({CostOf(pair[1], pair[2], m) : m \in Matchings(pair[1], pair[2])})

Amounts == 0..4
Handfuls(amount) ==
    {h \in [DOMAIN input -> 0..amount] :
        /\ \A i \in DOMAIN input : input[i] = 0 => h[i] = 0
        /\ MapThenSumSet(LAMBDA i : h[i] * input[i], DOMAIN input) = amount}
Payments(amount) ==
    {t \in UNION {[1..n -> {i \in DOMAIN input : input[i] > 0}] : n \in 0..amount} :
        MapThenSumSet(LAMBDA i : input[t[i]], DOMAIN t) = amount}

(* Sets of coins are counted once each, orders apart when they are asked     *)
(* for; the fewest coins are the fewest; an item is packed once, and the     *)
(* chosen items fit and are worth what the table says, which is the most.    *)
ChoicesAreBest ==
    Given =>
        /\ Len(input) <= 3 => \A amount \in Amounts :
              /\ CoinChangeWays(input, amount) = Cardinality(Handfuls(amount))
              /\ CoinChangePermutations(input, amount) = Cardinality(Payments(amount))
              /\ MinCoins(input, amount) =
                    IF Handfuls(amount) = {} THEN None ELSE Min({TotalIn(h) : h \in Handfuls(amount)})
        /\ Len(input) <= 4 => \A capacity \in Amounts :
              LET packed == Knapsack01(input, Reverse(input), capacity)
                  Weight(S) == MapThenSumSet(LAMBDA i : input[i], S)
                  Value(S) == MapThenSumSet(LAMBDA i : Reverse(input)[i], S)
              IN  /\ Weight(packed.chosen) <= capacity /\ Value(packed.chosen) = packed.value
                  /\ \A S \in SUBSET DOMAIN input : Weight(S) <= capacity => Value(S) <= packed.value

Pieces(cuts) ==
    LET ends == SetToSortSeq(cuts \cup {Len(input)}, <)
    IN  [k \in DOMAIN ends |-> SubSeq(input, (IF k = 1 THEN 0 ELSE ends[k - 1]) + 1, ends[k])]

(* A sequence is broken into words of the dictionary whenever it can be.     *)
WordsAreFound ==
    Given /\ input # <<>> =>
        LET words == WordBreak(input)
            splits == {Pieces(cuts) : cuts \in SUBSET (1..(Len(input) - 1))}
            legal == {split \in splits : ToSet(split) \subseteq Dictionary}
        IN  IF words = None THEN legal = {} ELSE words \in legal

Once(paths, set) == ToSet(paths) = set /\ Len(paths) = Cardinality(set)
Places == [i \in DOMAIN input |-> i]
Arrangements == {t \in [DOMAIN input -> DOMAIN input] : \A i, j \in DOMAIN input : t[i] = t[j] => i = j}

(* A search visits every choice, and each once: equal elements do not give   *)
(* the same choice twice, and none is cut off that leads to one.             *)
ChoicesAreMadeOnce ==
    Given /\ Len(input) <= 4 =>
        /\ Once(Subsets(Places), SubsequencesOf(Places))
        /\ Once(SubsetsDistinct(input), {SortSeq(t, <) : t \in SubsequencesOf(input)})
        /\ \A k \in Cuts : Once(Combinations(Len(input), k), {t \in SubsequencesOf(Places) : Len(t) = k})
        /\ \A target \in Amounts :
              Once(CombinationSum(input, target),
                   {SortSeq([i \in DOMAIN t |-> input[t[i]]], <) : t \in Payments(target)})
        /\ Once(PermutationsOf(Places), Arrangements)
        /\ Once(PermutationsDistinct(input), {[i \in DOMAIN input |-> input[t[i]]] : t \in Arrangements})

(* The boards of NQueens are the permutations in which no two queens share a *)
(* diagonal: the marks of a branch are gone when the next one is tried.      *)
QueensAreSafe ==
    input = <<>> => \A n \in 1..5 :
        Once(NQueens(n), {q \in [1..n -> 1..n] : \A i, j \in 1..n :
            i # j => q[i] # q[j] /\ q[i] - i # q[j] - j /\ q[i] + i # q[j] + j})
=============================================================================
