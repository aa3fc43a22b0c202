---------------------------- MODULE SearchTrees -----------------------------
(***************************************************************************)
(* dsa/redblack and dsa/bst: the left-leaning red-black tree and the       *)
(* unbalanced search tree, under any sequence of calls over a small set of *)
(* keys.  A node has a key, a value and two links, None for a nil one.     *)
(* rbMap and bstMap are the map a caller has in mind: what the tree must   *)
(* stay equal to.                                                          *)
(***************************************************************************)
EXTENDS Integers, Sequences, FiniteSetsExt, NoValue

RECURSIVE MinNode(_)
MinNode(h) == IF h.left = None THEN h ELSE MinNode(h.left)

(* Get: the node of a key, None when it is missing. *)
RECURSIVE NodeAt(_, _)
NodeAt(n, k) ==
    IF n = None \/ n.key = k THEN n ELSE NodeAt(IF k < n.key THEN n.left ELSE n.right, k)

RECURSIVE InOrder(_)
InOrder(n) == IF n = None THEN <<>> ELSE InOrder(n.left) \o <<<<n.key, n.value>>>> \o InOrder(n.right)

RECURSIVE FloorFrom(_, _, _)
FloorFrom(n, k, best) ==
    IF n = None THEN best
    ELSE CASE n.key = k -> n
           [] n.key < k -> FloorFrom(n.right, k, n)
           [] OTHER     -> FloorFrom(n.left, k, best)

RECURSIVE CeilingFrom(_, _, _)
CeilingFrom(n, k, best) ==
    IF n = None THEN best
    ELSE CASE n.key = k -> n
           [] n.key > k -> CeilingFrom(n.left, k, n)
           [] OTHER     -> CeilingFrom(n.right, k, best)

RECURSIVE RangeWalk(_, _, _)

(* Mutant: the walk turns away from a subtree at a bound it includes. *)
RangeWalkOpen(n, lo, hi) ==
    IF n = None THEN <<>>
    ELSE (IF n.key > lo + 1 THEN RangeWalk(n.left, lo, hi) ELSE <<>>)
         \o (IF n.key >= lo /\ n.key <= hi THEN <<n.key>> ELSE <<>>)
         \o (IF n.key < hi THEN RangeWalk(n.right, lo, hi) ELSE <<>>)

RangeWalk(n, lo, hi) ==
    IF n = None THEN <<>>
    ELSE (IF n.key > lo THEN RangeWalk(n.left, lo, hi) ELSE <<>>)
         \o (IF n.key >= lo /\ n.key <= hi THEN <<n.key>> ELSE <<>>)
         \o (IF n.key < hi THEN RangeWalk(n.right, lo, hi) ELSE <<>>)

-----------------------------------------------------------------------------
(* dsa/redblack *)

CONSTANTS
    RBKeys,       \* the keys of the run, integers
    RBValues      \* the values stored under them

VARIABLES
    rbRoot,       \* Tree.root: a node, or None
    rbCount,      \* Tree.count
    rbMap         \* the key/value pairs stored so far

rbVars == <<rbRoot, rbCount, rbMap>>

IsRed(n) == n # None /\ n.red
Node(k, v) == [key |-> k, value |-> v, red |-> TRUE, left |-> None, right |-> None]

(* The three operations on links and colours. *)
RotateLeft(h) ==
    LET x == h.right IN [x EXCEPT !.left = [h EXCEPT !.right = x.left, !.red = TRUE], !.red = h.red]
RotateRight(h) ==
    LET x == h.left IN [x EXCEPT !.right = [h EXCEPT !.left = x.right, !.red = TRUE], !.red = h.red]
FlipColors(h) == [h EXCEPT !.red = ~@, !.left.red = ~@, !.right.red = ~@]

(* Mutant: a 4-node is not split on the way up. *)
BalanceKeepsFour(h) ==
    LET left == IF IsRed(h.right) /\ ~IsRed(h.left) THEN RotateLeft(h) ELSE h
    IN  IF IsRed(left.left) /\ IsRed(left.left.left) THEN RotateRight(left) ELSE left

(* Restores the three rules at h, its subtrees keeping them already. *)
Balance(h) ==
    LET left  == IF IsRed(h.right) /\ ~IsRed(h.left) THEN RotateLeft(h) ELSE h
        right == IF IsRed(left.left) /\ IsRed(left.left.left) THEN RotateRight(left) ELSE left
    IN  IF IsRed(right.left) /\ IsRed(right.right) THEN FlipColors(right) ELSE right

RECURSIVE Put(_, _, _)
Put(h, k, v) ==
    IF h = None THEN Node(k, v)
    ELSE Balance(CASE k < h.key -> [h EXCEPT !.left = Put(@, k, v)]
                   [] k > h.key -> [h EXCEPT !.right = Put(@, k, v)]
                   [] OTHER     -> [h EXCEPT !.value = v])

(* A red link lent to a child, so that the walk never stands on a 2-node. *)
MoveRedLeft(h) ==
    LET f == FlipColors(h)
    IN  IF IsRed(f.right.left) THEN FlipColors(RotateLeft([f EXCEPT !.right = RotateRight(@)])) ELSE f
MoveRedRight(h) ==
    LET f == FlipColors(h) IN IF IsRed(f.left.left) THEN FlipColors(RotateRight(f)) ELSE f

LendLeft(h)  == IF ~IsRed(h.left) /\ ~IsRed(h.left.left) THEN MoveRedLeft(h) ELSE h
LendRight(h) == IF ~IsRed(h.right) /\ ~IsRed(h.right.left) THEN MoveRedRight(h) ELSE h
LeanRight(h) == IF IsRed(h.left) THEN RotateRight(h) ELSE h

RECURSIVE DeleteMin(_)
DeleteMin(h) == IF h.left = None THEN None ELSE Balance([LendLeft(h) EXCEPT !.left = DeleteMin(@)])

RECURSIVE DeleteMax(_)
DeleteMax(h) ==
    LET leaned == LeanRight(h)
    IN  IF leaned.right = None THEN None ELSE Balance([LendRight(leaned) EXCEPT !.right = DeleteMax(@)])

RECURSIVE Del(_, _)

(* Mutant: the successor's key moves up without its value. *)
DelKeepsValue(h, k) ==
    IF k < h.key THEN Balance([LendLeft(h) EXCEPT !.left = Del(@, k)])
    ELSE LET lent == LendRight(LeanRight(h))
         IN  IF LeanRight(h).right = None THEN None
             ELSE Balance(IF k = lent.key
                          THEN [lent EXCEPT !.key = MinNode(lent.right).key, !.right = DeleteMin(@)]
                          ELSE [lent EXCEPT !.right = Del(@, k)])

Del(h, k) ==
    IF k < h.key THEN Balance([LendLeft(h) EXCEPT !.left = Del(@, k)])
    ELSE LET leaned == LeanRight(h)
             lent   == LendRight(leaned)
             next   == MinNode(lent.right)
         IN  IF k = leaned.key /\ leaned.right = None THEN None
             ELSE Balance(IF k = lent.key
                          THEN [lent EXCEPT !.key = next.key, !.value = next.value, !.right = DeleteMin(@)]
                          ELSE [lent EXCEPT !.right = Del(@, k)])

(* Every public deletion starts by lending the root's blackness to the walk
   down, and ends with a black root.                                        *)
LendRoot(h) == IF ~IsRed(h.left) /\ ~IsRed(h.right) THEN [h EXCEPT !.red = TRUE] ELSE h
Blacken(h) == IF h = None THEN h ELSE [h EXCEPT !.red = FALSE]

Floor(k)     == FloorFrom(rbRoot, k, None)
Ceiling(k)   == CeilingFrom(rbRoot, k, None)
RangeOf(lo, hi) == RangeWalk(rbRoot, lo, hi)

(* What IsValid asks of the shape. *)
RECURSIVE BlackHeight(_)
BlackHeight(n) == IF n = None THEN 0 ELSE BlackHeight(n.left) + (IF n.red THEN 0 ELSE 1)

RECURSIVE Is23(_, _)
Is23(n, isRoot) ==
    n = None \/ (/\ ~IsRed(n.right)
                 /\ isRoot \/ ~(n.red /\ IsRed(n.left))
                 /\ Is23(n.left, FALSE) /\ Is23(n.right, FALSE))

RECURSIVE BlackBalanced(_, _)
BlackBalanced(n, remaining) ==
    IF n = None THEN remaining = 0
    ELSE LET below == IF n.red THEN remaining ELSE remaining - 1
         IN  BlackBalanced(n.left, below) /\ BlackBalanced(n.right, below)

-----------------------------------------------------------------------------
RBInit == rbRoot = None /\ rbCount = 0 /\ rbMap = {}

RBPut(k, v) ==
    /\ rbRoot' = Blacken(Put(rbRoot, k, v))
    /\ rbCount' = IF NodeAt(rbRoot, k) = None THEN rbCount + 1 ELSE rbCount
    /\ rbMap' = {p \in rbMap : p[1] # k} \cup {<<k, v>>}

(* Delete returns early for a key it does not find; the two others for an
   empty tree.                                                              *)
Deleted(root, k) ==
    /\ rbRoot' = Blacken(root)
    /\ rbCount' = rbCount - 1
    /\ rbMap' = {p \in rbMap : p[1] # k}

RBDelete(k) ==
    /\ NodeAt(rbRoot, k) # None
    /\ Deleted(Del(LendRoot(rbRoot), k), k)
RBDeleteMin == rbRoot # None /\ Deleted(DeleteMin(LendRoot(rbRoot)), Min({p[1] : p \in rbMap}))
RBDeleteMax == rbRoot # None /\ Deleted(DeleteMax(LendRoot(rbRoot)), Max({p[1] : p \in rbMap}))

RBNext ==
    \/ \E k \in RBKeys, v \in RBValues : RBPut(k, v)
    \/ \E k \in RBKeys : RBDelete(k)
    \/ RBDeleteMin
    \/ RBDeleteMax

-----------------------------------------------------------------------------
(* After any sequence of operations the walk in key order yields exactly    *)
(* the pairs that were stored and not deleted, each key with its last       *)
(* value, a lookup finds each of them, and count is their number            *)
(* (redblack.go:120, :219, :373-515).                                      *)
RBIsTheMap ==
    LET pairs == InOrder(rbRoot)
    IN  /\ {pairs[i] : i \in 1..Len(pairs)} = rbMap
        /\ \A i \in 1..(Len(pairs) - 1) : pairs[i][1] < pairs[i + 1][1]
        /\ \A p \in rbMap : NodeAt(rbRoot, p[1]) # None /\ NodeAt(rbRoot, p[1]).value = p[2]
        /\ rbCount = Cardinality(rbMap) /\ Len(pairs) = rbCount

(* No operation leaves a right-leaning red link, two red links in a row or  *)
(* two paths with a different number of black links: the balance the        *)
(* logarithmic bounds rest on (redblack.go:605-655).                        *)
RBBalanced == Is23(rbRoot, TRUE) /\ BlackBalanced(rbRoot, BlackHeight(rbRoot))

(* Floor, Ceiling and Range agree with the set of keys for every argument,  *)
(* present or not, in every shape the tree takes (redblack.go:297-342, 554).*)
RBSearchesAgree ==
    LET keys == {p[1] : p \in rbMap}
    IN  \A k \in RBKeys :
        /\ LET f == Floor(k)
               below == {x \in keys : x <= k}
           IN  IF below = {} THEN f = None ELSE f # None /\ f.key = Max(below)
        /\ LET c == Ceiling(k)
               above == {x \in keys : x >= k}
           IN  IF above = {} THEN c = None ELSE c # None /\ c.key = Min(above)
        /\ \A hi \in RBKeys :
               LET found == RangeOf(k, hi)
               IN  /\ {found[i] : i \in 1..Len(found)} = {x \in keys : k <= x /\ x <= hi}
                   /\ \A i \in 1..(Len(found) - 1) : found[i] < found[i + 1]

-----------------------------------------------------------------------------
(* dsa/bst *)

CONSTANT BstKeys    \* the keys of the run, integers

VARIABLES
    bstRoot,      \* Tree.root: a node, or None
    bstCount,     \* Tree.count
    bstMap        \* the pairs stored so far; a value is TRUE once it was replaced

bstVars == <<bstRoot, bstCount, bstMap>>

(* The link the key's search ends at takes the new node. *)
RECURSIVE InsertKey(_, _, _)
InsertKey(n, k, v) ==
    IF n = None THEN [key |-> k, value |-> v, left |-> None, right |-> None]
    ELSE CASE k = n.key -> [n EXCEPT !.value = v]
           [] k < n.key -> [n EXCEPT !.left = InsertKey(@, k, v)]
           [] OTHER     -> [n EXCEPT !.right = InsertKey(@, k, v)]

(* The successor's link takes its right child. *)
RECURSIVE CutMin(_)
CutMin(n) == IF n.left = None THEN n.right ELSE [n EXCEPT !.left = CutMin(@)]

(* Mutant: the successor's subtree is lost with it. *)
CutNode(n) ==
    CASE n.left = None  -> n.right
      [] n.right = None -> n.left
      [] OTHER -> [n EXCEPT !.key = MinNode(n.right).key, !.value = MinNode(n.right).value,
                            !.right = IF n.right.left = None THEN None ELSE CutMin(@)]

(* The three cases of a deletion at the node. *)
Cut(n) ==
    CASE n.left = None  -> n.right
      [] n.right = None -> n.left
      [] OTHER -> [n EXCEPT !.key = MinNode(n.right).key, !.value = MinNode(n.right).value,
                            !.right = CutMin(@)]

RECURSIVE RemoveKey(_, _)
RemoveKey(n, k) ==
    CASE k = n.key -> Cut(n)
      [] k < n.key -> [n EXCEPT !.left = RemoveKey(@, k)]
      [] OTHER     -> [n EXCEPT !.right = RemoveKey(@, k)]

BstFloor(k)        == FloorFrom(bstRoot, k, None)
BstCeiling(k)      == CeilingFrom(bstRoot, k, None)
BstRange(lo, hi)   == RangeWalk(bstRoot, lo, hi)

(* A queue of nodes: the front one is yielded, its children go to the back. *)
RECURSIVE LevelsFrom(_)
LevelsFrom(queue) ==
    IF queue = <<>> THEN <<>>
    ELSE LET n == Head(queue)
         IN  <<n.key>> \o LevelsFrom(Tail(queue) \o SelectSeq(<<n.left, n.right>>, LAMBDA c : c # None))
LevelOrder == IF bstRoot = None THEN <<>> ELSE LevelsFrom(<<bstRoot>>)

RECURSIVE DepthOf(_, _)
DepthOf(n, k) == IF n.key = k THEN 0 ELSE 1 + DepthOf(IF k < n.key THEN n.left ELSE n.right, k)

-----------------------------------------------------------------------------
BstInit == bstRoot = None /\ bstCount = 0 /\ bstMap = {}

BstPut(k) ==
    LET known == NodeAt(bstRoot, k) # None
    IN  /\ bstRoot' = InsertKey(bstRoot, k, known)
        /\ bstCount' = IF known THEN bstCount ELSE bstCount + 1
        /\ bstMap' = {p \in bstMap : p[1] # k} \cup {<<k, known>>}

BstDelete(k) ==
    /\ NodeAt(bstRoot, k) # None
    /\ bstRoot' = RemoveKey(bstRoot, k)
    /\ bstCount' = bstCount - 1
    /\ bstMap' = {p \in bstMap : p[1] # k}

BstNext == \E k \in BstKeys : BstPut(k) \/ BstDelete(k)

-----------------------------------------------------------------------------
(* In every shape a sequence of operations can give the tree, the walk in   *)
(* key order yields exactly the pairs stored and not deleted (bst.go:63-106,*)
(* :218), and the walk by levels yields the same keys, no key before one    *)
(* nearer to the root (:368).                                              *)
BstIsTheMap ==
    LET pairs == InOrder(bstRoot)
    IN  /\ {pairs[i] : i \in 1..Len(pairs)} = bstMap
        /\ \A p \in bstMap : NodeAt(bstRoot, p[1]) # None /\ NodeAt(bstRoot, p[1]).value = p[2]
        /\ \A i \in 1..(Len(pairs) - 1) : pairs[i][1] < pairs[i + 1][1]
        /\ Len(pairs) = bstCount /\ bstCount = Cardinality(bstMap)
        /\ Len(LevelOrder) = bstCount
        /\ \A i, j \in 1..bstCount :
               i < j => DepthOf(bstRoot, LevelOrder[i]) <= DepthOf(bstRoot, LevelOrder[j])

(* Floor, Ceiling and Range give what the set of keys says, for arguments   *)
(* that are present and ones that are not (bst.go:152-200, :336-363).      *)
BstSearchesAgree ==
    LET keys == {p[1] : p \in bstMap}
    IN  \A k \in BstKeys :
        /\ LET below == {x \in keys : x <= k}
           IN  IF below = {} THEN BstFloor(k) = None ELSE BstFloor(k).key = Max(below)
        /\ LET above == {x \in keys : x >= k}
           IN  IF above = {} THEN BstCeiling(k) = None ELSE BstCeiling(k).key = Min(above)
        /\ \A hi \in BstKeys :
               {BstRange(k, hi)[i] : i \in 1..Len(BstRange(k, hi))} = {x \in keys : k <= x /\ x <= hi}
=============================================================================
