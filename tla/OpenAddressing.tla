--------------------------- MODULE OpenAddressing ---------------------------
(***************************************************************************)
(* dsa/hashmap: the table with linear probing, under any sequence of Put    *)
(* and Delete and any of the hash functions of the run.  hashMap is the map *)
(* a caller has in mind: what a lookup must go on answering.               *)
(***************************************************************************)
EXTENDS Integers, Sequences, FiniteSetsExt, NoValue

CONSTANTS
    HashKeys,       \* the keys of the run
    HashValues,     \* what is stored under them
    HashFunctions,  \* the hash functions a map may have: keys to naturals
    TableSizes      \* the sizes a table may have: powers of two (from 8 in the code)

ASSUME HashAssumption ==
    /\ IsFiniteSet(HashKeys) /\ HashFunctions \subseteq [HashKeys -> Nat]
    /\ TableSizes \subseteq Nat \ {0}
    /\ \A n \in 1..Cardinality(HashKeys) : \E s \in TableSizes : s >= (10 * n) \div 7 + 1
    /\ None \notin HashValues

VARIABLES
    hashOf,         \* the map's hash function
    table,          \* HashMap.slots: slot i of the code is table[i + 1]
    occupied, dead, \* HashMap.count and dead
    hashMap         \* what a caller has stored; None under a key that is absent

hashVars == <<hashOf, table, occupied, dead, hashMap>>

EmptySlot == [state |-> "empty", key |-> None, value |-> None]
Tombstone == [state |-> "deleted", key |-> None, value |-> None]
Slot(k, v) == [state |-> "occupied", key |-> k, value |-> v]

(* The least size that holds n keys at a load of 0.7. *)
SlotsFor(n) == Min({s \in TableSizes : s >= (10 * n) \div 7 + 1})

Table(size) == [i \in 1..size |-> EmptySlot]

(* The slot that probe looks at in its i-th round, with the hash taken to a *)
(* start by the mask.                                                      *)
SlotAt(t, k, i) == (((hashOf[k] % Len(t)) + i) % Len(t)) + 1
Looked(t, k, i) == t[SlotAt(t, k, i)]
HasKey(s, k) == s.state = "occupied" /\ s.key = k

(* Mutant: the probe takes a tombstone for the end of the chain. *)
EndsAtAny(s) == s.state # "occupied"

EndsChain(s) == s.state = "empty"

(* The rounds that probe comes to, and the one that finds the key. *)
Rounds(t, k) ==
    {i \in 0..(Len(t) - 1) :
        \A j \in 0..(i - 1) : ~EndsChain(Looked(t, k, j)) /\ ~HasKey(Looked(t, k, j), k)}
Hits(t, k) == {i \in Rounds(t, k) : HasKey(Looked(t, k, i), k)}

(* A new key goes to the first tombstone of its chain, or else to the empty *)
(* slot that ends it.  With neither the code answers -1, and its caller     *)
(* would fault on it: RoomIsLeft says that there is one.                   *)
FreeRounds(t, k) ==
    {i \in 0..(Len(t) - 1) :
        /\ Looked(t, k, i).state # "occupied"
        /\ \A j \in 0..(i - 1) : Looked(t, k, j).state = "occupied"}
PlaceFor(t, k) == SlotAt(t, k, CHOOSE i \in FreeRounds(t, k) : TRUE)

Get(k) ==
    IF occupied = 0 \/ Hits(table, k) = {} THEN None
    ELSE Looked(table, k, CHOOSE i \in Hits(table, k) : TRUE).value

(* resize: every key probes its slot again, in slot order. *)
Carried(s, t) == IF s.state = "occupied" THEN [t EXCEPT ![PlaceFor(t, s.key)] = s] ELSE t
Rehashed(old, size) ==
    LET filled[i \in 0..Len(old)] == IF i = 0 THEN Table(size) ELSE Carried(old[i], filled[i - 1])
    IN  filled[Len(old)]

(* Mutant: the table is rebuilt when it is full and one more. *)
OverLoadedLate(used, size) == used > size

OverLoaded(used, size) == 10 * used > 7 * size

-----------------------------------------------------------------------------
HashInit ==
    /\ hashOf \in HashFunctions
    /\ table = <<>>
    /\ occupied = 0 /\ dead = 0
    /\ hashMap = [k \in HashKeys |-> None]

(* The zero value allocates its table at the first Put. *)
Allocated == IF table = <<>> THEN Table(SlotsFor(1)) ELSE table

(* Put of a key that the table has. *)
HashReplace(t, k, v) ==
    \E i \in Hits(t, k) :
        /\ table' = [t EXCEPT ![SlotAt(t, k, i)] = Slot(k, v)]
        /\ UNCHANGED <<occupied, dead>>

(* Put of one that it has not: it is counted, and a table that is too full
   is rebuilt.                                                              *)
HashInsert(t, k, v) ==
    LET put  == [t EXCEPT ![PlaceFor(t, k)] = Slot(k, v)]
        used == IF t[PlaceFor(t, k)].state = "deleted" THEN dead - 1 ELSE dead
        full == OverLoaded(occupied + 1 + used, Len(t))
    IN  /\ Hits(t, k) = {}
        /\ table' = IF full THEN Rehashed(put, SlotsFor(occupied + 1)) ELSE put
        /\ occupied' = occupied + 1
        /\ dead' = IF full THEN 0 ELSE used

HashPut(k, v) ==
    /\ HashReplace(Allocated, k, v) \/ HashInsert(Allocated, k, v)
    /\ hashMap' = [hashMap EXCEPT ![k] = v]
    /\ UNCHANGED hashOf

HashDelete(k) ==
    \E i \in Hits(table, k) :
        /\ occupied > 0
        /\ table' = [table EXCEPT ![SlotAt(table, k, i)] = Tombstone]
        /\ occupied' = occupied - 1
        /\ dead' = dead + 1
        /\ hashMap' = [hashMap EXCEPT ![k] = None]
        /\ UNCHANGED hashOf

HashNext == \E k \in HashKeys : (\E v \in HashValues : HashPut(k, v)) \/ HashDelete(k)

HashSpec == HashInit /\ [][HashNext]_hashVars

-----------------------------------------------------------------------------
Slots(t, state) == {i \in 1..Len(t) : t[i].state = state}
KeysIn(m) == {k \in HashKeys : m[k] # None}

(* Whatever collides with whatever, and whatever was deleted in between, a  *)
(* lookup finds every key that was stored and not deleted, with its last    *)
(* value, and no other: no chain is cut by a deletion, and a key that is    *)
(* put again past a tombstone is not stored twice (hashmap.go:146-286).     *)
LookupIsTheMap ==
    /\ \A k \in HashKeys : Get(k) = hashMap[k]
    /\ Cardinality(Slots(table, "occupied")) = Cardinality(KeysIn(hashMap))

(* The two counters say what the slots hold, and a table never fills up:    *)
(* between two calls tombstones and keys leave slots empty, so that probe   *)
(* has an answer for every new key (hashmap.go:176-180).                    *)
RoomIsLeft ==
    /\ occupied = Cardinality(Slots(table, "occupied"))
    /\ dead = Cardinality(Slots(table, "deleted"))
    /\ table # <<>> =>
        /\ ~OverLoaded(occupied + dead, Len(table)) /\ occupied + dead < Len(table)
        /\ \A k \in HashKeys : Hits(table, k) # {} \/ FreeRounds(table, k) # {}
=============================================================================
