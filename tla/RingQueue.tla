------------------------------ MODULE RingQueue ------------------------------
(***************************************************************************)
(* dsa/queue: the ring buffer and the matchmaker that takes players out of  *)
(* its middle.  line is the queue a caller has in mind, served in the order *)
(* of arrival: a sequence the buffer must go on holding while head and tail *)
(* wrap around it.  MatchAll takes one turn of its loop at a time.         *)
(***************************************************************************)
EXTENDS Integers, SequencesExt, NoValue

CONSTANTS
    Players,     \* who may join, each at most once in the queue
    RankOf,      \* a player's tier
    FirstRoom    \* the capacity given to New; 0 is the zero value

ASSUME RingAssumption == FirstRoom \in Nat /\ None \notin Players

VARIABLES
    ring,        \* Queue.items; index i of the code is ring[i + 1]
    head, tail,  \* Queue.head and tail
    inQueue,     \* Queue.count
    line,        \* the players waiting, in their order
    matches,     \* MatchAll's matches
    failures,    \* MatchAll's failures, None between the calls
    arrived      \* history: the line when MatchAll was called

queueVars == <<ring, head, tail, inQueue, line, matches, failures, arrived>>
matchVars == <<matches, failures, arrived>>

RingInit ==
    /\ ring = [i \in 1..FirstRoom |-> None]
    /\ head = 0 /\ tail = 0 /\ inQueue = 0
    /\ line = <<>>
    /\ matches = <<>> /\ failures = None /\ arrived = <<>>

(* A queue as a value, so that one call can work through several steps. *)
Ring == [items |-> ring, head |-> head, tail |-> tail, count |-> inQueue]
Becomes(q) == ring' = q.items /\ head' = q.head /\ tail' = q.tail /\ inQueue' = q.count

Behind(q, i) == ((q.head + i) % Len(q.items)) + 1
Contents(q) == [i \in 1..q.count |-> q.items[Behind(q, i - 1)]]

(* A buffer twice as large, with the elements in their order. *)
Grow(q) ==
    [items |-> [i \in 1..(IF q.items = <<>> THEN 1 ELSE 2 * Len(q.items)) |->
                    IF i <= q.count THEN Contents(q)[i] ELSE None],
     head |-> 0, tail |-> q.count, count |-> q.count]
Room(q) == IF q.count = Len(q.items) THEN Grow(q) ELSE q

PushBack(q, v) ==
    LET r == Room(q)
    IN  [r EXCEPT !.items[r.tail + 1] = v, !.tail = (@ + 1) % Len(r.items), !.count = @ + 1]

(* pushFront leaves tail alone: the slot it takes is behind head. *)
PushFront(q, v) ==
    LET r == Room(q)
        h == (r.head - 1 + Len(r.items)) % Len(r.items)
    IN  [r EXCEPT !.items[h + 1] = v, !.head = h, !.count = @ + 1]

PopFront(q) ==
    [q EXCEPT !.items[q.head + 1] = None, !.head = (@ + 1) % Len(q.items), !.count = @ - 1]

(* Mutant: the slots behind the gap are shifted in memory order only. *)
RemovePlaceUnwrapped(q, i) ==
    LET last == (q.head + q.count - 1) % Len(q.items)
    IN  [q EXCEPT !.items = [j \in 1..Len(q.items) |->
                                CASE j - 1 = last -> None
                                  [] j - 1 >= q.head + i /\ j < Len(q.items) -> q.items[j + 1]
                                  [] OTHER -> q.items[j]],
                  !.tail = last, !.count = @ - 1]

(* The elements behind the i-th move up, wrapping; the last slot is cleared. *)
RemovePlace(q, i) ==
    LET place(j) == (j - 1 - q.head + Len(q.items)) % Len(q.items)
    IN  [q EXCEPT !.items = [j \in 1..Len(q.items) |->
                                CASE place(j) \in i..(q.count - 2) -> q.items[(j % Len(q.items)) + 1]
                                  [] place(j) = q.count - 1         -> None
                                  [] OTHER                          -> q.items[j]],
                  !.tail = (q.head + q.count - 1) % Len(q.items), !.count = @ - 1]

(* The player who waits i places behind the front. *)
Waiting(i) == ring[Behind(Ring, i)]

-----------------------------------------------------------------------------
(* Nobody else has the queue while MatchAll runs. *)
Idle == failures = None /\ UNCHANGED matchVars

Push(p) ==
    /\ Idle /\ p \notin ToSet(line)
    /\ Becomes(PushBack(Ring, p))
    /\ line' = Append(line, p)

Pop ==
    /\ Idle /\ inQueue > 0
    /\ Becomes(PopFront(Ring))
    /\ line' = Tail(line)

(* RemoveFunc, with a predicate that one player meets. *)
RemoveFunc(p) ==
    \E i \in 0..(inQueue - 1) :
        /\ Idle /\ Waiting(i) = p
        /\ Becomes(RemovePlace(Ring, i))
        /\ line' = RemoveFirst(line, p)

MatchAll ==
    /\ failures = None
    /\ failures' = 0 /\ matches' = <<>> /\ arrived' = line
    /\ UNCHANGED <<ring, head, tail, inQueue, line>>

(* Mutant: the first player without a partner ends the loop. *)
LoopingOnce == failures # None /\ inQueue >= 2 /\ failures < 1

(* The loop's condition: a full pass with no match ends it. *)
Looping == failures # None /\ inQueue >= 2 /\ failures < inQueue

(* The front player can be matched with the one i places behind it. *)
Compatible(i) == RankOf[Waiting(i)] = RankOf[Waiting(0)]

(* Matchmake: the front player leaves, with the first one of its tier. *)
MatchFront ==
    \E i \in 1..(inQueue - 1) :
        /\ Looping /\ Compatible(i) /\ \A j \in 1..(i - 1) : ~Compatible(j)
        /\ Becomes(RemovePlace(PopFront(Ring), i - 1))
        /\ line' = RemoveFirst(Tail(line), Waiting(i))
        /\ matches' = Append(matches, <<Waiting(0), Waiting(i)>>)
        /\ failures' = 0
        /\ UNCHANGED arrived

(* Mutant: the failed attempt is not counted. *)
SkipFrontUncounted ==
    /\ Looping /\ \A i \in 1..(inQueue - 1) : ~Compatible(i)
    /\ \E q \in {PushFront(PopFront(Ring), Waiting(0))} : Becomes(PushBack(PopFront(q), Waiting(0)))
    /\ line' = Append(Tail(line), Head(line))
    /\ UNCHANGED matchVars

(* Matchmake finds nobody and puts the front player back, and MatchAll sends
   it to the back.                                                          *)
SkipFront ==
    /\ Looping /\ \A i \in 1..(inQueue - 1) : ~Compatible(i)
    /\ \E q \in {PushFront(PopFront(Ring), Waiting(0))} : Becomes(PushBack(PopFront(q), Waiting(0)))
    /\ line' = Append(Tail(line), Head(line))
    /\ failures' = failures + 1
    /\ UNCHANGED <<matches, arrived>>

(* MatchAll returns the matches and the line. *)
MatchReturn ==
    /\ failures # None /\ ~Looping
    /\ matches' = <<>> /\ failures' = None /\ arrived' = <<>>
    /\ UNCHANGED <<ring, head, tail, inQueue, line>>

MatchStep == MatchFront \/ SkipFront \/ MatchReturn

RingNext == \/ \E p \in Players : Push(p) \/ RemoveFunc(p)
            \/ Pop \/ MatchAll
            \/ MatchStep

RingSpec == RingInit /\ [][RingNext]_queueVars

-----------------------------------------------------------------------------
(* Wherever head and tail have wrapped to, the buffer holds the queue in    *)
(* its order, tail is where the next one goes, and no slot outside of the   *)
(* queue still holds on to a player (queue.go:43-177).                     *)
RingHoldsTheLine ==
    /\ Contents(Ring) = line
    /\ Len(ring) > 0 => tail = (head + inQueue) % Len(ring)
    /\ \A i \in 1..Len(ring) : ring[i] # None => \E j \in 0..(inQueue - 1) : i = Behind(Ring, j)

(* The players in the order in which MatchAll has placed them: two for      *)
(* every match, and then the ones it has left.                             *)
Placed ==
    [i \in 1..(2 * Len(matches) + Len(line)) |->
        IF i <= 2 * Len(matches) THEN matches[(i + 1) \div 2][2 - (i % 2)]
        ELSE line[i - 2 * Len(matches)]]

SameRank(p, q) == RankOf[p] = RankOf[q]
CameFirst(p, q) == \E i, j \in 1..Len(arrived) : i < j /\ arrived[i] = p /\ arrived[j] = q

(* Nobody is lost, invented or placed twice. *)
EveryonePlaced == Len(Placed) = Len(arrived) /\ ToSet(Placed) = ToSet(arrived)

(* Within a tier, who came first is placed first. *)
PlacedAsTheyCame ==
    \A i, j \in DOMAIN Placed :
        i < j /\ SameRank(Placed[i], Placed[j]) => CameFirst(Placed[i], Placed[j])

(* MatchAll pairs each player with one of its own tier, and no two players  *)
(* of a tier are left waiting; nobody is lost or invented, and within a     *)
(* tier the ones who came first are matched (matchmake.go:70-136).         *)
MatchedInOrder ==
    [][MatchReturn =>
        /\ EveryonePlaced /\ PlacedAsTheyCame
        /\ \A i \in 1..Len(matches) : SameRank(matches[i][1], matches[i][2])
        /\ \A i, j \in 1..Len(line) : SameRank(line[i], line[j]) => i = j]_queueVars
=============================================================================
