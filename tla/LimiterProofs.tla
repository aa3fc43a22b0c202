--------------------------- MODULE LimiterProofs ----------------------------
(***************************************************************************)
(* What the sliding window limiter guarantees for every limit, window,     *)
(* delay and clock skew, and what register and login get from two of them. *)
(* A set of admitted calls is bounded by the limit because, whenever a     *)
(* script runs, Redis still holds every admitted call recent enough to     *)
(* share a window with it; where a right password clears the bucket, each  *)
(* clearing accounts for at most one more limit.                           *)
(***************************************************************************)
EXTENDS SlidingWindow, CredentialGate, FiniteSetTheorems, WellFoundedInduction, TLAPS

-----------------------------------------------------------------------------
(* The limiter. *)

(* The inductive invariant, by parts. *)

(* Sets that grow by one element at a time are finite, and Redis holds     *)
(* only what was admitted.                                                 *)
Held ==
    \A k \in Keys : IsFiniteSet(admitted[k]) /\ bucket[k] \subseteq admitted[k]

(* A call whose script has not run carries a clock at most MaxDelay and    *)
(* the skew behind Redis's, and at most the skew ahead of it.              *)
CallsTimely ==
    \A c \in calls :
        now <= c.by /\ c.by <= c.at + MaxDelay + SkewBehind /\ c.at <= now + SkewAhead

(* Nothing recent has been trimmed or has expired. *)
RecentKept ==
    \A k \in Keys : \A a \in admitted[k] : a.at > now + SkewAhead - Window => a \in bucket[k]

(* A key outlives every entry's window, as far as the skew allows. *)
ExpiryCovers ==
    \A k \in Keys : \A a \in bucket[k] : a.at <= until[k] - KeepFor + SkewAhead

WindowInv ==
    /\ TypeOK /\ Held /\ CallsTimely /\ RecentKept /\ ExpiryCovers
    /\ IdleKeyExpires /\ BucketAtMostLimit /\ WindowBound

-----------------------------------------------------------------------------
(* Every step leaves the variables in their types (Arrive, the script, DEL *)
(* and expiry).                                                            *)
LEMMA TypeStep == TypeOK /\ [Next]_vars => TypeOK'
<1> SUFFICES ASSUME TypeOK, [Next]_vars PROVE TypeOK'
  OBVIOUS
<1> USE ConstantsAssumption DEF TypeOK
<1>1. ASSUME NEW k \in Keys, NEW skew \in -SkewBehind..SkewAhead, Arrive(k, skew)
      PROVE  TypeOK'
  <2>1. sent' \in 1..MaxCalls /\ now + skew \in Int /\ now + MaxDelay \in Nat
    BY <1>1 DEF Arrive
  <2>2. [key |-> k, n |-> sent', at |-> now + skew, by |-> now + MaxDelay] \in Call
    BY <2>1 DEF Call
  <2> QED BY <1>1, <2>1, <2>2 DEF Arrive
<1>2. ASSUME NEW c \in calls, Run(c)
      PROVE  TypeOK'
  <2>1. c \in Call
    OBVIOUS
  <2>2. Member(c) \in Entry /\ c.key \in Keys
    BY <2>1 DEF Member, Call, Entry
  <2>3. Kept(c.key, c.at) \in SUBSET Entry
    BY <2>2 DEF Kept
  <2>4. now + KeepFor \in Nat
    BY DEF KeepFor
  <2> QED BY <1>2, <2>2, <2>3, <2>4 DEF Run
<1>3. ASSUME NEW c \in calls, Lost(c)
      PROVE  TypeOK'
  BY <1>3 DEF Lost
<1>4. ASSUME NEW k \in Keys, Reset(k)
      PROVE  TypeOK'
  BY <1>4 DEF Reset
<1>5. CASE Tick
  BY <1>5 DEF Tick
<1>6. CASE UNCHANGED vars
  BY <1>6 DEF vars
<1> QED BY <1>1, <1>2, <1>3, <1>4, <1>5, <1>6 DEF Next

(* The limiter's state stays well typed. *)
THEOREM LimiterTyped == Spec => []TypeOK
<1>1. Init => TypeOK
  BY ConstantsAssumption DEF Init, TypeOK
<1> QED BY <1>1, TypeStep, PTL DEF Spec

-----------------------------------------------------------------------------
(* What the script does to one bucket. *)

(* A bucket that holds only admitted entries is finite, and so is what a   *)
(* script keeps of it.                                                     *)
LEMMA KeptFinite ==
    ASSUME Held, NEW k \in Keys, NEW t
    PROVE  /\ IsFiniteSet(admitted[k]) /\ IsFiniteSet(bucket[k]) /\ IsFiniteSet(Kept(k, t))
           /\ Cardinality(Kept(k, t)) \in Nat
           /\ Cardinality(Kept(k, t)) <= Cardinality(bucket[k])
<1>1. IsFiniteSet(admitted[k]) /\ bucket[k] \in SUBSET admitted[k]
  BY DEF Held
<1>2. IsFiniteSet(bucket[k])
  BY <1>1, FS_Subset
<1>3. Kept(k, t) \in SUBSET bucket[k]
  BY DEF Kept
<1> QED BY <1>1, <1>2, <1>3, FS_Subset, FS_CardinalityType

(* ZADD adds at most one element. *)
LEMMA OneMore ==
    ASSUME NEW S, IsFiniteSet(S), NEW x
    PROVE  /\ IsFiniteSet(S \cup {x}) /\ Cardinality(S \cup {x}) \in Nat
           /\ Cardinality(S \cup {x}) <= Cardinality(S) + 1
<1>1. Cardinality(S) \in Nat
  BY FS_CardinalityType
<1>2. IsFiniteSet(S \cup {x})
      /\ Cardinality(S \cup {x}) = IF x \in S THEN Cardinality(S) ELSE Cardinality(S) + 1
  BY FS_AddElement
<1> QED BY <1>1, <1>2

(* The script never leaves more than Limit entries in the bucket it ran on. *)
LEMMA ScriptBound ==
    ASSUME TypeOK, Held, BucketAtMostLimit, NEW c \in calls, Run(c)
    PROVE  Cardinality(bucket'[c.key]) <= Limit
<1> DEFINE K == Kept(c.key, c.at)
<1>1. c.key \in Keys /\ bucket' = [bucket EXCEPT ![c.key] = bucket'[c.key]]
  BY DEF Run, TypeOK, Call
<1>2. IsFiniteSet(K) /\ Cardinality(K) \in Nat /\ Cardinality(K) <= Cardinality(bucket[c.key])
  BY <1>1, KeptFinite
<1>3. CASE Admits(c.key, c.at)
  <2>1. bucket'[c.key] = K \cup {Member(c)}
    BY <1>1, <1>3 DEF Run, TypeOK
  <2>2. Cardinality(K) < Limit
    BY <1>3 DEF Admits
  <2>3. Cardinality(K \cup {Member(c)}) <= Cardinality(K) + 1
    BY <1>2, OneMore
  <2>4. IsFiniteSet(K \cup {Member(c)}) /\ Cardinality(K \cup {Member(c)}) \in Nat
    BY <1>2, OneMore
  <2> HIDE DEF K
  <2> QED BY <1>2, <2>1, <2>2, <2>3, <2>4, ConstantsAssumption
<1>4. CASE ~Admits(c.key, c.at)
  <2>1. bucket'[c.key] = K
    BY <1>1, <1>4 DEF Run, TypeOK
  <2>2. Cardinality(bucket[c.key]) <= Limit /\ Cardinality(bucket[c.key]) \in Nat
    BY <1>1, KeptFinite, FS_CardinalityType DEF BucketAtMostLimit
  <2> QED BY <1>2, <2>1, <2>2, ConstantsAssumption
<1> QED BY <1>3, <1>4

(* The parts that only look at one entry at a time. *)
LEMMA EntriesStep ==
    TypeOK /\ Held /\ CallsTimely /\ RecentKept /\ ExpiryCovers /\ IdleKeyExpires
    /\ [Next]_vars
    => Held' /\ CallsTimely' /\ RecentKept' /\ ExpiryCovers' /\ IdleKeyExpires'
<1> SUFFICES ASSUME TypeOK, Held, CallsTimely, RecentKept, ExpiryCovers, IdleKeyExpires,
                    [Next]_vars
             PROVE  Held' /\ CallsTimely' /\ RecentKept' /\ ExpiryCovers' /\ IdleKeyExpires'
  OBVIOUS
<1> USE ConstantsAssumption
<1> DEFINE Goal == Held' /\ CallsTimely' /\ RecentKept' /\ ExpiryCovers' /\ IdleKeyExpires'
<1>1. ASSUME NEW k \in Keys, NEW skew \in -SkewBehind..SkewAhead, Arrive(k, skew)
      PROVE  Goal
  <2>1. UNCHANGED <<now, bucket, until, admitted>>
    BY <1>1 DEF Arrive
  <2>2. CallsTimely'
    BY <1>1, <2>1 DEF CallsTimely, Arrive, TypeOK, Call
  <2> QED BY <2>1, <2>2 DEF Held, RecentKept, ExpiryCovers, IdleKeyExpires
<1>2. ASSUME NEW c \in calls, Run(c)
      PROVE  Goal
  <2> DEFINE k == c.key
             m == Member(c)
             K == Kept(c.key, c.at)
  <2>1. /\ c \in Call /\ k \in Keys /\ c.at \in Int /\ now \in Nat /\ m.at = c.at
        /\ m \in Entry
    BY DEF TypeOK, Call, Member, Entry
  <2>2. c.at <= now + SkewAhead /\ now' = now /\ calls' = calls \ {c}
    BY <1>2 DEF CallsTimely, Run
  <2>3. \A j \in Keys \ {k} : bucket'[j] = bucket[j] /\ until'[j] = until[j]
                               /\ admitted'[j] = admitted[j]
    BY <1>2, <2>1 DEF Run, TypeOK
  <2>4. \/ /\ bucket'[k] = K \cup {m} /\ admitted'[k] = admitted[k] \cup {m}
           /\ until'[k] = now + KeepFor
        \/ bucket'[k] = K /\ admitted'[k] = admitted[k] /\ until'[k] = until[k]
    BY <1>2, <2>1 DEF Run, TypeOK
  <2>5. K \subseteq bucket[k] /\ \A e \in bucket[k] : e.at > c.at - Window => e \in K
    BY DEF Kept
  <2>6. Held'
    <3>1. IsFiniteSet(admitted[k] \cup {m}) /\ IsFiniteSet(admitted[k])
      BY <2>1, FS_AddElement DEF Held
    <3> HIDE DEF m, K
    <3>2. IsFiniteSet(admitted'[k]) /\ bucket'[k] \subseteq admitted'[k]
      BY <2>1, <2>4, <2>5, <3>1 DEF Held
    <3> QED BY <2>1, <2>3, <3>2 DEF Held
  <2>7. CallsTimely'
    BY <2>2 DEF CallsTimely
  <2>8. \A a \in admitted[k] : a.at \in Int
    BY <2>1 DEF TypeOK, Entry
  <2>9. RecentKept'
    <3>1. ASSUME NEW a \in admitted'[k], a.at > now + SkewAhead - Window
          PROVE  a \in bucket'[k]
      <4>1. CASE a \in admitted[k]
        <5>1. a \in bucket[k]
          BY <2>1, <3>1, <4>1 DEF RecentKept
        <5>2. a.at > c.at - Window
          BY <2>1, <2>2, <2>8, <3>1, <4>1
        <5> QED BY <2>4, <2>5, <5>1, <5>2
      <4>2. CASE a \notin admitted[k]
        BY <2>4, <3>1, <4>2
      <4> QED BY <4>1, <4>2
    <3> QED BY <2>1, <2>2, <2>3, <3>1 DEF RecentKept
  <2>10. ExpiryCovers'
    <3>1. ASSUME NEW a \in bucket'[k]
          PROVE  a.at <= until'[k] - KeepFor + SkewAhead
      <4>1. until[k] \in Nat /\ until'[k] \in Nat
        BY <2>1, <2>4 DEF TypeOK, KeepFor
      <4>2. CASE a \in bucket[k]
        <5>1. a.at <= until[k] - KeepFor + SkewAhead /\ until[k] <= now + KeepFor
          BY <2>1, <4>2 DEF ExpiryCovers, IdleKeyExpires
        <5>2. a.at \in Int
          BY <2>1, <4>2 DEF TypeOK, Entry
        <5> QED BY <2>1, <2>4, <4>1, <5>1, <5>2 DEF KeepFor
      <4>3. CASE a \notin bucket[k]
        <5>1. a = m /\ until'[k] = now + KeepFor
          BY <2>4, <2>5, <3>1, <4>3
        <5> QED BY <2>1, <2>2, <5>1 DEF KeepFor
      <4> QED BY <4>2, <4>3
    <3> QED BY <2>1, <2>3, <3>1 DEF ExpiryCovers
  <2>11. IdleKeyExpires'
    <3>1. bucket'[k] # {} => now < until'[k] /\ until'[k] <= now + KeepFor
      <4>1. CASE until'[k] = now + KeepFor
        BY <2>1, <4>1 DEF KeepFor
      <4>2. CASE bucket'[k] = K /\ until'[k] = until[k]
        BY <2>1, <2>5, <4>2 DEF IdleKeyExpires
      <4> QED BY <2>4, <4>1, <4>2
    <3> QED BY <2>1, <2>2, <2>3, <3>1 DEF IdleKeyExpires
  <2> QED BY <2>6, <2>7, <2>9, <2>10, <2>11
<1>3. ASSUME NEW c \in calls, Lost(c)
      PROVE  Goal
  BY <1>3 DEF Lost, Held, CallsTimely, RecentKept, ExpiryCovers, IdleKeyExpires
<1>4. ASSUME NEW k \in Keys, Reset(k)
      PROVE  Goal
  <2>1. now' = now /\ calls' = calls /\ bucket'[k] = {} /\ admitted'[k] = {}
    BY <1>4 DEF Reset, TypeOK
  <2>2. \A j \in Keys \ {k} : bucket'[j] = bucket[j] /\ until'[j] = until[j]
                               /\ admitted'[j] = admitted[j]
    BY <1>4 DEF Reset, TypeOK
  <2>3. Held'
    BY <2>1, <2>2, FS_EmptySet DEF Held
  <2> QED BY <2>1, <2>2, <2>3 DEF CallsTimely, RecentKept, ExpiryCovers, IdleKeyExpires
<1>5. CASE Tick
  <2>1. /\ now \in Nat /\ now' = now + 1 /\ UNCHANGED <<calls, until, admitted>>
        /\ \A k \in Keys : until[k] \in Nat
        /\ \A k \in Keys : bucket'[k] = IF until[k] <= now' THEN {} ELSE bucket[k]
        /\ \A c \in calls : now < c.by /\ c.by \in Nat /\ c.at \in Int
        /\ \A k \in Keys : \A a \in admitted[k] : a.at \in Int
    BY <1>5 DEF Tick, TypeOK, Call, Entry
  <2>2. Held'
    BY <2>1 DEF Held
  <2>3. CallsTimely'
    BY <2>1 DEF CallsTimely
  <2>4. RecentKept'
    <3>1. ASSUME NEW k \in Keys, NEW a \in admitted[k], a.at > now' + SkewAhead - Window
          PROVE  a \in bucket'[k]
      <4>1. a.at \in Int /\ a \in bucket[k]
        BY <2>1, <3>1 DEF RecentKept
      <4>2. a.at <= until[k] - KeepFor + SkewAhead
        BY <4>1 DEF ExpiryCovers
      <4>3. ~(until[k] <= now')
        BY <2>1, <3>1, <4>1, <4>2 DEF KeepFor
      <4> QED BY <2>1, <4>1, <4>3
    <3> QED BY <2>1, <3>1 DEF RecentKept
  <2>5. ExpiryCovers' /\ IdleKeyExpires'
    BY <2>1 DEF ExpiryCovers, IdleKeyExpires, KeepFor
  <2> QED BY <2>2, <2>3, <2>4, <2>5
<1>6. CASE UNCHANGED vars
  BY <1>6 DEF vars, Held, CallsTimely, RecentKept, ExpiryCovers, IdleKeyExpires
<1> QED BY <1>1, <1>2, <1>3, <1>4, <1>5, <1>6 DEF Next

(* The bucket bound is kept: only the script adds entries. *)
LEMMA BucketStep ==
    TypeOK /\ Held /\ BucketAtMostLimit /\ [Next]_vars => BucketAtMostLimit'
<1> SUFFICES ASSUME TypeOK, Held, BucketAtMostLimit, [Next]_vars
             PROVE  BucketAtMostLimit'
  OBVIOUS
<1>1. Cardinality({}) <= Limit
  BY FS_EmptySet, ConstantsAssumption
<1>2. ASSUME NEW c \in calls, Run(c)
      PROVE  BucketAtMostLimit'
  <2>1. c.key \in Keys /\ \A j \in Keys \ {c.key} : bucket'[j] = bucket[j]
    BY <1>2 DEF Run, TypeOK, Call
  <2>2. Cardinality(bucket'[c.key]) <= Limit
    BY <1>2, ScriptBound
  <2> QED BY <2>1, <2>2 DEF BucketAtMostLimit
<1>3. ASSUME NEW k \in Keys, Reset(k)
      PROVE  BucketAtMostLimit'
  <2>1. bucket'[k] = {} /\ \A j \in Keys \ {k} : bucket'[j] = bucket[j]
    BY <1>3 DEF Reset, TypeOK
  <2> QED BY <1>1, <2>1 DEF BucketAtMostLimit
<1>4. CASE Tick
  <2>1. \A k \in Keys : bucket'[k] = {} \/ bucket'[k] = bucket[k]
    BY <1>4 DEF Tick
  <2> QED BY <1>1, <2>1 DEF BucketAtMostLimit
<1>5. CASE UNCHANGED bucket
  BY <1>5 DEF BucketAtMostLimit
<1> QED BY <1>2, <1>3, <1>4, <1>5 DEF Next, Arrive, Lost, vars

(* The admission of one call keeps every window under the limit: of the    *)
(* calls that share a window with it, Redis still holds all the others.    *)
LEMMA AdmissionBound ==
    ASSUME TypeOK, Held, CallsTimely, RecentKept, WindowBound,
           NEW c \in calls, Run(c), Admits(c.key, c.at),
           NEW b \in admitted'[c.key]
    PROVE  Cardinality({a \in admitted'[c.key] :
              b.at - (Window - MaxDelay - SkewBehind - SkewAhead) < a.at /\ a.at <= b.at}) <= Limit
<1> DEFINE k == c.key
           m == Member(c)
           K == Kept(c.key, c.at)
           L == Window - MaxDelay - SkewBehind - SkewAhead
           In(S) == {a \in S : b.at - L < a.at /\ a.at <= b.at}
<1> USE ConstantsAssumption
<1>1. /\ k \in Keys /\ m \in Entry /\ m.at = c.at /\ c.at \in Int /\ now \in Nat /\ L \in Int
      /\ c.by \in Nat
      /\ admitted'[k] = admitted[k] \cup {m} /\ admitted[k] \subseteq Entry
      /\ \A a \in admitted'[k] : a.at \in Int
  BY DEF Run, TypeOK, Call, Member, Entry
<1>2. IsFiniteSet(admitted[k]) /\ IsFiniteSet(K) /\ Cardinality(K) \in Nat
  BY <1>1, KeptFinite
<1>3. Cardinality(K) < Limit
  BY DEF Admits
<1>4. CASE m \in In(admitted'[k])
  <2>1. now - MaxDelay - SkewBehind <= c.at
    BY <1>1 DEF CallsTimely
  <2>2. ASSUME NEW a \in In(admitted[k])
        PROVE  a \in K
    <3>1. a.at \in Int /\ b.at \in Int /\ b.at - L < a.at /\ c.at <= b.at /\ a \in admitted[k]
      BY <1>1, <1>4, <2>2
    <3>2. a.at > now + SkewAhead - Window
      BY <1>1, <2>1, <3>1
    <3>3. a \in bucket[k]
      BY <1>1, <3>1, <3>2 DEF RecentKept
    <3>4. a.at > c.at - Window
      BY <1>1, <3>1
    <3> QED BY <3>3, <3>4 DEF Kept
  <2>3. In(admitted'[k]) \in SUBSET (K \cup {m})
    BY <1>1, <2>2
  <2>4. /\ IsFiniteSet(K \cup {m}) /\ Cardinality(K \cup {m}) \in Nat
        /\ Cardinality(K \cup {m}) <= Cardinality(K) + 1
    BY <1>2, OneMore
  <2>5. /\ Cardinality(In(admitted'[k])) <= Cardinality(K \cup {m})
        /\ IsFiniteSet(In(admitted'[k]))
    BY <2>3, <2>4, FS_Subset
  <2>6. Cardinality(In(admitted'[k])) \in Nat
    BY <2>5, FS_CardinalityType
  <2> HIDE DEF K, m, In
  <2>7. Cardinality(In(admitted'[c.key])) <= Limit
    BY <1>2, <1>3, <2>4, <2>5, <2>6
  <2> QED BY <2>7 DEF In
<1>5. CASE m \notin In(admitted'[k])
  <2>1. In(admitted'[k]) = In(admitted[k])
    BY <1>1, <1>5
  <2>2. CASE b \in admitted[k]
    <3>1. Cardinality(AdmittedIn(k, b.at, L)) <= Limit
      BY <1>1, <2>2 DEF WindowBound
    <3> QED BY <2>1, <3>1 DEF AdmittedIn
  <2>3. CASE b \notin admitted[k]
    <3>1. b = m /\ b \in admitted'[k]
      BY <1>1, <2>3
    <3>2. ~(b.at - L < m.at /\ m.at <= b.at)
      BY <1>5, <3>1
    <3>3. L <= 0
      BY <1>1, <3>1, <3>2
    <3>4. In(admitted'[k]) = {}
      BY <1>1, <3>3
    <3> QED BY <3>4, FS_EmptySet
  <2> QED BY <2>2, <2>3
<1> QED BY <1>4, <1>5

(* Every step keeps every window under the limit. *)
LEMMA WindowStep ==
    TypeOK /\ Held /\ CallsTimely /\ RecentKept /\ WindowBound /\ [Next]_vars => WindowBound'
<1> SUFFICES ASSUME TypeOK, Held, CallsTimely, RecentKept, WindowBound, [Next]_vars
             PROVE  WindowBound'
  OBVIOUS
<1>1. ASSUME NEW c \in calls, Run(c)
      PROVE  WindowBound'
  <2>1. c.key \in Keys /\ \A j \in Keys \ {c.key} : admitted'[j] = admitted[j]
    BY <1>1 DEF Run, TypeOK, Call
  <2>2. CASE Admits(c.key, c.at)
    <3>1. \A b \in admitted'[c.key] :
            Cardinality({a \in admitted'[c.key] :
               b.at - (Window - MaxDelay - SkewBehind - SkewAhead) < a.at /\ a.at <= b.at}) <= Limit
      BY <1>1, <2>2, AdmissionBound
    <3> QED BY <2>1, <3>1 DEF WindowBound, AdmittedIn
  <2>3. CASE ~Admits(c.key, c.at)
    BY <1>1, <2>3 DEF Run, WindowBound, AdmittedIn
  <2> QED BY <2>2, <2>3
<1>2. ASSUME NEW k \in Keys, Reset(k)
      PROVE  WindowBound'
  <2>1. admitted'[k] = {} /\ \A j \in Keys \ {k} : admitted'[j] = admitted[j]
    BY <1>2 DEF Reset, TypeOK
  <2> QED BY <2>1 DEF WindowBound, AdmittedIn
<1>3. CASE UNCHANGED admitted
  BY <1>3 DEF WindowBound, AdmittedIn
<1> QED BY <1>1, <1>2, <1>3 DEF Next, Arrive, Lost, Tick, vars

-----------------------------------------------------------------------------
(* When a slot frees up. *)

(* Entries that are all younger than some instant have an oldest one. *)
LEMMA OldestExists ==
    ASSUME NEW K \in SUBSET Entry, K # {}, NEW b \in Int, \A e \in K : e.at > b
    PROVE  \E e \in K : \A f \in K : e.at <= f.at
<1> DEFINE Ages == {e.at - b : e \in K}
<1>1. Ages \subseteq Nat /\ Ages # {}
  BY DEF Entry
<1> DEFINE Less == {p \in Nat \X Nat : p[1] < p[2]}
<1>2. IsWellFoundedOn(Less, Nat)
  BY NatLessThanWellFounded DEF OpToRel
<1>3. PICK m \in Ages : \A y \in Ages : ~(<<y, m>> \in Less)
  BY <1>1, <1>2, WFMin
<1>4. \A y \in Ages : m <= y
  <2> TAKE y \in Ages
  <2>1. m \in Nat /\ y \in Nat
    BY <1>1
  <2>2. y < m => <<y, m>> \in Less
    BY <2>1
  <2> QED BY <1>3, <2>1, <2>2
<1>5. PICK e \in K : m = e.at - b
  OBVIOUS
<1>6. \A f \in K : e.at <= f.at
  <2> TAKE f \in K
  <2>1. f.at - b \in Ages /\ e.at \in Int /\ f.at \in Int
    BY DEF Entry
  <2> HIDE DEF Ages
  <2>2. m <= f.at - b
    BY <1>4, <2>1
  <2> QED BY <1>5, <2>1, <2>2
<1> QED BY <1>6

(* A refused caller finds a slot after ResetIn, because the oldest entry   *)
(* has left by then, and none before, because none has.                    *)
LEMMA ResetStep ==
    ASSUME TypeOK, Held, BucketAtMostLimit, NEW c \in calls, ~Admits(c.key, c.at)
    PROVE  /\ ResetIn(c.key, c.at) \in Nat
           /\ Admits(c.key, c.at + ResetIn(c.key, c.at))
           /\ \A r \in 0..(ResetIn(c.key, c.at) - 1) : ~Admits(c.key, c.at + r)
<1> DEFINE k == c.key
           K == Kept(k, c.at)
           Oldest(e) == \A f \in K : e.at <= f.at
           oldest == CHOOSE e \in K : Oldest(e)
           R == ResetIn(k, c.at)
<1>1. k \in Keys /\ c.at \in Int /\ Limit \in Nat \ {0} /\ Window \in Nat
  BY ConstantsAssumption DEF TypeOK, Call
<1>2. IsFiniteSet(bucket[k]) /\ IsFiniteSet(K)
      /\ Cardinality(K) \in Nat /\ Cardinality(bucket[k]) \in Nat
  BY <1>1, KeptFinite, FS_CardinalityType
<1>3. Cardinality(K) >= Limit /\ Cardinality(bucket[k]) <= Limit
  BY <1>1, <1>2 DEF Admits, BucketAtMostLimit
<1>4. bucket[k] \in SUBSET Entry /\ K \in SUBSET bucket[k] /\ K \in SUBSET Entry
  BY <1>1 DEF TypeOK, Kept
<1>5. K # {}
  BY <1>1, <1>3, FS_EmptySet
<1>6. c.at - Window \in Int /\ \A e \in K : e.at > c.at - Window
  BY <1>1 DEF Kept
<1>7. oldest \in K /\ Oldest(oldest)
  <2>1. \E e \in K : Oldest(e)
    BY <1>4, <1>5, <1>6, OldestExists
  <2> QED BY <2>1
<1>8. oldest \in bucket[k] /\ oldest.at \in Int /\ oldest.at > c.at - Window
  BY <1>4, <1>6, <1>7 DEF Entry
<1>9. R = oldest.at + Window - c.at
  <2>1. R = IF oldest.at + Window - c.at < 0 THEN 0 ELSE oldest.at + Window - c.at
    BY DEF ResetIn
  <2> HIDE DEF R, oldest
  <2> QED BY <1>1, <1>8, <2>1
<1> HIDE DEF R, oldest
<1>10. Admits(k, c.at + R)
  <2> DEFINE L == Kept(k, c.at + R)
  <2>1. L \in SUBSET bucket[k] /\ oldest \notin L
    BY <1>1, <1>8, <1>9 DEF Kept
  <2>2. Cardinality(L) <= Cardinality(bucket[k]) /\ Cardinality(L) # Cardinality(bucket[k])
        /\ Cardinality(L) \in Nat
    BY <1>2, <1>8, <2>1, FS_Subset, FS_CardinalityType
  <2> HIDE DEF L
  <2>3. Cardinality(L) < Limit
    BY <1>1, <1>2, <1>3, <2>2
  <2> QED BY <2>3 DEF Admits, L
<1>11. ASSUME NEW r \in 0..(R - 1)
       PROVE  ~Admits(k, c.at + r)
  <2> DEFINE L == Kept(k, c.at + r)
  <2>1. r \in Int /\ r < R
    BY <1>1, <1>8, <1>9
  <2>2. \A e \in K : e.at > (c.at + r) - Window
    BY <1>1, <1>4, <1>7, <1>8, <1>9, <2>1 DEF Entry
  <2>3. L = {e \in bucket[k] : e.at > (c.at + r) - Window}
    BY DEF Kept
  <2> HIDE DEF L, K
  <2>4. K \in SUBSET L /\ L \in SUBSET bucket[k]
    BY <1>4, <2>2, <2>3
  <2>5. IsFiniteSet(L) /\ Cardinality(L) \in Nat /\ Cardinality(K) <= Cardinality(L)
    BY <1>2, <2>4, FS_Subset, FS_CardinalityType
  <2>6. ~(Cardinality(L) < Limit)
    BY <1>1, <1>2, <1>3, <2>5
  <2> QED BY <2>6 DEF Admits, L
<1>12. R \in Nat
  BY <1>1, <1>8, <1>9
<1> QED BY <1>10, <1>11, <1>12 DEF R

(* Waiting longer does not lose a slot: a later clock keeps fewer entries. *)
LEMMA AdmitsLater ==
    ASSUME TypeOK, Held, NEW k \in Keys, NEW s \in Int, NEW t \in Int, s <= t, Admits(k, s)
    PROVE  Admits(k, t)
<1>1. Window \in Nat /\ Limit \in Nat
  BY ConstantsAssumption
<1>2. \A e \in bucket[k] : e.at \in Int
  BY DEF TypeOK, Entry
<1>3. Kept(k, t) \in SUBSET Kept(k, s)
  BY <1>1, <1>2 DEF Kept
<1>4. /\ Cardinality(Kept(k, t)) <= Cardinality(Kept(k, s))
      /\ Cardinality(Kept(k, t)) \in Nat /\ Cardinality(Kept(k, s)) \in Nat
  BY <1>3, KeptFinite, FS_Subset
<1> QED BY <1>1, <1>4 DEF Admits

(* Truncation after rounding up: n whole seconds and what RoundUp lacks of *)
(* a second are at least R, and n - 1 seconds are less than R.             *)
LEMMA WholeSeconds ==
    ASSUME NEW R \in Nat, NEW S \in Nat \ {0}, NEW U \in 0..(S - 1)
    PROVE  LET n == (R + U) \div S IN
           n \in Nat /\ R <= n * S + (S - 1 - U) /\ (n > 0 => (n - 1) * S < R)
<1> DEFINE n == (R + U) \div S
<1>1. R + U \in Nat /\ n \in Nat
  OBVIOUS
<1>2. R + U = S * n + ((R + U) % S) /\ (R + U) % S \in 0..(S - 1)
  BY <1>1
<1> DEFINE rest == (R + U) % S
           most == S * n
<1>3. most = n * S /\ (n - 1) * S = most - S /\ most \in Int
  BY <1>1
<1> HIDE DEF n, rest, most
<1>4. R <= most + (S - 1 - U) /\ most - S < R
  BY <1>2, <1>3 DEF n, rest, most
<1> QED BY <1>1, <1>3, <1>4 DEF n

(* The whole seconds of Retry-After against the exact wait. *)
LEMMA RetryStep == TypeOK /\ Held /\ BucketAtMostLimit => RetryAfterClose
<1> SUFFICES ASSUME TypeOK, Held, BucketAtMostLimit, NEW c \in calls, ~Admits(c.key, c.at)
             PROVE  LET n == RetryAfter(c.key, c.at) IN
                    /\ Admits(c.key, c.at + n * Second + (Second - 1 - RoundUp))
                    /\ n > 1 => ~Admits(c.key, c.at + (n - 1) * Second)
  BY DEF RetryAfterClose
<1> DEFINE k == c.key
           R == ResetIn(k, c.at)
           w == (R + RoundUp) \div Second
           n == RetryAfter(k, c.at)
           spare == Second - 1 - RoundUp
<1>1. k \in Keys /\ c.at \in Int
  BY DEF TypeOK, Call
<1>2. Admits(k, c.at + R) /\ \A r \in 0..(R - 1) : ~Admits(k, c.at + r)
  BY ResetStep
<1>3. R \in Nat
  BY ResetStep
<1>4. Second \in Nat \ {0} /\ RoundUp \in 0..(Second - 1) /\ spare \in Nat
  BY ConstantsAssumption
<1>5. w \in Nat /\ R <= w * Second + spare /\ (w > 0 => (w - 1) * Second < R)
  BY <1>3, <1>4, WholeSeconds
<1>6. n = IF w < 1 THEN 1 ELSE w
  BY DEF RetryAfter
<1> HIDE DEF k, R, w, n, spare
<1>7. n \in Nat \ {0} /\ w * Second \in Nat /\ n * Second \in Nat /\ w * Second <= n * Second
  BY <1>4, <1>5, <1>6
<1>8. Admits(k, c.at + n * Second + spare)
  <2>1. c.at + R <= c.at + n * Second + spare /\ c.at + n * Second + spare \in Int /\ c.at + R \in Int
    BY <1>1, <1>3, <1>4, <1>5, <1>7
  <2> QED BY <1>1, <1>2, <2>1, AdmitsLater
<1>9. ASSUME n > 1
      PROVE  ~Admits(k, c.at + (n - 1) * Second)
  <2>1. n = w /\ w > 0 /\ (n - 1) * Second \in Nat
    BY <1>4, <1>5, <1>6, <1>7, <1>9
  <2>2. (n - 1) * Second \in 0..(R - 1)
    BY <1>3, <1>5, <2>1
  <2> QED BY <1>2, <2>2
<1> QED BY <1>8, <1>9 DEF k, n, spare

-----------------------------------------------------------------------------
(* The results. *)

(* The inductive invariant holds in every reachable state. *)
THEOREM WindowInvariant == Spec => []WindowInv
<1>1. Init => WindowInv
  BY ConstantsAssumption, FS_EmptySet
  DEF Init, WindowInv, TypeOK, Held, CallsTimely, RecentKept, ExpiryCovers, IdleKeyExpires,
      BucketAtMostLimit, WindowBound
<1>2. WindowInv /\ [Next]_vars => WindowInv'
  BY TypeStep, EntriesStep, BucketStep, WindowStep DEF WindowInv
<1> QED BY <1>1, <1>2, PTL DEF Spec

(* The limit holds over every window, shortened by the delay and the skew, *)
(* whatever order the scripts of concurrent calls run in.                  *)
THEOREM LimitHoldsOverEveryWindow == Spec => []WindowBound
BY WindowInvariant, PTL DEF WindowInv

(* A key never holds more than Limit members. *)
THEOREM MemoryBounded == Spec => []BucketAtMostLimit
BY WindowInvariant, PTL DEF WindowInv

(* A key that holds entries expires within the window and Slack. *)
THEOREM IdleKeysExpire == Spec => []IdleKeyExpires
BY WindowInvariant, PTL DEF WindowInv

(* ResetIn, the duration a refusal carries, is exactly how long to wait. *)
THEOREM ResetInIsExact == Spec => []ResetInExact
<1>1. WindowInv => ResetInExact
  BY ResetStep DEF WindowInv, ResetInExact
<1> QED BY <1>1, WindowInvariant, PTL

(* The whole seconds that the client is told are too few by less than a    *)
(* millisecond, and too many by less than a second.                        *)
THEOREM RetryAfterIsClose == Spec => []RetryAfterClose
<1>1. WindowInv => RetryAfterClose
  BY RetryStep DEF WindowInv
<1> QED BY <1>1, WindowInvariant, PTL

(* The limiter's promise as a whole, for every limit, window and skew, and *)
(* for every length of a second and rounding of the header.                *)
THEOREM LimiterKeepsPromise == Spec => []LimitHolds
<1>1. WindowInv /\ ResetInExact /\ RetryAfterClose => LimitHolds
  BY DEF WindowInv, LimitHolds
<1> QED BY <1>1, WindowInvariant, ResetInIsExact, RetryAfterIsClose, PTL

(* The limit is exact over every window when a script runs at the instant  *)
(* its caller reads and all clocks agree.                                  *)
THEOREM ExactWhenPunctual ==
    ASSUME MaxDelay = 0, SkewBehind = 0, SkewAhead = 0
    PROVE  Spec => []ExactWindow
<1>1. Window - MaxDelay - SkewBehind - SkewAhead = Window
  BY ConstantsAssumption
<1>2. WindowBound => ExactWindow
  BY <1>1 DEF WindowBound, ExactWindow
<1> QED BY <1>2, LimitHoldsOverEveryWindow, PTL

-----------------------------------------------------------------------------
(* The gate before register and login. *)

(* The requests behind the first limiter and behind the second, and what   *)
(* the second limiter has let through without remembering it any more.     *)
PastLimit(r)    == at[r] \in {"work", "clear"} \/ outcome[r] # "none"
PastGate(r)     == at[r] = "entered" \/ PastLimit(r)
EnteredIn(t)    == {r \in Requests : PastGate(r) /\ Within(entered[r], t, GateWindow)}
AllowedIn(k, t) == {r \in Requests : PastLimit(r) /\ Account(r) = k /\ Within(allowed[r], t, GuessWindow)}
ClearsIn(k, t)  == {r \in Requests : outcome[r] = "right" /\ Account(r) = k /\ Within(cleared[r], t, GuessWindow)}
Forgotten(k, t) == {r \in AllowedIn(k, t) : [n |-> r, at |-> allowed[r]] \notin guesses[k]}

(* How far each request has come. *)
AtGate ==
    \A r \in Requests :
        /\ at[r] = "new" => ask[r] = NoAsk /\ entered[r] = Never
        /\ at[r] # "new" => ask[r] \in Asks /\ entered[r] \in 0..clock
        /\ at[r] \in {"new", "entered"} => allowed[r] = Never
        /\ allowed[r] = Never \/ allowed[r] \in 0..clock
        /\ PastLimit(r) => allowed[r] \in 0..clock
        /\ at[r] # "done" => cleared[r] = Never /\ said[r] = 0
        /\ at[r] \in {"new", "entered", "work"} => outcome[r] = "none"
        /\ at[r] = "clear" => outcome[r] = "right"

(* The buckets hold requests, at the time each was asked about. *)
BucketsTrue ==
    /\ \A e \in gate[CredentialsKey] : at[e.n] # "new" /\ e.at = entered[e.n]
    /\ \A k \in Accounts : \A e \in guesses[k] :
           at[e.n] \notin {"new", "entered"} /\ e.at = allowed[e.n] /\ Account(e.n) = k

BucketsSmall ==
    /\ IsFiniteSet(gate[CredentialsKey]) /\ Cardinality(gate[CredentialsKey]) <= GateLimit
    /\ \A k \in Accounts : IsFiniteSet(guesses[k]) /\ Cardinality(guesses[k]) <= GuessLimit

(* The endpoint's bucket remembers what is recent, and so no window has    *)
(* had more than its limit.                                                *)
GateRemembers ==
    \A r \in Requests : PastGate(r) /\ entered[r] > clock - GateWindow =>
        [n |-> r, at |-> entered[r]] \in gate[CredentialsKey]

GateBound == \A t \in Nat : Cardinality(EnteredIn(t)) <= GateLimit

(* An account's bucket forgets what is recent only when it is cleared. *)
ClearsForget ==
    \A k \in Accounts : \A t \in Nat :
        t >= clock => Cardinality(Forgotten(k, t)) <= GuessLimit * Cardinality(ClearsIn(k, t))

GuessBound ==
    \A k \in Accounts : \A t \in Nat :
        Cardinality(AllowedIn(k, t)) <= GuessLimit * (1 + Cardinality(ClearsIn(k, t)))

OnceRegistered ==
    /\ Registered \subseteq users
    /\ \A r \in Requests : said[r] = 201 => Account(r) \in users
    /\ RegisteredOnce

(* The cause of a refusal, once there, stays. *)
GateSpent(r)    == {q \in Requests \ {r} : Within(entered[q], entered[r], GateWindow)}
AccountSpent(r) == {q \in Requests \ {r} : /\ Within(allowed[q], allowed[r], GuessWindow)
                                           /\ ask[q] # NoAsk /\ Account(q) = Account(r)}
CausesLast ==
    \A r \in Requests : said[r] = 429 =>
        \/ Cardinality(GateSpent(r)) >= GateLimit
        \/ allowed[r] # Never /\ Cardinality(AccountSpent(r)) >= GuessLimit

GateInv ==
    /\ GateTypeOK /\ AtGate /\ BucketsTrue /\ BucketsSmall /\ GateRemembers /\ GateBound
    /\ ClearsForget /\ GuessBound /\ OnceRegistered /\ CausesLast

-----------------------------------------------------------------------------
(* Sets of requests are finite. *)
LEMMA RequestsFinite ==
    ASSUME NEW R \in SUBSET Requests
    PROVE  IsFiniteSet(R) /\ Cardinality(R) \in Nat
<1>1. IsFiniteSet(Requests)
  BY GateAssumption, FS_Interval DEF Requests
<1> QED BY <1>1, FS_Subset, FS_CardinalityType

(* Fewer requests are fewer. *)
LEMMA FewerRequests ==
    ASSUME NEW R \in SUBSET Requests, NEW S \in SUBSET R
    PROVE  Cardinality(S) <= Cardinality(R)
BY RequestsFinite, FS_Subset

(* The requests of two parts, counted part by part. *)
LEMMA TwoParts ==
    ASSUME NEW W \in SUBSET Requests, NEW S \in SUBSET Requests, NEW T \in SUBSET Requests,
           W = S \cup T, S \cap T = {}
    PROVE  Cardinality(W) = Cardinality(S) + Cardinality(T)
<1>1. IsFiniteSet(S) /\ IsFiniteSet(T) /\ Cardinality(S) \in Nat /\ Cardinality(T) \in Nat
  BY RequestsFinite
<1>2. Cardinality(S \cup T) = Cardinality(S) + Cardinality(T) - Cardinality(S \cap T) /\ Cardinality(S \cap T) = 0
  BY <1>1, FS_Union, FS_EmptySet
<1> QED BY <1>1, <1>2

(* Requests that are all in a bucket are no more than it holds. *)
LEMMA InBucket ==
    ASSUME NEW R \in SUBSET Requests, NEW f, NEW B, IsFiniteSet(B),
           \A r \in R : [n |-> r, at |-> f[r]] \in B
    PROVE  Cardinality(R) <= Cardinality(B)
<1> DEFINE g == [r \in R |-> [n |-> r, at |-> f[r]]]
<1>1. g \in Injection(R, B)
  <2>1. g \in [R -> B]
    OBVIOUS
  <2>2. \A a, b \in R : g[a] = g[b] => a = b
    OBVIOUS
  <2> QED BY <2>1, <2>2 DEF Injection, IsInjective
<1> QED BY <1>1, FS_Injection

(* And a bucket holds no more than the requests it names. *)
LEMMA OfBucket ==
    ASSUME NEW R \in SUBSET Requests, NEW f, NEW B \in SUBSET [n : Requests, at : Times],
           \A e \in B : e.n \in R /\ e.at = f[e.n]
    PROVE  Cardinality(B) <= Cardinality(R)
<1> DEFINE g == [e \in B |-> e.n]
<1>1. g \in Injection(B, R)
  <2>1. g \in [B -> R]
    OBVIOUS
  <2>2. \A a, b \in B : g[a] = g[b] => a = b
    <3> SUFFICES ASSUME NEW a \in B, NEW b \in B, a.n = b.n PROVE a = b
      OBVIOUS
    <3>1. a.at = b.at
      OBVIOUS
    <3> QED BY <3>1
  <2> QED BY <2>1, <2>2 DEF Injection, IsInjective
<1> QED BY <1>1, FS_Injection, RequestsFinite

(* Instants are ints, and Never is in no window. *)
LEMMA TimesFacts == Never \in Int /\ Never < 0 /\ (\A t \in Nat : ~Within(Never, t, GateWindow) /\ ~Within(Never, t, GuessWindow))
                    /\ (\A t \in 0..GateMaxTime : t \in Times) /\ \A t \in Times : t \in Int
BY GateAssumption DEF Never, Times, Within

(* The instances count as this module does. *)
LEMMA SameCount == \A S : Endpoint!Cardinality(S) = Cardinality(S) /\ PerAccount!Cardinality(S) = Cardinality(S)
<1>1. \A S : Endpoint!Cardinality(S) = Cardinality(S)
  BY DEF Endpoint!Cardinality, Cardinality
<1>2. \A S : PerAccount!Cardinality(S) = Cardinality(S)
  BY DEF PerAccount!Cardinality, Cardinality
<1> QED BY <1>1, <1>2

(* What a limiter keeps, and whether it admits one more. *)
LEMMA Buckets ==
    ASSUME GateTypeOK, BucketsSmall
    PROVE  /\ Endpoint!Kept(CredentialsKey, clock) = {e \in gate[CredentialsKey] : e.at > clock - GateWindow}
           /\ IsFiniteSet(Endpoint!Kept(CredentialsKey, clock))
           /\ Cardinality(Endpoint!Kept(CredentialsKey, clock)) \in Nat
           /\ Cardinality(Endpoint!Kept(CredentialsKey, clock)) <= GateLimit
           /\ Endpoint!Admits(CredentialsKey, clock) <=> Cardinality(Endpoint!Kept(CredentialsKey, clock)) < GateLimit
           /\ \A k \in Accounts :
                  /\ PerAccount!Kept(k, clock) = {e \in guesses[k] : e.at > clock - GuessWindow}
                  /\ IsFiniteSet(PerAccount!Kept(k, clock))
                  /\ Cardinality(PerAccount!Kept(k, clock)) \in Nat
                  /\ Cardinality(PerAccount!Kept(k, clock)) <= GuessLimit
                  /\ PerAccount!Admits(k, clock) <=> Cardinality(PerAccount!Kept(k, clock)) < GuessLimit
<1>1. /\ Endpoint!Kept(CredentialsKey, clock) = {e \in gate[CredentialsKey] : e.at > clock - GateWindow}
      /\ Endpoint!Admits(CredentialsKey, clock) <=> Cardinality(Endpoint!Kept(CredentialsKey, clock)) < GateLimit
  BY SameCount DEF Endpoint!Kept, Endpoint!Admits
<1>2. \A k \in Accounts :
          /\ PerAccount!Kept(k, clock) = {e \in guesses[k] : e.at > clock - GuessWindow}
          /\ PerAccount!Admits(k, clock) <=> Cardinality(PerAccount!Kept(k, clock)) < GuessLimit
  BY SameCount DEF PerAccount!Kept, PerAccount!Admits
<1>3. Endpoint!Kept(CredentialsKey, clock) \subseteq gate[CredentialsKey]
  BY <1>1
<1>4. \A k \in Accounts : PerAccount!Kept(k, clock) \subseteq guesses[k]
  BY <1>2
<1>5. /\ IsFiniteSet(Endpoint!Kept(CredentialsKey, clock))
      /\ Cardinality(Endpoint!Kept(CredentialsKey, clock)) \in Nat
      /\ Cardinality(Endpoint!Kept(CredentialsKey, clock)) <= GateLimit
  BY <1>3, FS_Subset, FS_CardinalityType, GateAssumption DEF BucketsSmall
<1>6. ASSUME NEW k \in Accounts
      PROVE  /\ IsFiniteSet(PerAccount!Kept(k, clock))
             /\ Cardinality(PerAccount!Kept(k, clock)) \in Nat
             /\ Cardinality(PerAccount!Kept(k, clock)) <= GuessLimit
  BY <1>4, FS_Subset, FS_CardinalityType, GateAssumption DEF BucketsSmall
<1> QED BY <1>1, <1>2, <1>5, <1>6
-----------------------------------------------------------------------------
(* rateLimited. *)

(* rateLimited. *)
LEMMA EnterKeeps == ASSUME GateInv, NEW r \in Requests, Enter(r) PROVE GateInv'
<1> USE DEF GateInv
<1> DEFINE kept == Endpoint!Kept(CredentialsKey, clock)
           me   == [n |-> r, at |-> clock]
<1>1. /\ at[r] = "new" /\ UNCHANGED <<clock, guesses, users, allowed, outcome, cleared>>
      /\ ask' \in [Requests -> Asks \cup {NoAsk}] /\ entered' \in [Requests -> Times]
      /\ at' \in [Requests -> {"new", "entered", "work", "clear", "done"}]
      /\ said' \in [Requests -> {0, 200, 201, 401, 409, 429, 503}]
      /\ clock \in 0..GateMaxTime
      /\ ask'[r] \in Asks /\ entered'[r] = clock /\ at'[r] \in {"entered", "done"} /\ said'[r] \in {0, 429, 503}
      /\ said[r] = 0 /\ (said'[r] # 0 => at'[r] = "done")
      /\ \A q \in Requests \ {r} : /\ at'[q] = at[q] /\ said'[q] = said[q] /\ ask'[q] = ask[q]
                                   /\ entered'[q] = entered[q]
  BY TimesFacts DEF Enter, GateTypeOK, AtGate, On, Say, Goto
<1>2. /\ kept = {e \in gate[CredentialsKey] : e.at > clock - GateWindow}
      /\ IsFiniteSet(kept) /\ Cardinality(kept) \in Nat /\ Cardinality(kept) <= GateLimit
      /\ Endpoint!Admits(CredentialsKey, clock) <=> Cardinality(kept) < GateLimit
  BY Buckets
<1>3. \/ /\ Cardinality(kept) < GateLimit /\ at'[r] = "entered" /\ said'[r] = 0
         /\ gate' = [k \in {CredentialsKey} |-> Endpoint!Kept(k, clock) \cup {me}]
      \/ /\ ~(Cardinality(kept) < GateLimit) /\ at'[r] = "done"
         /\ gate' = [k \in {CredentialsKey} |-> Endpoint!Kept(k, clock)]
      \/ gate' = gate /\ at'[r] = "done" /\ said'[r] = 503
  BY <1>1, <1>2 DEF Enter, On, Say, Goto, GateTypeOK
<1>4. \/ /\ Cardinality(kept) < GateLimit /\ at'[r] = "entered" /\ said'[r] = 0 /\ gate'[CredentialsKey] = kept \cup {me}
      \/ /\ ~(Cardinality(kept) < GateLimit) /\ at'[r] = "done" /\ gate'[CredentialsKey] = kept
      \/ gate' = gate /\ at'[r] = "done" /\ said'[r] = 503
  BY <1>3
<1>5. me \in [n : Requests, at : Times] /\ kept \subseteq gate[CredentialsKey]
      /\ gate[CredentialsKey] \subseteq [n : Requests, at : Times]
  BY <1>1, <1>2, TimesFacts DEF GateTypeOK
<1>6. GateTypeOK'
  <2>1. gate' \in [{CredentialsKey} -> SUBSET [n : Requests, at : Times]]
    BY <1>3, <1>5 DEF GateTypeOK
  <2> QED BY <1>1, <2>1 DEF GateTypeOK
<1> HIDE DEF kept, me
<1>7. AtGate'
  BY <1>1 DEF AtGate, PastLimit
<1>8. BucketsTrue' /\ \A e \in gate[CredentialsKey] : e.n # r
  <2>1. \A e \in gate[CredentialsKey] : e.n # r /\ e.n \in Requests
    BY <1>1, <1>5 DEF BucketsTrue
  <2>2. \A e \in gate'[CredentialsKey] : e \in gate[CredentialsKey] \/ (e = me /\ at'[r] = "entered")
    BY <1>4, <1>5
  <2>3. me.n = r /\ me.at = clock
    BY DEF me
  <2>4. \A e \in gate'[CredentialsKey] : at'[e.n] # "new" /\ e.at = entered'[e.n]
    BY <1>1, <2>1, <2>2, <2>3 DEF BucketsTrue
  <2>5. \A k \in Accounts : \A e \in guesses[k] : e.n # r /\ e.n \in Requests
    BY <1>1 DEF BucketsTrue, GateTypeOK
  <2>6. \A k \in Accounts : \A e \in guesses'[k] :
           at'[e.n] \notin {"new", "entered"} /\ e.at = allowed'[e.n] /\ Account(e.n)' = k
    BY <1>1, <2>5 DEF BucketsTrue, Account
  <2> QED BY <2>1, <2>4, <2>6 DEF BucketsTrue
<1>9. BucketsSmall'
  <2>1. IsFiniteSet(kept \cup {me})
        /\ Cardinality(kept \cup {me}) = IF me \in kept THEN Cardinality(kept) ELSE Cardinality(kept) + 1
    BY <1>2, FS_AddElement
  <2>3. Cardinality(kept) < GateLimit => Cardinality(kept \cup {me}) <= GateLimit
    BY <1>2, <2>1, GateAssumption
  <2>2. IsFiniteSet(gate'[CredentialsKey]) /\ Cardinality(gate'[CredentialsKey]) <= GateLimit
    BY <1>2, <1>4, <2>1, <2>3 DEF BucketsSmall
  <2> QED BY <1>1, <2>2 DEF BucketsSmall
<1>10. \A q \in Requests : /\ PastLimit(q)' <=> PastLimit(q)
                           /\ q # r => PastGate(q)' <=> PastGate(q)
                           /\ PastLimit(q) => q # r /\ Account(q)' = Account(q)
                           /\ outcome[q] = "right" => q # r /\ Account(q)' = Account(q)
  BY <1>1 DEF PastLimit, PastGate, Account, AtGate
<1>11. GateRemembers'
  <2> SUFFICES ASSUME NEW q \in Requests, PastGate(q)', entered'[q] > clock - GateWindow
               PROVE  [n |-> q, at |-> entered'[q]] \in gate'[CredentialsKey]
    BY <1>1 DEF GateRemembers
  <2>1. CASE q = r
    BY <1>1, <1>4, <2>1 DEF PastGate, PastLimit, AtGate, me
  <2>2. CASE q # r
    <3>1. [n |-> q, at |-> entered[q]] \in gate[CredentialsKey] /\ entered'[q] = entered[q]
      BY <1>1, <1>10, <2>2 DEF GateRemembers
    <3>2. [n |-> q, at |-> entered[q]] \in kept
      BY <1>2, <3>1
    <3> QED BY <1>4, <3>1, <3>2
  <2> QED BY <2>1, <2>2
<1>12. GateBound'
  <2> SUFFICES ASSUME NEW t \in Nat PROVE Cardinality(EnteredIn(t)') <= GateLimit
    BY DEF GateBound
  <2>0. \A q \in Requests : entered'[q] \in Int
    BY <1>6, TimesFacts DEF GateTypeOK
  <2>1. CASE t < clock \/ ~PastGate(r)'
    <3>1. EnteredIn(t)' \subseteq EnteredIn(t)
      BY <1>1, <1>10, <2>1 DEF EnteredIn, Within
    <3>2. EnteredIn(t) \in SUBSET Requests
      BY DEF EnteredIn
    <3>3. Cardinality(EnteredIn(t)') <= Cardinality(EnteredIn(t)) /\ Cardinality(EnteredIn(t)) \in Nat
          /\ Cardinality(EnteredIn(t)') \in Nat
      BY <3>1, <3>2, FewerRequests, RequestsFinite
    <3> QED BY <3>3, GateAssumption DEF GateBound
  <2>2. CASE t >= clock
    <3>1. \A q \in EnteredIn(t)' : [n |-> q, at |-> entered'[q]] \in gate'[CredentialsKey]
      <4> SUFFICES ASSUME NEW q \in EnteredIn(t)' PROVE [n |-> q, at |-> entered'[q]] \in gate'[CredentialsKey]
        OBVIOUS
      <4>1. q \in Requests /\ PastGate(q)' /\ entered'[q] > t - GateWindow
        BY <2>0, GateAssumption DEF EnteredIn, Within
      <4>2. entered'[q] > clock - GateWindow
        BY <1>1, <2>0, <2>2, <4>1, GateAssumption
      <4> QED BY <1>1, <1>11, <4>1, <4>2 DEF GateRemembers
    <3>2. EnteredIn(t)' \in SUBSET Requests /\ IsFiniteSet(gate'[CredentialsKey])
          /\ Cardinality(gate'[CredentialsKey]) <= GateLimit
      BY <1>9 DEF EnteredIn, BucketsSmall
    <3>3. Cardinality(EnteredIn(t)') <= Cardinality(gate'[CredentialsKey])
      BY <3>1, <3>2, InBucket
    <3>4. Cardinality(EnteredIn(t)') \in Nat /\ Cardinality(gate'[CredentialsKey]) \in Nat
      BY <3>2, RequestsFinite, FS_CardinalityType
    <3> QED BY <3>2, <3>3, <3>4, GateAssumption
  <2> QED BY <1>1, <2>1, <2>2
<1>13. ClearsForget' /\ GuessBound'
  <2>1. \A k \in Accounts : \A t \in Nat : AllowedIn(k, t)' = AllowedIn(k, t) /\ ClearsIn(k, t)' = ClearsIn(k, t)
    BY <1>1, <1>10 DEF AllowedIn, ClearsIn
  <2>2. \A k \in Accounts : \A t \in Nat : Forgotten(k, t)' = Forgotten(k, t)
    BY <1>1, <2>1 DEF Forgotten
  <2> QED BY <1>1, <2>1, <2>2 DEF ClearsForget, GuessBound
<1>14. OnceRegistered'
  <2>1. \A q \in Requests : said'[q] = 201 => q # r /\ said[q] = 201 /\ Account(q)' = Account(q)
    BY <1>1 DEF Account
  <2>2. RegisteredOnce'
    BY <2>1 DEF OnceRegistered, RegisteredOnce
  <2> QED BY <1>1, <2>1, <2>2 DEF OnceRegistered
<1>15. CausesLast'
  <2> SUFFICES ASSUME NEW q \in Requests, said'[q] = 429
               PROVE  \/ Cardinality(GateSpent(q)') >= GateLimit
                      \/ allowed'[q] # Never /\ Cardinality(AccountSpent(q)') >= GuessLimit
    BY DEF CausesLast
  <2>0. \A p \in Requests : entered[p] \in Int /\ (at[p] # "new" => entered[p] \in 0..clock)
    BY TimesFacts DEF GateTypeOK, AtGate
  <2>1. CASE q = r
    <3>1. ~(Cardinality(kept) < GateLimit)
      BY <1>1, <1>4, <2>1
    <3>2. \A e \in kept : e.n \in GateSpent(q)' /\ e.at = entered[e.n]
      <4> SUFFICES ASSUME NEW e \in kept PROVE e.n \in GateSpent(q)' /\ e.at = entered[e.n]
        OBVIOUS
      <4>1. e \in gate[CredentialsKey] /\ e.n \in Requests /\ e.n # r /\ e.at = entered[e.n] /\ at[e.n] # "new"
            /\ e.at > clock - GateWindow
        BY <1>2, <1>5, <1>8 DEF BucketsTrue
      <4>2. entered'[e.n] = e.at /\ e.at \in 0..clock
        BY <1>1, <2>0, <4>1
      <4>3. Within(entered'[e.n], entered'[r], GateWindow)
        BY <1>1, <4>1, <4>2, GateAssumption DEF Within
      <4> QED BY <2>1, <4>1, <4>3 DEF GateSpent
    <3>3. GateSpent(q)' \in SUBSET Requests /\ kept \in SUBSET [n : Requests, at : Times]
      BY <1>5 DEF GateSpent
    <3>4. Cardinality(kept) <= Cardinality(GateSpent(q)')
      BY <3>2, <3>3, OfBucket
    <3>5. Cardinality(GateSpent(q)') \in Nat
      BY <3>3, RequestsFinite
    <3> QED BY <1>2, <3>1, <3>4, <3>5, GateAssumption
  <2>2. CASE q # r
    <3>1. said[q] = 429 /\ at[q] = "done" /\ entered'[q] = entered[q] /\ ask'[q] = ask[q] /\ entered[q] \in Nat
      BY <1>1, <2>0, <2>2 DEF AtGate
    <3>2. GateSpent(q) \subseteq GateSpent(q)'
      BY <1>1, <3>1, TimesFacts DEF GateSpent, AtGate
    <3>3. allowed[q] # Never => allowed[q] \in Nat
      BY <1>1, GateAssumption DEF AtGate
    <3>4. allowed[q] # Never => AccountSpent(q) \subseteq AccountSpent(q)'
      BY <1>1, <3>1, <3>3, TimesFacts DEF AccountSpent, AtGate, Account
    <3>5. GateSpent(q)' \in SUBSET Requests /\ AccountSpent(q)' \in SUBSET Requests
          /\ GateSpent(q) \in SUBSET Requests /\ AccountSpent(q) \in SUBSET Requests
      BY DEF GateSpent, AccountSpent
    <3>6. Cardinality(GateSpent(q)) <= Cardinality(GateSpent(q)')
          /\ (allowed[q] # Never => Cardinality(AccountSpent(q)) <= Cardinality(AccountSpent(q)'))
      BY <3>2, <3>4, <3>5, FewerRequests
    <3>7. Cardinality(GateSpent(q)) \in Nat /\ Cardinality(GateSpent(q)') \in Nat
          /\ Cardinality(AccountSpent(q)) \in Nat /\ Cardinality(AccountSpent(q)') \in Nat
      BY <3>5, RequestsFinite
    <3>8. \/ Cardinality(GateSpent(q)) >= GateLimit
          \/ allowed[q] # Never /\ Cardinality(AccountSpent(q)) >= GuessLimit
      BY <3>1 DEF CausesLast
    <3> QED BY <1>1, <3>6, <3>7, <3>8, GateAssumption
  <2> QED BY <2>1, <2>2
<1> QED BY <1>6, <1>7, <1>8, <1>9, <1>11, <1>12, <1>13, <1>14, <1>15
-----------------------------------------------------------------------------
(* A cause of refusal stays, when nothing a request was asked about        *)
(* changes but its first time at the second limiter.                       *)
LEMMA CauseStays ==
    ASSUME GateInv, NEW q \in Requests, said[q] = 429, UNCHANGED entered, allowed'[q] = allowed[q], UNCHANGED ask,
           \A p \in Requests : allowed[p] # Never => allowed'[p] = allowed[p]
    PROVE  \/ Cardinality(GateSpent(q)') >= GateLimit
           \/ allowed'[q] # Never /\ Cardinality(AccountSpent(q)') >= GuessLimit
<1> USE DEF GateInv
<1>1. GateSpent(q)' = GateSpent(q)
  BY DEF GateSpent
<1>2. allowed[q] # Never => allowed[q] \in Nat
  BY GateAssumption DEF AtGate, GateTypeOK
<1>3. allowed[q] # Never => AccountSpent(q) \subseteq AccountSpent(q)'
  BY <1>2, TimesFacts DEF AccountSpent, Account
<1>4. AccountSpent(q)' \in SUBSET Requests /\ AccountSpent(q) \in SUBSET Requests
  BY DEF AccountSpent
<1>5. Cardinality(AccountSpent(q)') \in Nat /\ Cardinality(AccountSpent(q)) \in Nat
  BY <1>4, RequestsFinite
<1>6. allowed[q] # Never => Cardinality(AccountSpent(q)) <= Cardinality(AccountSpent(q)')
  BY <1>3, <1>4, FewerRequests
<1>7. \/ Cardinality(GateSpent(q)) >= GateLimit
      \/ allowed[q] # Never /\ Cardinality(AccountSpent(q)) >= GuessLimit
  BY DEF CausesLast
<1> QED BY <1>1, <1>5, <1>6, <1>7, GateAssumption

(* limitAccount. *)
LEMMA LimitKeeps == ASSUME GateInv, NEW r \in Requests, LimitAccount(r) PROVE GateInv'
<1> USE DEF GateInv
<1> DEFINE own  == Account(r)
           kept == PerAccount!Kept(own, clock)
           me   == [n |-> r, at |-> clock]
<1>1. /\ at[r] = "entered" /\ UNCHANGED <<clock, gate, ask, users, entered, outcome, cleared>>
      /\ allowed' \in [Requests -> Times]
      /\ at' \in [Requests -> {"new", "entered", "work", "clear", "done"}]
      /\ said' \in [Requests -> {0, 200, 201, 401, 409, 429, 503}]
      /\ clock \in 0..GateMaxTime
      /\ allowed'[r] = clock /\ at'[r] \in {"work", "done"} /\ said'[r] \in {0, 429, 503}
      /\ said[r] = 0 /\ (said'[r] # 0 => at'[r] = "done") /\ ask[r] \in Asks /\ allowed[r] = Never
      /\ \A q \in Requests \ {r} : at'[q] = at[q] /\ said'[q] = said[q] /\ allowed'[q] = allowed[q]
  BY TimesFacts DEF LimitAccount, GateTypeOK, AtGate, On, Say, Goto
<1>0. own \in Accounts
  BY <1>1 DEF Account, Asks
<1>2. /\ kept = {e \in guesses[own] : e.at > clock - GuessWindow}
      /\ IsFiniteSet(kept) /\ Cardinality(kept) \in Nat /\ Cardinality(kept) <= GuessLimit
      /\ PerAccount!Admits(own, clock) <=> Cardinality(kept) < GuessLimit
  BY <1>0, Buckets
<1>3. \/ /\ Cardinality(kept) < GuessLimit /\ at'[r] = "work" /\ said'[r] = 0
         /\ guesses' = [guesses EXCEPT ![own] = kept \cup {me}]
      \/ /\ ~(Cardinality(kept) < GuessLimit) /\ at'[r] = "done"
         /\ guesses' = [guesses EXCEPT ![own] = kept]
      \/ guesses' = guesses /\ at'[r] = "done" /\ said'[r] = 503
  BY <1>1, <1>2 DEF LimitAccount, On, Say, Goto, GateTypeOK
<1>5. me \in [n : Requests, at : Times] /\ kept \subseteq guesses[own]
      /\ guesses[own] \subseteq [n : Requests, at : Times]
  BY <1>0, <1>1, <1>2, TimesFacts DEF GateTypeOK
<1> HIDE DEF kept, me, own
<1>6. GateTypeOK'
  <2>1. guesses' \in [Accounts -> SUBSET [n : Requests, at : Times]]
    BY <1>0, <1>3, <1>5 DEF GateTypeOK
  <2> QED BY <1>1, <2>1 DEF GateTypeOK
<1>4. /\ \/ /\ Cardinality(kept) < GuessLimit /\ at'[r] = "work" /\ said'[r] = 0 /\ guesses'[own] = kept \cup {me}
         \/ /\ ~(Cardinality(kept) < GuessLimit) /\ at'[r] = "done" /\ guesses'[own] = kept
         \/ guesses' = guesses /\ at'[r] = "done" /\ said'[r] = 503
      /\ \A k \in Accounts \ {own} : guesses'[k] = guesses[k]
  BY <1>0, <1>3 DEF GateTypeOK
<1>7. AtGate'
  BY <1>1 DEF AtGate, PastLimit
<1>a. \A q \in Requests : Account(q)' = Account(q)
  BY <1>1 DEF Account
<1>8. BucketsTrue' /\ \A k \in Accounts : \A e \in guesses[k] : e.n # r
  <2>1. \A k \in Accounts : \A e \in guesses[k] : e.n # r /\ e.n \in Requests
    BY <1>1 DEF BucketsTrue, GateTypeOK
  <2>2. \A k \in Accounts : \A e \in guesses'[k] : e \in guesses[k] \/ (e = me /\ k = own /\ at'[r] = "work")
    BY <1>4, <1>5
  <2>3. me.n = r /\ me.at = clock
    BY DEF me
  <2>4. \A k \in Accounts : \A e \in guesses'[k] :
           at'[e.n] \notin {"new", "entered"} /\ e.at = allowed'[e.n] /\ Account(e.n)' = k
    BY <1>1, <1>a, <2>1, <2>2, <2>3 DEF BucketsTrue, own
  <2>5. \A e \in gate'[CredentialsKey] : at'[e.n] # "new" /\ e.at = entered'[e.n]
    BY <1>1 DEF BucketsTrue, GateTypeOK
  <2> QED BY <2>1, <2>4, <2>5 DEF BucketsTrue
<1>9. BucketsSmall'
  <2>1. IsFiniteSet(kept \cup {me})
        /\ Cardinality(kept \cup {me}) = IF me \in kept THEN Cardinality(kept) ELSE Cardinality(kept) + 1
    BY <1>2, FS_AddElement
  <2>2. Cardinality(kept) < GuessLimit => Cardinality(kept \cup {me}) <= GuessLimit
    BY <1>2, <2>1, GateAssumption
  <2>3. IsFiniteSet(guesses'[own]) /\ Cardinality(guesses'[own]) <= GuessLimit
    BY <1>0, <1>2, <1>4, <2>1, <2>2 DEF BucketsSmall
  <2> QED BY <1>1, <1>4, <2>3 DEF BucketsSmall
<1>10. \A q \in Requests : /\ q # r => (PastLimit(q)' <=> PastLimit(q)) /\ (PastGate(q)' <=> PastGate(q))
                           /\ PastGate(q)' => PastGate(q)
                           /\ ~PastLimit(r) /\ outcome[r] = "none" /\ (PastLimit(r)' => at'[r] = "work")
  BY <1>1 DEF PastLimit, PastGate, AtGate
<1>11. GateRemembers' /\ GateBound'
  <2>1. GateRemembers'
    BY <1>1, <1>10 DEF GateRemembers
  <2>2. \A t \in Nat : Cardinality(EnteredIn(t)') <= GateLimit
    <3> SUFFICES ASSUME NEW t \in Nat PROVE Cardinality(EnteredIn(t)') <= GateLimit
      OBVIOUS
    <3>1. EnteredIn(t)' \subseteq EnteredIn(t) /\ EnteredIn(t) \in SUBSET Requests
      BY <1>1, <1>10 DEF EnteredIn
    <3>2. Cardinality(EnteredIn(t)') <= Cardinality(EnteredIn(t)) /\ Cardinality(EnteredIn(t)) \in Nat
          /\ Cardinality(EnteredIn(t)') \in Nat
      BY <3>1, FewerRequests, RequestsFinite
    <3> QED BY <3>2, GateAssumption DEF GateBound
  <2> QED BY <2>1, <2>2 DEF GateBound
<1>12. \A k \in Accounts : \A t \in Nat :
           /\ ClearsIn(k, t)' = ClearsIn(k, t)
           /\ AllowedIn(k, t)' \in SUBSET Requests /\ ClearsIn(k, t) \in SUBSET Requests
           /\ Cardinality(ClearsIn(k, t)) \in Nat
  BY <1>1, <1>a, RequestsFinite DEF ClearsIn, AllowedIn
<1>13. ClearsForget'
  <2> SUFFICES ASSUME NEW k \in Accounts, NEW t \in Nat, t >= clock
               PROVE  Cardinality(Forgotten(k, t)') <= GuessLimit * Cardinality(ClearsIn(k, t)')
    BY <1>1 DEF ClearsForget
  <2>1. Forgotten(k, t)' \subseteq Forgotten(k, t)
    <3> SUFFICES ASSUME NEW q \in Requests, q \in Forgotten(k, t)' PROVE q \in Forgotten(k, t)
      BY DEF Forgotten, AllowedIn
    <3>1. /\ PastLimit(q)' /\ Account(q) = k /\ Within(allowed'[q], t, GuessWindow)
          /\ [n |-> q, at |-> allowed'[q]] \notin guesses'[k]
      BY <1>a DEF Forgotten, AllowedIn
    <3>2. q # r
      BY <1>1, <1>2, <1>4, <1>10, <3>1 DEF me, own
    <3>3. allowed'[q] = allowed[q] /\ PastLimit(q)
      BY <1>1, <1>10, <3>1, <3>2
    <3>4. [n |-> q, at |-> allowed[q]] \notin guesses[k]
      <4> SUFFICES ASSUME [n |-> q, at |-> allowed[q]] \in guesses[k] PROVE FALSE
        OBVIOUS
      <4>1. k = own
        BY <1>4, <3>1, <3>3
      <4>2. allowed[q] \in Int /\ allowed[q] > t - GuessWindow
        BY <3>1, <3>3, TimesFacts DEF Within, GateTypeOK
      <4>3. allowed[q] > clock - GuessWindow
        BY <1>1, <4>2, GateAssumption
      <4>4. [n |-> q, at |-> allowed[q]] \in kept
        BY <1>2, <4>1, <4>3
      <4> QED BY <1>4, <3>1, <3>3, <4>1, <4>4
    <3> QED BY <3>1, <3>3, <3>4 DEF Forgotten, AllowedIn
  <2>2. Forgotten(k, t) \in SUBSET Requests
    BY DEF Forgotten, AllowedIn
  <2>3. Cardinality(Forgotten(k, t)') <= Cardinality(Forgotten(k, t)) /\ Cardinality(Forgotten(k, t)) \in Nat
        /\ Cardinality(Forgotten(k, t)') \in Nat
    BY <2>1, <2>2, FewerRequests, RequestsFinite
  <2>4. Cardinality(Forgotten(k, t)) <= GuessLimit * Cardinality(ClearsIn(k, t))
    BY DEF ClearsForget
  <2>5. GuessLimit * Cardinality(ClearsIn(k, t)) \in Nat
    BY <1>12, GateAssumption
  <2> QED BY <1>12, <2>3, <2>4, <2>5
<1>14. GuessBound'
  <2> SUFFICES ASSUME NEW k \in Accounts, NEW t \in Nat
               PROVE  Cardinality(AllowedIn(k, t)') <= GuessLimit * (1 + Cardinality(ClearsIn(k, t)'))
    BY DEF GuessBound
  <2>1. CASE t < clock
    <3>1. AllowedIn(k, t)' \subseteq AllowedIn(k, t)
      BY <1>1, <1>a, <1>10, <2>1 DEF AllowedIn, Within
    <3>2. AllowedIn(k, t) \in SUBSET Requests
      BY DEF AllowedIn
    <3>3. Cardinality(AllowedIn(k, t)') <= Cardinality(AllowedIn(k, t)) /\ Cardinality(AllowedIn(k, t)) \in Nat
          /\ Cardinality(AllowedIn(k, t)') \in Nat
      BY <3>1, <3>2, FewerRequests, RequestsFinite
    <3>4. Cardinality(AllowedIn(k, t)) <= GuessLimit * (1 + Cardinality(ClearsIn(k, t)))
      BY DEF GuessBound
    <3>5. GuessLimit * (1 + Cardinality(ClearsIn(k, t))) \in Nat
      BY <1>12, GateAssumption
    <3> QED BY <1>12, <3>3, <3>4, <3>5
  <2>2. CASE t >= clock
    <3>1. Cardinality(Forgotten(k, t)') <= GuessLimit * Cardinality(ClearsIn(k, t)')
      BY <1>1, <1>13, <2>2 DEF ClearsForget
    <3> DEFINE still == AllowedIn(k, t)' \ Forgotten(k, t)'
               f     == allowed'
    <3>2. still \in SUBSET Requests /\ Forgotten(k, t)' \in SUBSET Requests
          /\ \A q \in still : [n |-> q, at |-> f[q]] \in guesses'[k]
      BY DEF Forgotten, AllowedIn
    <3>3. IsFiniteSet(guesses'[k]) /\ Cardinality(guesses'[k]) <= GuessLimit
      BY <1>9 DEF BucketsSmall
    <3> HIDE DEF still, f
    <3>4. Cardinality(still) <= Cardinality(guesses'[k])
      BY <3>2, <3>3, InBucket
    <3>5. IsFiniteSet(still) /\ Cardinality(still) \in Nat /\ IsFiniteSet(Forgotten(k, t)')
          /\ Cardinality(Forgotten(k, t)') \in Nat /\ Cardinality(guesses'[k]) \in Nat
      BY <3>2, <3>3, RequestsFinite, FS_CardinalityType
    <3>6. AllowedIn(k, t)' = still \cup Forgotten(k, t)' /\ still \cap Forgotten(k, t)' = {}
      BY DEF Forgotten, still
    <3>7. Cardinality(AllowedIn(k, t)') = Cardinality(still) + Cardinality(Forgotten(k, t)')
      BY <1>12, <3>2, <3>6, TwoParts
    <3>8. Cardinality(ClearsIn(k, t)') \in Nat
      BY <1>12
    <3>9. GuessLimit * (1 + Cardinality(ClearsIn(k, t)')) = GuessLimit + GuessLimit * Cardinality(ClearsIn(k, t)')
          /\ GuessLimit * Cardinality(ClearsIn(k, t)') \in Nat
      BY <3>8, GateAssumption
    <3> QED BY <3>1, <3>3, <3>4, <3>5, <3>7, <3>9, GateAssumption
  <2> QED BY <1>1, <2>1, <2>2
<1>15. OnceRegistered'
  <2>1. \A q \in Requests : said'[q] = 201 => said[q] = 201
    BY <1>1
  <2>2. RegisteredOnce'
    BY <1>a, <2>1 DEF OnceRegistered, RegisteredOnce
  <2> QED BY <1>1, <1>a, <2>1, <2>2 DEF OnceRegistered
<1>16. CausesLast'
  <2> SUFFICES ASSUME NEW q \in Requests, said'[q] = 429
               PROVE  \/ Cardinality(GateSpent(q)') >= GateLimit
                      \/ allowed'[q] # Never /\ Cardinality(AccountSpent(q)') >= GuessLimit
    BY DEF CausesLast
  <2>1. CASE q = r
    <3>1. ~(Cardinality(kept) < GuessLimit)
      BY <1>1, <1>4, <2>1
    <3>2. \A e \in kept : e.n \in AccountSpent(q)' /\ e.at = allowed[e.n]
      <4> SUFFICES ASSUME NEW e \in kept PROVE e.n \in AccountSpent(q)' /\ e.at = allowed[e.n]
        OBVIOUS
      <4>1. e \in guesses[own] /\ e.n \in Requests /\ e.n # r /\ e.at = allowed[e.n] /\ Account(e.n) = own
            /\ at[e.n] \notin {"new", "entered"} /\ e.at > clock - GuessWindow
        BY <1>0, <1>2, <1>5, <1>8 DEF BucketsTrue
      <4>2. ask[e.n] # NoAsk
        <5>1. ask[e.n] \in Asks
          BY <4>1 DEF AtGate
        <5> QED BY <5>1 DEF Asks, NoAsk
      <4>3. allowed'[e.n] = e.at /\ e.at \in Int /\ (e.at = Never \/ e.at <= clock)
        BY <1>1, <4>1, TimesFacts DEF AtGate, GateTypeOK
      <4>4. Within(allowed'[e.n], allowed'[r], GuessWindow)
        BY <1>1, <4>1, <4>3, GateAssumption, TimesFacts DEF Within
      <4> QED BY <1>1, <1>a, <2>1, <4>1, <4>2, <4>4 DEF AccountSpent, own, Account
    <3>3. AccountSpent(q)' \in SUBSET Requests /\ kept \in SUBSET [n : Requests, at : Times]
      BY <1>5 DEF AccountSpent
    <3>4. Cardinality(kept) <= Cardinality(AccountSpent(q)')
      BY <3>2, <3>3, OfBucket
    <3>5. Cardinality(AccountSpent(q)') \in Nat
      BY <3>3, RequestsFinite
    <3>6. allowed'[q] # Never
      BY <1>1, <2>1, TimesFacts, GateAssumption
    <3> QED BY <1>2, <3>1, <3>4, <3>5, <3>6, GateAssumption
  <2>2. CASE q # r
    BY <1>1, <2>2, CauseStays
  <2> QED BY <2>1, <2>2
<1> QED BY <1>6, <1>7, <1>8, <1>9, <1>11, <1>13, <1>14, <1>15, <1>16
-----------------------------------------------------------------------------
(* What lies behind the limiters asks neither and forgets nothing. *)
LEMMA BehindLimits ==
    ASSUME GateInv, UNCHANGED <<gate, guesses, ask, entered, allowed, cleared>>, clock' >= clock, clock' \in Nat,
           \A r \in Requests : PastGate(r)' => PastGate(r),
           \A r \in Requests : PastLimit(r)' => PastLimit(r),
           \A r \in Requests : outcome[r] = "right" => outcome'[r] = "right",
           \A r \in Requests : outcome'[r] = "right" => outcome[r] = "right" \/ cleared[r] = Never
    PROVE  GateRemembers' /\ GateBound' /\ ClearsForget' /\ GuessBound'
<1> USE DEF GateInv
<1>0. clock \in Nat /\ \A r \in Requests : entered[r] \in Int /\ Account(r)' = Account(r)
  BY TimesFacts DEF GateTypeOK, Account
<1>1. GateRemembers'
  BY <1>0, GateAssumption DEF GateRemembers
<1>2. GateBound'
  <2> SUFFICES ASSUME NEW t \in Nat PROVE Cardinality(EnteredIn(t)') <= GateLimit
    BY DEF GateBound
  <2>1. EnteredIn(t)' \subseteq EnteredIn(t) /\ EnteredIn(t) \in SUBSET Requests
    BY DEF EnteredIn
  <2>2. Cardinality(EnteredIn(t)') <= Cardinality(EnteredIn(t)) /\ Cardinality(EnteredIn(t)) \in Nat
        /\ Cardinality(EnteredIn(t)') \in Nat
    BY <2>1, FewerRequests, RequestsFinite
  <2> QED BY <2>2, GateAssumption DEF GateBound
<1>3. \A k \in Accounts : \A t \in Nat :
          /\ ClearsIn(k, t)' = ClearsIn(k, t) /\ Cardinality(ClearsIn(k, t)) \in Nat
          /\ AllowedIn(k, t)' \subseteq AllowedIn(k, t) /\ AllowedIn(k, t) \in SUBSET Requests
          /\ Forgotten(k, t)' \subseteq Forgotten(k, t) /\ Forgotten(k, t) \in SUBSET Requests
  <2> SUFFICES ASSUME NEW k \in Accounts, NEW t \in Nat
               PROVE  /\ ClearsIn(k, t)' = ClearsIn(k, t) /\ Cardinality(ClearsIn(k, t)) \in Nat
                      /\ AllowedIn(k, t)' \subseteq AllowedIn(k, t) /\ AllowedIn(k, t) \in SUBSET Requests
                      /\ Forgotten(k, t)' \subseteq Forgotten(k, t) /\ Forgotten(k, t) \in SUBSET Requests
    OBVIOUS
  <2>1. ClearsIn(k, t)' = ClearsIn(k, t) /\ ClearsIn(k, t) \in SUBSET Requests
    BY <1>0, TimesFacts DEF ClearsIn
  <2>2. AllowedIn(k, t)' \subseteq AllowedIn(k, t) /\ AllowedIn(k, t) \in SUBSET Requests
    BY <1>0 DEF AllowedIn
  <2>3. Forgotten(k, t)' \subseteq Forgotten(k, t) /\ Forgotten(k, t) \in SUBSET Requests
    BY <2>2 DEF Forgotten
  <2> QED BY <2>1, <2>2, <2>3, RequestsFinite
<1>4. ASSUME NEW k \in Accounts, NEW t \in Nat
      PROVE  /\ t >= clock' => Cardinality(Forgotten(k, t)') <= GuessLimit * Cardinality(ClearsIn(k, t)')
             /\ Cardinality(AllowedIn(k, t)') <= GuessLimit * (1 + Cardinality(ClearsIn(k, t)'))
  <2>1. /\ Cardinality(Forgotten(k, t)') <= Cardinality(Forgotten(k, t))
        /\ Cardinality(AllowedIn(k, t)') <= Cardinality(AllowedIn(k, t))
        /\ Cardinality(Forgotten(k, t)') \in Nat /\ Cardinality(Forgotten(k, t)) \in Nat
        /\ Cardinality(AllowedIn(k, t)') \in Nat /\ Cardinality(AllowedIn(k, t)) \in Nat
    <3>1. /\ Forgotten(k, t) \in SUBSET Requests /\ Forgotten(k, t)' \in SUBSET Forgotten(k, t)
          /\ AllowedIn(k, t) \in SUBSET Requests /\ AllowedIn(k, t)' \in SUBSET AllowedIn(k, t)
      BY <1>3
    <3> QED BY <3>1, FewerRequests, RequestsFinite
  <2>2. /\ GuessLimit * Cardinality(ClearsIn(k, t)) \in Nat
        /\ GuessLimit * (1 + Cardinality(ClearsIn(k, t))) \in Nat
    BY <1>3, GateAssumption
  <2>3. t >= clock' => t >= clock
    BY <1>0
  <2> QED BY <1>3, <2>1, <2>2, <2>3 DEF ClearsForget, GuessBound
<1> QED BY <1>1, <1>2, <1>4 DEF ClearsForget, GuessBound

(* handleRegister and handleLogin. *)
LEMMA WorkKeeps == ASSUME GateInv, NEW r \in Requests, Register(r) \/ Verify(r) PROVE GateInv'
<1> USE DEF GateInv
<1>1. /\ at[r] = "work" /\ UNCHANGED <<clock, gate, guesses, ask, entered, allowed, cleared>>
      /\ at' \in [Requests -> {"new", "entered", "work", "clear", "done"}]
      /\ said' \in [Requests -> {0, 200, 201, 401, 409, 429, 503}]
      /\ outcome' \in [Requests -> {"none", "hashed", "wrong", "right"}]
      /\ users' \in SUBSET Accounts /\ users \subseteq users'
      /\ at'[r] \in {"clear", "done"} /\ said'[r] \in {0, 201, 401, 409} /\ (said'[r] # 0 => at'[r] = "done")
      /\ (at'[r] = "clear" => outcome'[r] = "right")
      /\ (said'[r] = 201 => Account(r) \notin users /\ Account(r) \in users')
      /\ said[r] = 0 /\ ask[r] \in Asks /\ cleared[r] = Never /\ outcome[r] = "none"
      /\ \A q \in Requests \ {r} : at'[q] = at[q] /\ said'[q] = said[q] /\ outcome'[q] = outcome[q]
  <2>1. Account(r) \in Accounts /\ ask[r] \in Asks /\ said[r] = 0 /\ cleared[r] = Never /\ outcome[r] = "none"
    BY DEF Register, Verify, AtGate, Account, Asks
  <2>2. CASE Register(r)
    BY <2>1, <2>2 DEF Register, GateTypeOK, Say, Goto
  <2>3. CASE Verify(r)
    BY <2>1, <2>3 DEF Verify, GateTypeOK, Say, On, Goto
  <2> QED BY <2>2, <2>3
<1>2. GateTypeOK'
  BY <1>1 DEF GateTypeOK
<1>3. AtGate'
  BY <1>1 DEF AtGate, PastLimit
<1>4. \A q \in Requests : Account(q)' = Account(q)
  BY <1>1 DEF Account
<1>5. BucketsTrue' /\ BucketsSmall'
  <2>1. \A e \in gate[CredentialsKey] : e.n \in Requests
    BY DEF GateTypeOK
  <2>2. \A k \in Accounts : \A e \in guesses[k] : e.n \in Requests
    BY DEF GateTypeOK
  <2>3. BucketsTrue'
    BY <1>1, <1>4, <2>1, <2>2 DEF BucketsTrue
  <2> QED BY <1>1, <2>3 DEF BucketsSmall
<1>6. GateRemembers' /\ GateBound' /\ ClearsForget' /\ GuessBound'
  <2>1. \A q \in Requests : PastLimit(q)' => PastLimit(q)
    BY <1>1 DEF PastLimit
  <2>2. \A q \in Requests : PastGate(q)' => PastGate(q)
    BY <1>1, <2>1 DEF PastGate
  <2>3. clock \in Nat
    BY DEF GateTypeOK
  <2> QED BY <1>1, <2>1, <2>2, <2>3, BehindLimits
<1>7. OnceRegistered'
  <2>1. \A q \in Requests : said'[q] = 201 => (q # r /\ said[q] = 201) \/ (q = r /\ Account(r) \notin users)
    BY <1>1
  <2>2. RegisteredOnce'
    BY <1>4, <2>1 DEF OnceRegistered, RegisteredOnce
  <2>3. \A q \in Requests : said'[q] = 201 => Account(q)' \in users'
    BY <1>1, <1>4 DEF OnceRegistered
  <2> QED BY <1>1, <2>2, <2>3 DEF OnceRegistered
<1>8. CausesLast'
  <2> SUFFICES ASSUME NEW q \in Requests, said'[q] = 429
               PROVE  \/ Cardinality(GateSpent(q)') >= GateLimit
                      \/ allowed'[q] # Never /\ Cardinality(AccountSpent(q)') >= GuessLimit
    BY DEF CausesLast
  <2> QED BY <1>1, CauseStays
<1> QED BY <1>2, <1>3, <1>5, <1>6, <1>7, <1>8

(* clearAccount. *)
LEMMA ClearKeeps == ASSUME GateInv, NEW r \in Requests, ClearAccount(r) PROVE GateInv'
<1> USE DEF GateInv
<1> DEFINE own == Account(r)
<1>1. /\ at[r] = "clear" /\ UNCHANGED <<clock, gate, ask, users, entered, allowed, outcome>>
      /\ at' = [at EXCEPT ![r] = "done"] /\ said' = [said EXCEPT ![r] = 200]
      /\ \/ guesses' = [guesses EXCEPT ![own] = {}] /\ cleared' = [cleared EXCEPT ![r] = clock]
         \/ UNCHANGED <<guesses, cleared>>
      /\ ask[r] \in Asks /\ cleared[r] = Never /\ outcome[r] = "right" /\ clock \in 0..GateMaxTime
  BY DEF ClearAccount, Say, Goto, AtGate, GateTypeOK
<1>0. own \in Accounts
  BY <1>1 DEF Account, Asks
<1> HIDE DEF own
<1>2. GateTypeOK'
  <2>1. guesses' \in [Accounts -> SUBSET [n : Requests, at : Times]] /\ cleared' \in [Requests -> Times]
    BY <1>0, <1>1, TimesFacts DEF GateTypeOK
  <2> QED BY <1>1, <2>1 DEF GateTypeOK
<1>3. AtGate'
  BY <1>1 DEF AtGate, PastLimit, GateTypeOK
<1>4. \A q \in Requests : Account(q)' = Account(q) /\ (PastLimit(q)' <=> PastLimit(q)) /\ (PastGate(q)' <=> PastGate(q))
  BY <1>1 DEF Account, PastLimit, PastGate, GateTypeOK
<1>5. \A k \in Accounts : guesses'[k] \subseteq guesses[k] /\ (k # own => guesses'[k] = guesses[k])
  BY <1>0, <1>1 DEF GateTypeOK
<1>6. BucketsTrue' /\ BucketsSmall'
  <2>1. \A e \in gate[CredentialsKey] : e.n \in Requests
    BY DEF GateTypeOK
  <2>2. \A k \in Accounts : \A e \in guesses[k] : e.n \in Requests
    BY DEF GateTypeOK
  <2>3. BucketsTrue'
    BY <1>1, <1>4, <1>5, <2>1, <2>2 DEF BucketsTrue, GateTypeOK
  <2>4. \A k \in Accounts : guesses'[k] = guesses[k] \/ guesses'[k] = {}
    BY <1>0, <1>1 DEF GateTypeOK
  <2>5. ASSUME NEW k \in Accounts PROVE IsFiniteSet(guesses'[k]) /\ Cardinality(guesses'[k]) <= GuessLimit
    <3>1. CASE guesses'[k] = guesses[k]
      BY <3>1 DEF BucketsSmall
    <3>2. CASE guesses'[k] = {}
      <4>1. IsFiniteSet({}) /\ Cardinality({}) = 0 /\ GuessLimit \in Nat
        BY FS_EmptySet, GateAssumption
      <4> QED BY <3>2, <4>1
    <3> QED BY <2>4, <3>1, <3>2
  <2> QED BY <1>1, <2>3, <2>5 DEF BucketsSmall
<1>7. GateRemembers'
  BY <1>1, <1>4 DEF GateRemembers
<1>8. GateBound'
  <2>1. \A t \in Nat : EnteredIn(t)' = EnteredIn(t)
    BY <1>1, <1>4 DEF EnteredIn
  <2> QED BY <2>1 DEF GateBound
<1>9. \A k \in Accounts : \A t \in Nat :
          /\ AllowedIn(k, t)' = AllowedIn(k, t) /\ AllowedIn(k, t) \in SUBSET Requests
          /\ ClearsIn(k, t) \in SUBSET Requests
  BY <1>1, <1>4 DEF AllowedIn, ClearsIn
<1>10. ASSUME UNCHANGED <<guesses, cleared>> PROVE ClearsForget' /\ GuessBound'
  <2>1. \A k \in Accounts : \A t \in Nat : ClearsIn(k, t)' = ClearsIn(k, t) /\ Forgotten(k, t)' = Forgotten(k, t)
    BY <1>1, <1>4, <1>9, <1>10 DEF ClearsIn, Forgotten
  <2> QED BY <1>1, <1>9, <2>1 DEF ClearsForget, GuessBound
<1>11. ASSUME guesses' = [guesses EXCEPT ![own] = {}] /\ cleared' = [cleared EXCEPT ![r] = clock]
       PROVE  ClearsForget' /\ GuessBound'
  <2>1. \A k \in Accounts : \A t \in Nat :
            ClearsIn(k, t)' = IF k = own /\ clock <= t /\ t - GuessWindow < clock
                              THEN ClearsIn(k, t) \cup {r} ELSE ClearsIn(k, t)
    <3> SUFFICES ASSUME NEW k \in Accounts, NEW t \in Nat, NEW q \in Requests
                 PROVE  q \in ClearsIn(k, t)' <=>
                            q \in ClearsIn(k, t) \/ (q = r /\ k = own /\ clock <= t /\ t - GuessWindow < clock)
      BY <1>9 DEF ClearsIn
    <3>1. q # r => cleared'[q] = cleared[q]
      BY <1>11 DEF GateTypeOK
    <3>2. cleared'[r] = clock /\ r \notin ClearsIn(k, t)
      BY <1>1, <1>11, TimesFacts DEF GateTypeOK, ClearsIn
    <3>3. CASE q = r
      BY <1>1, <1>4, <3>2, <3>3 DEF ClearsIn, Within, own
    <3>4. CASE q # r
      BY <1>1, <1>4, <3>1, <3>4 DEF ClearsIn
    <3> QED BY <3>3, <3>4
  <2>2. \A t \in Nat : \A k \in Accounts : r \notin ClearsIn(k, t)
    BY <1>1, TimesFacts DEF ClearsIn
  <2>3. ASSUME NEW k \in Accounts, NEW t \in Nat
        PROVE  /\ Cardinality(ClearsIn(k, t)) \in Nat /\ Cardinality(ClearsIn(k, t)') \in Nat
               /\ Cardinality(ClearsIn(k, t)') >= Cardinality(ClearsIn(k, t))
               /\ k = own /\ clock <= t /\ t - GuessWindow < clock =>
                      Cardinality(ClearsIn(k, t)') = Cardinality(ClearsIn(k, t)) + 1
    <3>1. IsFiniteSet(ClearsIn(k, t)) /\ Cardinality(ClearsIn(k, t)) \in Nat
      BY <1>9, RequestsFinite
    <3>2. r \notin ClearsIn(k, t)
      BY <2>2
    <3>3. Cardinality(ClearsIn(k, t) \cup {r}) = Cardinality(ClearsIn(k, t)) + 1
      BY <3>1, <3>2, FS_AddElement
    <3>4. CASE k = own /\ clock <= t /\ t - GuessWindow < clock
      <4>1. ClearsIn(k, t)' = ClearsIn(k, t) \cup {r}
        BY <2>1, <3>4
      <4>2. Cardinality(ClearsIn(k, t)') = Cardinality(ClearsIn(k, t)) + 1
        BY <3>3, <4>1
      <4> QED BY <3>1, <4>2
    <3>5. CASE ~(k = own /\ clock <= t /\ t - GuessWindow < clock)
      <4>1. ClearsIn(k, t)' = ClearsIn(k, t)
        BY <2>1, <3>5
      <4> QED BY <3>1, <3>5, <4>1
    <3> QED BY <3>4, <3>5
  <2>4. GuessBound'
    <3> SUFFICES ASSUME NEW k \in Accounts, NEW t \in Nat
                 PROVE  Cardinality(AllowedIn(k, t)) <= GuessLimit * (1 + Cardinality(ClearsIn(k, t)'))
      BY <1>9 DEF GuessBound
    <3>1. Cardinality(AllowedIn(k, t)) <= GuessLimit * (1 + Cardinality(ClearsIn(k, t)))
          /\ Cardinality(AllowedIn(k, t)) \in Nat
      BY <1>9, RequestsFinite DEF GuessBound
    <3>2. GuessLimit * (1 + Cardinality(ClearsIn(k, t))) <= GuessLimit * (1 + Cardinality(ClearsIn(k, t)'))
      <4>1. \A x, y \in Nat : x <= y => GuessLimit * (1 + x) <= GuessLimit * (1 + y)
        BY GateAssumption
      <4> QED BY <2>3, <4>1
    <3>3. GuessLimit * (1 + Cardinality(ClearsIn(k, t))) \in Nat /\ GuessLimit * (1 + Cardinality(ClearsIn(k, t)')) \in Nat
      BY <2>3, GateAssumption
    <3> QED BY <3>1, <3>2, <3>3
  <2>5. ClearsForget'
    <3> SUFFICES ASSUME NEW k \in Accounts, NEW t \in Nat, t >= clock
                 PROVE  Cardinality(Forgotten(k, t)') <= GuessLimit * Cardinality(ClearsIn(k, t)')
      BY <1>1 DEF ClearsForget
    <3>1. Cardinality(Forgotten(k, t)) <= GuessLimit * Cardinality(ClearsIn(k, t))
          /\ Forgotten(k, t) \in SUBSET Requests /\ Forgotten(k, t)' \in SUBSET Requests
      BY DEF ClearsForget, Forgotten, AllowedIn
    <3>2. CASE k # own
      <4>1. Forgotten(k, t)' = Forgotten(k, t) /\ ClearsIn(k, t)' = ClearsIn(k, t)
        BY <1>1, <1>5, <1>9, <2>1, <3>2 DEF Forgotten
      <4> QED BY <3>1, <4>1
    <3>3. CASE k = own /\ t - GuessWindow >= clock
      <4>1. AllowedIn(k, t) = {}
        <5> SUFFICES ASSUME NEW q \in AllowedIn(k, t) PROVE FALSE
          OBVIOUS
        <5>1. PastLimit(q) /\ Within(allowed[q], t, GuessWindow) /\ q \in Requests
          BY DEF AllowedIn
        <5>2. allowed[q] \in 0..clock
          BY <5>1 DEF AtGate
        <5> QED BY <1>1, <3>3, <5>1, <5>2, GateAssumption DEF Within
      <4>2. Forgotten(k, t)' = {}
        BY <1>9, <4>1 DEF Forgotten
      <4>3. GuessLimit * Cardinality(ClearsIn(k, t)') \in Nat
        BY <2>3, GateAssumption
      <4> QED BY <4>2, <4>3, FS_EmptySet
    <3>4. CASE k = own /\ t - GuessWindow < clock
      <4> DEFINE still == AllowedIn(k, t) \ Forgotten(k, t)
      <4>1. still \in SUBSET Requests /\ \A q \in still : [n |-> q, at |-> allowed[q]] \in guesses[k]
        BY <1>9 DEF Forgotten
      <4>2. IsFiniteSet(guesses[k]) /\ Cardinality(guesses[k]) <= GuessLimit
        BY DEF BucketsSmall
      <4>3. AllowedIn(k, t) = still \cup Forgotten(k, t) /\ still \cap Forgotten(k, t) = {}
        BY DEF Forgotten
      <4> HIDE DEF still
      <4>4. Cardinality(still) <= Cardinality(guesses[k])
        BY <4>1, <4>2, InBucket
      <4>5. IsFiniteSet(still) /\ Cardinality(still) \in Nat /\ IsFiniteSet(Forgotten(k, t))
            /\ Cardinality(Forgotten(k, t)) \in Nat /\ Cardinality(guesses[k]) \in Nat
        BY <3>1, <4>1, <4>2, RequestsFinite, FS_CardinalityType
      <4>6. Cardinality(AllowedIn(k, t)) = Cardinality(still) + Cardinality(Forgotten(k, t))
        BY <1>9, <3>1, <4>1, <4>3, TwoParts
      <4>7. Forgotten(k, t)' \subseteq AllowedIn(k, t)
        BY <1>9 DEF Forgotten
      <4>8. Cardinality(Forgotten(k, t)') <= Cardinality(AllowedIn(k, t)) /\ Cardinality(Forgotten(k, t)') \in Nat
        BY <1>9, <3>1, <4>7, FewerRequests, RequestsFinite
      <4>9. Cardinality(ClearsIn(k, t)') = Cardinality(ClearsIn(k, t)) + 1 /\ Cardinality(ClearsIn(k, t)) \in Nat
        BY <2>3, <3>4
      <4>10. GuessLimit * Cardinality(ClearsIn(k, t)') = GuessLimit * Cardinality(ClearsIn(k, t)) + GuessLimit
             /\ GuessLimit * Cardinality(ClearsIn(k, t)) \in Nat
        BY <4>9, GateAssumption
      <4> QED BY <3>1, <4>2, <4>4, <4>5, <4>6, <4>8, <4>10, GateAssumption
    <3>5. clock \in Int /\ GuessWindow \in Int
      BY <1>1, GateAssumption
    <3> QED BY <3>2, <3>3, <3>4, <3>5
  <2> QED BY <2>4, <2>5
<1>12. OnceRegistered'
  <2>1. \A q \in Requests : said'[q] = 201 => said[q] = 201
    BY <1>1 DEF GateTypeOK
  <2>2. RegisteredOnce'
    BY <1>4, <2>1 DEF OnceRegistered, RegisteredOnce
  <2> QED BY <1>1, <1>4, <2>1, <2>2 DEF OnceRegistered
<1>13. CausesLast'
  <2> SUFFICES ASSUME NEW q \in Requests, said'[q] = 429
               PROVE  \/ Cardinality(GateSpent(q)') >= GateLimit
                      \/ allowed'[q] # Never /\ Cardinality(AccountSpent(q)') >= GuessLimit
    BY DEF CausesLast
  <2>1. said[q] = 429
    BY <1>1 DEF GateTypeOK
  <2> QED BY <1>1, <2>1, CauseStays
<1>14. ClearsForget' /\ GuessBound'
  BY <1>1, <1>10, <1>11
<1> QED BY <1>2, <1>3, <1>6, <1>7, <1>8, <1>12, <1>13, <1>14

(* Time passes: entries age out of the windows. *)
LEMMA TickKeeps == ASSUME GateInv, GateTick \/ UNCHANGED gateVars PROVE GateInv'
<1> USE DEF GateInv
<1>1. /\ UNCHANGED <<gate, guesses, at, ask, users, said, entered, allowed, outcome, cleared>>
      /\ clock \in 0..GateMaxTime /\ clock' \in 0..GateMaxTime /\ clock' >= clock
  BY GateAssumption DEF GateTick, gateVars, GateTypeOK
<1>2. GateTypeOK' /\ BucketsSmall'
  BY <1>1 DEF GateTypeOK, BucketsSmall
<1>3. \A q \in Requests : Account(q)' = Account(q) /\ PastLimit(q)' = PastLimit(q) /\ PastGate(q)' = PastGate(q)
  BY <1>1 DEF Account, PastLimit, PastGate
<1>4. AtGate'
  BY <1>1, <1>3 DEF AtGate
<1>5. BucketsTrue'
  <2>1. \A k \in Accounts : \A e \in guesses[k] : e.n \in Requests
    BY DEF GateTypeOK
  <2> QED BY <1>1, <1>3, <2>1 DEF BucketsTrue
<1>6. GateRemembers' /\ GateBound' /\ ClearsForget' /\ GuessBound'
  <2>1. clock' \in Nat
    BY <1>1
  <2> QED BY <1>1, <1>3, <2>1, BehindLimits
<1>7. OnceRegistered'
  BY <1>1, <1>3 DEF OnceRegistered, RegisteredOnce
<1>8. CausesLast'
  <2> SUFFICES ASSUME NEW q \in Requests, said'[q] = 429
               PROVE  \/ Cardinality(GateSpent(q)') >= GateLimit
                      \/ allowed'[q] # Never /\ Cardinality(AccountSpent(q)') >= GuessLimit
    BY DEF CausesLast
  <2> QED BY <1>1, CauseStays
<1> QED BY <1>2, <1>4, <1>5, <1>6, <1>7, <1>8

-----------------------------------------------------------------------------
(* No request has come. *)
LEMMA GateStarts == GateInit => GateInv
<1> SUFFICES ASSUME GateInit PROVE GateInv
  OBVIOUS
<1>1. GateTypeOK
  <2>1. 0 \in 0..GateMaxTime /\ Never \in Times
    BY GateAssumption DEF Never, Times
  <2> QED BY <2>1, GateAssumption DEF GateInit, GateTypeOK
<1>2. \A r \in Requests : ~PastLimit(r) /\ ~PastGate(r) /\ said[r] = 0 /\ outcome[r] = "none"
  BY DEF GateInit, PastLimit, PastGate
<1>3. AtGate /\ BucketsTrue
  BY <1>2, TimesFacts DEF GateInit, AtGate, BucketsTrue
<1>4. BucketsSmall
  BY FS_EmptySet, GateAssumption DEF GateInit, BucketsSmall
<1>5. /\ \A t \in Nat : EnteredIn(t) = {}
      /\ \A k \in Accounts : \A t \in Nat : AllowedIn(k, t) = {} /\ Forgotten(k, t) = {} /\ ClearsIn(k, t) = {}
  BY <1>2 DEF EnteredIn, AllowedIn, Forgotten, ClearsIn
<1>6. GateRemembers /\ GateBound
  BY <1>2, <1>5, FS_EmptySet, GateAssumption DEF GateRemembers, GateBound
<1>8. GuessLimit * 0 = 0 /\ GuessLimit * (1 + 0) = GuessLimit /\ 0 <= GuessLimit
  BY GateAssumption
<1>9. ClearsForget /\ GuessBound
  BY <1>5, <1>8, FS_EmptySet DEF ClearsForget, GuessBound
<1>7. OnceRegistered /\ CausesLast
  BY <1>2, GateAssumption DEF GateInit, OnceRegistered, RegisteredOnce, CausesLast
<1> QED BY <1>1, <1>3, <1>4, <1>6, <1>7, <1>9 DEF GateInv

(* The inductive invariant holds in every state. *)
THEOREM GateInvariant == GateSpec => []GateInv
<1>1. GateInv /\ [GateNext]_gateVars => GateInv'
  BY EnterKeeps, LimitKeeps, WorkKeeps, ClearKeeps, TickKeeps DEF GateNext
<1> QED BY <1>1, GateStarts, PTL DEF GateSpec

(* What the requests rely on follows from it. *)
LEMMA GateSuffices == GateInv => CredentialsAreGuarded
<1> SUFFICES ASSUME GateInv PROVE CredentialsAreGuarded
  OBVIOUS
<1> USE DEF GateInv
<1>1. BcryptWithinLimit
  <2> SUFFICES ASSUME NEW t \in 0..GateMaxTime
               PROVE  Cardinality({r \in Requests : outcome[r] # "none" /\ Within(entered[r], t, GateWindow)}) <= GateLimit
    BY DEF BcryptWithinLimit
  <2> DEFINE ran == {r \in Requests : outcome[r] # "none" /\ Within(entered[r], t, GateWindow)}
  <2>1. ran \subseteq EnteredIn(t) /\ EnteredIn(t) \in SUBSET Requests /\ t \in Nat
    BY DEF EnteredIn, PastGate, PastLimit
  <2> HIDE DEF ran
  <2>2. Cardinality(ran) <= Cardinality(EnteredIn(t)) /\ Cardinality(EnteredIn(t)) \in Nat /\ Cardinality(ran) \in Nat
    BY <2>1, FewerRequests, RequestsFinite
  <2>3. Cardinality(ran) <= GateLimit
    BY <2>1, <2>2, GateAssumption DEF GateBound
  <2> QED BY <2>3 DEF ran
<1>2. GuessesWithinLimit
  <2> SUFFICES ASSUME NEW k \in Accounts, NEW t \in 0..GateMaxTime
               PROVE  Cardinality({r \in Requests : /\ outcome[r] \in {"wrong", "hashed"} /\ Account(r) = k
                                                    /\ Within(allowed[r], t, GuessWindow)})
                          <= GuessLimit * (1 + Cardinality(ClearsIn(k, t)))
    BY DEF GuessesWithinLimit, ClearsIn
  <2> DEFINE tried == {r \in Requests : /\ outcome[r] \in {"wrong", "hashed"} /\ Account(r) = k
                                        /\ Within(allowed[r], t, GuessWindow)}
  <2>1. tried \subseteq AllowedIn(k, t) /\ AllowedIn(k, t) \in SUBSET Requests /\ t \in Nat
        /\ ClearsIn(k, t) \in SUBSET Requests
    BY DEF AllowedIn, PastLimit, ClearsIn
  <2> HIDE DEF tried
  <2>2. Cardinality(tried) <= Cardinality(AllowedIn(k, t)) /\ Cardinality(AllowedIn(k, t)) \in Nat
        /\ Cardinality(tried) \in Nat /\ Cardinality(ClearsIn(k, t)) \in Nat
    BY <2>1, FewerRequests, RequestsFinite
  <2>3. GuessLimit * (1 + Cardinality(ClearsIn(k, t))) \in Nat
    BY <2>2, GateAssumption
  <2>4. Cardinality(tried) <= GuessLimit * (1 + Cardinality(ClearsIn(k, t)))
    BY <2>1, <2>2, <2>3 DEF GuessBound
  <2> QED BY <2>4 DEF tried
<1>3. RegisteredOnce
  BY DEF OnceRegistered
<1>4. LimitedForCause
  BY DEF LimitedForCause, CausesLast, GateSpent, AccountSpent
<1> QED BY <1>1, <1>2, <1>3, <1>4 DEF CredentialsAreGuarded

(* register and login behind their two limiters: no window admits more     *)
(* than its limit, but for an account's limiter that a right password      *)
(* clears; a name registers once; and who is refused is refused for a      *)
(* cause.                                                                  *)
THEOREM CredentialsStayGuarded == GateSpec => []CredentialsAreGuarded
BY GateInvariant, GateSuffices, PTL

(* The gate is well typed. *)
THEOREM GateTyped == GateSpec => []GateTypeOK
<1>1. GateInv => GateTypeOK
  BY DEF GateInv
<1> QED BY <1>1, GateInvariant, PTL
=============================================================================
