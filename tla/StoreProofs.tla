---------------------------- MODULE StoreProofs -----------------------------
(***************************************************************************)
(* What the stores keep, for any number of requests and rows.  Ids name    *)
(* rows, only custom slugs get in the way of generated ones, and creating  *)
(* links implements the directory; a bookmark has the tags that were asked *)
(* for; a listing shows, newest first and once, every row that stayed.     *)
(***************************************************************************)
EXTENDS SlugAllocation, BookmarkTags, KeysetPages, FiniteSetTheorems, SequenceTheorems, WellFoundedInduction, TLAPS

-----------------------------------------------------------------------------
(* Creating links: the inductive invariant, by parts. *)

(* The inductive invariant, by parts. *)

Open == {"insert", "commit"}   \* a transaction with an id that it may still use

(* The sequence is ahead of every id in use. *)
Numbered ==
    /\ \A c \in Creators : id[c] <= lastId /\ (stage[c] \in Open => 1 <= id[c])
    /\ \A c \in Creators : \A i \in met[c] : i <= lastId
    /\ \A s \in Slugs : link[s] # None => link[s].id <= lastId

(* An open transaction holds the entry of its own slug, which nobody else  *)
(* has.                                                                    *)
Holds(c) ==
    /\ stage[c] = "commit" => /\ row[c] = Slug(c) /\ row[c] \in Slugs /\ link[row[c]] = None
                              /\ wish[c] = None => id[c] < Modulus
    /\ stage[c] # "commit" => row[c] = None
    /\ \A d \in Creators : d # c /\ row[c] # None => row[d] # row[c]

(* A row that is not a custom one has the slug of its id. *)
NamedById(s) == link[s] # None /\ ~link[s].custom => link[s].id \in 1..(Modulus - 1) /\ s = SlugOf(link[s].id)

(* Nobody is told anything before the end, nor has a slug before the COMMIT. *)
Told(c) ==
    /\ told[c] # None => stage[c] = "done"
    /\ stage[c] \in {"new", "begun", "insert", "commit"} => got[c] = None
    /\ stage[c] = "commitSent" => got[c] # None

(* Each attempt cost one id, and there is one left until the refusal. *)
Attempted(c) ==
    /\ IsFiniteSet(met[c]) /\ Cardinality(met[c]) = tries[c]
    /\ stage[c] = "insert" => id[c] \notin met[c]
    /\ stage[c] = "new" => tries[c] = 0
    /\ stage[c] # "done" => tries[c] < Attempts /\ (wish[c] # None => tries[c] = 0)
    /\ told[c] = "conflict" => tries[c] = (IF wish[c] # None THEN 1 ELSE Attempts)

SlugInv ==
    /\ SlugTypeOK /\ IdNamesOneRow /\ Numbered
    /\ \A s \in Slugs : NamedById(s)
    /\ \A c \in Creators : Holds(c) /\ Told(c) /\ Attempted(c)

-----------------------------------------------------------------------------
(* Obfuscate as the assumption has it. *)
LEMMA SlugsOfIds ==
    /\ \A i \in 1..(Modulus - 1) : SlugOf(i) \in Slugs
    /\ \A i, j \in 1..(Modulus - 1) : SlugOf(i) = SlugOf(j) => i = j
  BY SlugAssumption, Zenon DEF SlugOf

(* The parts of a state, one request at a time. *)
LEMMA TypesOf ==
    ASSUME SlugTypeOK
    PROVE  /\ lastId \in Int /\ 0 <= lastId /\ lastId <= MaxId
           /\ \A s \in Slugs : link[s] # None => link[s] \in Link /\ link[s].id \in Int /\ link[s].by \in Creators
           /\ \A c \in Creators : /\ stage[c] \in Stages /\ id[c] \in Int /\ 0 <= id[c] /\ id[c] <= MaxId
                                  /\ tries[c] \in Nat /\ tries[c] <= Attempts
                                  /\ met[c] \subseteq 1..MaxId
                                  /\ wish[c] # None => wish[c] \in Slugs
                                  /\ row[c] # None => row[c] \in Slugs
           /\ Attempts \in Nat \ {0} /\ MaxId \in Nat /\ Modulus \in Nat \ {0}
  BY SlugAssumption DEF SlugTypeOK, Link

(* Whoever may INSERT has a slug to insert. *)
LEMMA SlugToInsert ==
    ASSUME SlugInv, NEW c \in Creators, CanInsert(c)
    PROVE  /\ Slug(c) \in Slugs
           /\ wish[c] = None => id[c] \in 1..(Modulus - 1) /\ Slug(c) = SlugOf(id[c])
<1>1. SlugTypeOK /\ stage[c] \in Open
  BY DEF SlugInv, CanInsert, Open
<1>2. wish[c] = None => id[c] \in 1..(Modulus - 1)
  BY <1>1, TypesOf DEF SlugInv, Numbered, CanInsert
<1> QED BY <1>1, <1>2, SlugsOfIds, TypesOf DEF Slug

(* No request has come. *)
LEMMA SlugStarts == SlugInit => SlugInv
<1> SUFFICES ASSUME SlugInit PROVE SlugInv
  OBVIOUS
<1> USE SlugAssumption DEF SlugInit
<1>1. SlugTypeOK
  BY DEF SlugTypeOK, Stages
<1>2. IdNamesOneRow /\ Numbered
  BY DEF IdNamesOneRow, Numbered, Open
<1>3. \A s \in Slugs : NamedById(s)
  BY DEF NamedById
<1>4. \A c \in Creators : Holds(c) /\ Told(c)
  BY DEF Holds, Told
<1>5. \A c \in Creators : Attempted(c)
  BY FS_EmptySet DEF Attempted, Answers
<1> QED BY <1>1, <1>2, <1>3, <1>4, <1>5 DEF SlugInv

-----------------------------------------------------------------------------
(* The end of a request without a row: its answer is an error or a refusal. *)
LEMMA FinishStep ==
    ASSUME SlugInv, NEW c \in Creators, NEW a \in Answers, Finish(c, a),
           stage[c] # "done",
           SlugTypeOK', met' \in [Creators -> SUBSET (1..MaxId)],
           \A d \in Creators : d # c => met'[d] = met[d] /\ tries'[d] = tries[d],
           \A i \in met'[c] : i <= lastId,
           IsFiniteSet(met'[c]), Cardinality(met'[c]) = tries'[c],
           a = "conflict" => tries'[c] = (IF wish[c] # None THEN 1 ELSE Attempts),
           UNCHANGED <<link, lastId, wish, id, got>>
    PROVE  SlugInv'
<1> USE SlugAssumption
<1>1. /\ stage'[c] = "done" /\ row'[c] = None /\ told'[c] = a
      /\ \A d \in Creators : d # c => stage'[d] = stage[d] /\ row'[d] = row[d] /\ told'[d] = told[d]
  BY DEF Finish, SlugInv, SlugTypeOK
<1>2. IdNamesOneRow'
  BY <1>1 DEF SlugInv, IdNamesOneRow
<1>3. Numbered'
  BY <1>1 DEF SlugInv, Numbered, Open
<1>4. \A s \in Slugs : NamedById(s)'
  BY DEF SlugInv, NamedById
<1>5. ASSUME NEW d \in Creators PROVE Holds(d)' /\ Told(d)'
  BY <1>1 DEF SlugInv, Holds, Told, Slug
<1>6. ASSUME NEW d \in Creators PROVE Attempted(d)'
  BY <1>1 DEF SlugInv, Attempted
<1> QED BY <1>2, <1>3, <1>4, <1>5, <1>6 DEF SlugInv

(* A request that goes on within its transaction. *)
LEMMA AskStep ==
    ASSUME SlugInv, NEW c \in Creators, NEW s \in Slugs \cup {None}, Ask(c, s)
    PROVE  SlugInv'
<1> USE SlugAssumption
<1>1. /\ stage[c] = "new" /\ stage'[c] = "begun" /\ wish'[c] = s
      /\ \A d \in Creators : d # c => stage'[d] = stage[d] /\ wish'[d] = wish[d]
      /\ UNCHANGED <<link, lastId, id, row, tries, told, got, met>>
  BY DEF Ask, SlugInv, SlugTypeOK
<1>2. SlugTypeOK'
  BY DEF Ask, SlugInv, SlugTypeOK, Stages
<1>3. IdNamesOneRow' /\ Numbered'
  BY <1>1 DEF SlugInv, IdNamesOneRow, Numbered, Open
<1>4. \A t \in Slugs : NamedById(t)'
  BY <1>1 DEF SlugInv, NamedById
<1>5. ASSUME NEW d \in Creators PROVE Holds(d)' /\ Told(d)'
  BY <1>1 DEF SlugInv, Holds, Told, Slug
<1>6. ASSUME NEW d \in Creators PROVE Attempted(d)'
  BY <1>1 DEF SlugInv, Attempted
<1> QED BY <1>2, <1>3, <1>4, <1>5, <1>6 DEF SlugInv

(* The next id. *)
LEMMA ReserveStep ==
    ASSUME SlugInv, NEW c \in Creators, Reserve(c)
    PROVE  SlugInv'
<1> USE SlugAssumption
<1>0. SlugTypeOK
  BY DEF SlugInv
<1>1. /\ stage[c] = "begun" /\ stage'[c] = "insert" /\ id'[c] = lastId + 1
      /\ lastId' = lastId + 1 /\ lastId < MaxId
      /\ \A d \in Creators : d # c => stage'[d] = stage[d] /\ id'[d] = id[d]
      /\ UNCHANGED <<link, wish, row, tries, told, got, met>>
  BY DEF Reserve, TakeId, SlugInv, SlugTypeOK
<1>2. SlugTypeOK'
  <2>1. lastId' \in 0..MaxId
    BY <1>0, <1>1, TypesOf
  <2> QED BY <1>0, <1>1, <2>1 DEF Reserve, TakeId, SlugTypeOK, Stages
<1>3. Numbered'
  BY <1>0, <1>1, TypesOf DEF SlugInv, Numbered, Open
<1>4. IdNamesOneRow'
  BY <1>0, <1>1, TypesOf DEF SlugInv, IdNamesOneRow, Numbered
<1>5. \A t \in Slugs : NamedById(t)'
  BY <1>1 DEF SlugInv, NamedById
<1>6. ASSUME NEW d \in Creators PROVE Holds(d)' /\ Told(d)'
  BY <1>1 DEF SlugInv, Holds, Told, Slug
<1>7. ASSUME NEW d \in Creators PROVE Attempted(d)'
  BY <1>0, <1>1, TypesOf DEF SlugInv, Attempted, Numbered
<1> QED BY <1>2, <1>3, <1>4, <1>5, <1>6, <1>7 DEF SlugInv

(* The entry of the index is the transaction's own from here to its end. *)
LEMMA InsertStep ==
    ASSUME SlugInv, NEW c \in Creators, Insert(c)
    PROVE  SlugInv'
<1> USE SlugAssumption
<1>0. SlugTypeOK /\ Slug(c) \in Slugs
  BY SlugToInsert DEF SlugInv, Insert
<1>1. /\ stage[c] = "insert" /\ stage'[c] = "commit" /\ row'[c] = Slug(c)
      /\ link[Slug(c)] = None /\ \A d \in Creators : row[d] # Slug(c)
      /\ \A d \in Creators : d # c => stage'[d] = stage[d] /\ row'[d] = row[d]
      /\ UNCHANGED <<link, lastId, wish, id, tries, told, got, met>>
  BY <1>0 DEF Insert, CanInsert, Free, SlugTypeOK
<1>2. SlugTypeOK'
  BY <1>0, <1>1 DEF Insert, SlugTypeOK, Stages
<1>3. IdNamesOneRow' /\ Numbered'
  BY <1>1 DEF SlugInv, IdNamesOneRow, Numbered, Open
<1>4. \A t \in Slugs : NamedById(t)'
  BY <1>1 DEF SlugInv, NamedById
<1>5. Holds(c)'
  BY <1>0, <1>1, SlugToInsert DEF Holds, Slug, Insert, CanInsert
<1>6. ASSUME NEW d \in Creators, d # c PROVE Holds(d)'
  BY <1>0, <1>1, <1>6 DEF SlugInv, Holds, Slug
<1>7. ASSUME NEW d \in Creators PROVE Told(d)' /\ Attempted(d)'
  BY <1>1 DEF SlugInv, Told, Attempted
<1> QED BY <1>2, <1>3, <1>4, <1>5, <1>6, <1>7 DEF SlugInv

(* An attempt that met a row: one id more, and none of the earlier ones. *)
LEMMA TakenStep ==
    ASSUME SlugInv, NEW c \in Creators, Taken(c)
    PROVE  SlugInv'
<1> USE SlugAssumption
<1>0. SlugTypeOK
  BY DEF SlugInv
<1>1. /\ stage[c] = "insert" /\ tries'[c] = tries[c] + 1 /\ met'[c] = met[c] \cup {id[c]}
      /\ \A d \in Creators : d # c => tries'[d] = tries[d] /\ met'[d] = met[d]
      /\ UNCHANGED <<link, lastId, wish, id, got>>
  BY <1>0 DEF Taken, CanInsert, SlugTypeOK
<1>2. /\ tries[c] < Attempts /\ (wish[c] # None => tries[c] = 0)
      /\ IsFiniteSet(met[c]) /\ Cardinality(met[c]) = tries[c] /\ id[c] \notin met[c]
      /\ 1 <= id[c] /\ id[c] <= lastId
  BY <1>1 DEF SlugInv, Attempted, Numbered, Open
<1>3. IsFiniteSet(met'[c]) /\ Cardinality(met'[c]) = tries'[c]
  <2>1. IsFiniteSet(met[c] \cup {id[c]}) /\ Cardinality(met[c] \cup {id[c]}) = Cardinality(met[c]) + 1
    BY <1>2, FS_AddElement
  <2> QED BY <1>1, <1>2, <2>1
<1>4. \A i \in met'[c] : i <= lastId
  BY <1>1, <1>2 DEF SlugInv, Numbered
<1>5. tries' \in [Creators -> 0..Attempts] /\ met' \in [Creators -> SUBSET (1..MaxId)]
  <2>1. tries[c] + 1 \in 0..Attempts /\ id[c] \in 1..MaxId
    BY <1>0, <1>2, TypesOf
  <2> QED BY <1>0, <2>1 DEF Taken, SlugTypeOK
<1>6. CASE wish[c] # None \/ tries'[c] = Attempts
  <2>1. Finish(c, "conflict")
    BY <1>6 DEF Taken
  <2>2. SlugTypeOK'
    BY <1>0, <1>1, <1>5, <2>1 DEF Finish, SlugTypeOK, Stages, Answers
  <2>3. tries'[c] = (IF wish[c] # None THEN 1 ELSE Attempts)
    BY <1>1, <1>2, <1>6
  <2> QED BY <1>1, <1>3, <1>4, <1>5, <2>1, <2>2, <2>3, FinishStep DEF Answers
<1>7. CASE ~(wish[c] # None \/ tries'[c] = Attempts)
  <2>1. stage' = [stage EXCEPT ![c] = "begun"] /\ UNCHANGED <<row, told>>
    BY <1>7 DEF Taken
  <2>2. stage'[c] = "begun" /\ \A d \in Creators : d # c => stage'[d] = stage[d]
    BY <1>0, <2>1 DEF SlugTypeOK
  <2>3. SlugTypeOK'
    BY <1>0, <1>1, <1>5, <2>1 DEF SlugTypeOK, Stages
  <2>4. IdNamesOneRow' /\ Numbered'
    BY <1>1, <1>4, <2>2 DEF SlugInv, IdNamesOneRow, Numbered, Open
  <2>5. \A t \in Slugs : NamedById(t)'
    BY <1>1 DEF SlugInv, NamedById
  <2>6. ASSUME NEW d \in Creators PROVE Holds(d)' /\ Told(d)'
    BY <1>1, <2>1, <2>2 DEF SlugInv, Holds, Told, Slug
  <2>7. Attempted(c)'
    BY <1>0, <1>1, <1>2, <1>3, <1>7, <2>1, <2>2, TypesOf DEF SlugInv, Attempted, Told
  <2>8. ASSUME NEW d \in Creators, d # c PROVE Attempted(d)'
    BY <1>1, <2>1, <2>2, <2>8 DEF SlugInv, Attempted
  <2> QED BY <2>3, <2>4, <2>5, <2>6, <2>7, <2>8 DEF SlugInv
<1> QED BY <1>6, <1>7

(* What a COMMIT adds is a row. *)
LEMMA RowOfCommit ==
    ASSUME SlugTypeOK, NEW c \in Creators, 1 <= id[c]
    PROVE  LET l == [by |-> c, id |-> id[c], custom |-> wish[c] # None] IN
           l \in Link /\ l # None /\ l.by = c /\ l.id = id[c] /\ (l.custom <=> wish[c] # None)
<1> DEFINE l == [by |-> c, id |-> id[c], custom |-> wish[c] # None]
<1>1. id[c] \in 1..MaxId
  BY TypesOf
<1>2. (wish[c] # None) \in BOOLEAN
  OBVIOUS
<1>3. l \in Link
  BY <1>1, <1>2, Zenon DEF Link
<1>4. l # None
  BY <1>3, SlugAssumption
<1> QED BY <1>3, <1>4

(* The row appears: its id and its slug are its own. *)
LEMMA CommitStep ==
    ASSUME SlugInv, NEW c \in Creators, CommitLink(c)
    PROVE  SlugInv'
<1> USE SlugAssumption
<1>0. SlugTypeOK
  BY DEF SlugInv
<1> DEFINE s == row[c]
           l == [by |-> c, id |-> id[c], custom |-> wish[c] # None]
<1>1. /\ stage[c] = "commit" /\ s = Slug(c) /\ s \in Slugs /\ link[s] = None
      /\ 1 <= id[c] /\ id[c] <= lastId /\ id[c] <= MaxId /\ id[c] \in Int
      /\ wish[c] = None => id[c] < Modulus
  BY <1>0, TypesOf DEF CommitLink, SlugInv, Holds, Numbered, Open
<1>2. l \in Link /\ l # None /\ l.id = id[c] /\ (l.custom <=> wish[c] # None)
  BY <1>0, <1>1, RowOfCommit
<1>3. link' = [link EXCEPT ![s] = l]
  BY DEF CommitLink
<1> HIDE DEF s, l
<1>4. /\ link'[s] = l /\ \A t \in Slugs : t # s => link'[t] = link[t]
      /\ stage'[c] = "commitSent" /\ row'[c] = None /\ got'[c] = s /\ s # None
      /\ \A d \in Creators : d # c => stage'[d] = stage[d] /\ row'[d] = row[d] /\ got'[d] = got[d]
      /\ UNCHANGED <<lastId, wish, id, tries, told, met>>
  BY <1>0, <1>1, <1>3 DEF CommitLink, SlugTypeOK, s
<1>5. SlugTypeOK'
  BY <1>0, <1>1, <1>2, <1>3 DEF CommitLink, SlugTypeOK, Stages, s
<1>6. Numbered'
  BY <1>1, <1>2, <1>4 DEF SlugInv, Numbered, Open
<1>7. IdNamesOneRow'
  BY <1>1, <1>2, <1>4 DEF SlugInv, IdNamesOneRow
<1>8. ASSUME NEW t \in Slugs PROVE NamedById(t)'
  <2>1. CASE t = s
    <3>1. wish[c] = None => id[c] \in 1..(Modulus - 1) /\ s = SlugOf(id[c])
      BY <1>0, <1>1, TypesOf DEF Slug
    <3> QED BY <1>2, <1>4, <2>1, <3>1 DEF NamedById
  <2>2. CASE t # s
    BY <1>4, <2>2 DEF SlugInv, NamedById
  <2> QED BY <2>1, <2>2
<1>9. ASSUME NEW d \in Creators PROVE Holds(d)'
  <2>1. CASE d = c
    BY <1>4, <2>1 DEF Holds
  <2>2. CASE d # c
    <3>1. row[d] # s \/ row[d] = None
      BY <1>1, <2>2 DEF SlugInv, Holds, s
    <3> QED BY <1>4, <2>2, <3>1 DEF SlugInv, Holds, Slug
  <2> QED BY <2>1, <2>2
<1>10. ASSUME NEW d \in Creators PROVE Told(d)' /\ Attempted(d)'
  BY <1>1, <1>4 DEF SlugInv, Told, Attempted
<1> QED BY <1>5, <1>6, <1>7, <1>8, <1>9, <1>10 DEF SlugInv

(* A row that goes frees its slug; its id is not used again. *)
LEMMA DeleteStep ==
    ASSUME SlugInv, NEW s \in Slugs, DeleteLink(s)
    PROVE  SlugInv'
<1>1. /\ link'[s] = None /\ \A t \in Slugs : t # s => link'[t] = link[t]
      /\ UNCHANGED <<lastId, stage, wish, id, row, tries, told, got, met>>
  BY DEF DeleteLink, SlugInv, SlugTypeOK
<1>2. SlugTypeOK'
  BY DEF DeleteLink, SlugInv, SlugTypeOK
<1>3. IdNamesOneRow' /\ Numbered'
  BY <1>1 DEF SlugInv, IdNamesOneRow, Numbered, Open
<1>4. \A t \in Slugs : NamedById(t)'
  BY <1>1 DEF SlugInv, NamedById
<1>5. ASSUME NEW c \in Creators PROVE Holds(c)' /\ Told(c)' /\ Attempted(c)'
  BY <1>1 DEF SlugInv, Holds, Told, Attempted, Slug
<1> QED BY <1>2, <1>3, <1>4, <1>5 DEF SlugInv

(* The answers: no slug for the id, a lost or a good COMMIT, an abort. *)
LEMMA AnswerStep ==
    ASSUME SlugInv, NEW c \in Creators, NoSlug(c) \/ Created(c) \/ Abort(c)
    PROVE  SlugInv'
<1>0. SlugTypeOK /\ Attempted(c) /\ stage[c] # "done"
  BY DEF SlugInv, NoSlug, Created, Abort
<1>1. PICK a \in {"created", "error"} : Finish(c, a)
  BY DEF NoSlug, Created, Abort
<1>2. UNCHANGED <<link, lastId, wish, id, tries, got, met>>
  BY DEF NoSlug, Created, Abort
<1>3. a \in Answers /\ a # "conflict"
  BY DEF Answers
<1>4. SlugTypeOK'
  BY <1>0, <1>1, <1>2, <1>3 DEF Finish, SlugTypeOK, Stages
<1>5. met' \in [Creators -> SUBSET (1..MaxId)] /\ \A i \in met'[c] : i <= lastId
  BY <1>0, <1>2 DEF SlugInv, Numbered, SlugTypeOK
<1>6. IsFiniteSet(met'[c]) /\ Cardinality(met'[c]) = tries'[c]
  BY <1>0, <1>2 DEF Attempted
<1> QED BY <1>0, <1>1, <1>2, <1>3, <1>4, <1>5, <1>6, FinishStep

(* Every step keeps it. *)
LEMMA SlugKeeps ==
    ASSUME SlugInv, [SlugNext]_slugVars
    PROVE  SlugInv'
<1>1. CASE UNCHANGED slugVars
  BY <1>1 DEF slugVars, SlugInv, SlugTypeOK, IdNamesOneRow, Numbered, NamedById, Holds, Told, Attempted, Slug
<1>2. ASSUME NEW c \in Creators, NEW s \in Slugs \cup {None}, Ask(c, s) PROVE SlugInv'
  BY <1>2, AskStep
<1>3. ASSUME NEW c \in Creators, SlugStep(c) \/ Abort(c) PROVE SlugInv'
  BY <1>3, ReserveStep, InsertStep, TakenStep, CommitStep, AnswerStep DEF SlugStep
<1>4. ASSUME NEW s \in Slugs, DeleteLink(s) PROVE SlugInv'
  BY <1>4, DeleteStep
<1> QED BY <1>1, <1>2, <1>3, <1>4 DEF SlugNext

(* The inductive invariant holds in every state. *)
LEMMA SlugInvariant == SlugSpec => []SlugInv
<1>1. SlugInit => SlugInv
  BY SlugStarts
<1>2. SlugInv /\ [SlugNext]_slugVars => SlugInv'
  BY SlugKeeps
<1> QED BY <1>1, <1>2, PTL DEF SlugSpec

-----------------------------------------------------------------------------
(* Requests, transactions and rows keep to their states, at any size       *)
(* (CreateURL as modelled).                                                *)
THEOREM SlugTyped == SlugSpec => []SlugTypeOK
<1>1. SlugInv => SlugTypeOK
  BY DEF SlugInv
<1> QED BY <1>1, SlugInvariant, PTL

(* Two generated slugs are those of two ids, and so differ. *)
LEMMA OnlyCustomMet ==
    ASSUME SlugInv
    PROVE  GeneratedMeetsCustom
<1> SUFFICES ASSUME NEW c \in Creators, CanInsert(c), wish[c] = None
             PROVE  /\ link[Slug(c)] # None => link[Slug(c)].custom
                    /\ \A d \in Creators : d # c /\ row[d] = Slug(c) => wish[d] # None
  BY DEF GeneratedMeetsCustom
<1>0. SlugTypeOK /\ IdNamesOneRow /\ stage[c] = "insert"
  BY DEF SlugInv, CanInsert
<1>1. Slug(c) \in Slugs /\ id[c] \in 1..(Modulus - 1) /\ Slug(c) = SlugOf(id[c])
  BY SlugToInsert
<1>2. ASSUME link[Slug(c)] # None, ~link[Slug(c)].custom PROVE FALSE
  <2>1. link[Slug(c)].id \in 1..(Modulus - 1) /\ Slug(c) = SlugOf(link[Slug(c)].id)
    BY <1>1, <1>2 DEF SlugInv, NamedById
  <2>2. link[Slug(c)].id = id[c]
    BY <1>1, <2>1, SlugsOfIds
  <2> QED BY <1>0, <1>1, <1>2, <2>2 DEF IdNamesOneRow
<1>3. ASSUME NEW d \in Creators, d # c, row[d] = Slug(c), wish[d] = None PROVE FALSE
  <2>1. stage[d] = "commit" /\ row[d] = Slug(d) /\ id[d] < Modulus /\ 1 <= id[d]
    BY <1>1, <1>3, SlugAssumption DEF SlugInv, Holds, Numbered, Open
  <2>2. id[d] \in 1..(Modulus - 1) /\ Slug(d) = SlugOf(id[d])
    BY <1>0, <1>3, <2>1, TypesOf DEF Slug
  <2>3. id[d] = id[c]
    BY <1>1, <1>3, <2>1, <2>2, SlugsOfIds
  <2> QED BY <1>0, <1>3, <2>1, <2>3 DEF IdNamesOneRow
<1> QED BY <1>2, <1>3

(* Slugs at any size: an id names one row, generated slugs meet custom     *)
(* ones only, and a refusal has used up its attempts (insertGenerated).    *)
THEOREM SlugsStayAllocated == SlugSpec => []SlugsAreAllocated
<1>1. SlugInv => SlugsAreAllocated
  <2>1. SlugInv => IdNamesOneRow /\ GeneratedMeetsCustom
    BY OnlyCustomMet DEF SlugInv
  <2>2. SlugInv => RefusedAfterAttempts
    BY DEF SlugInv, Attempted, RefusedAfterAttempts
  <2> QED BY <2>1, <2>2 DEF SlugsAreAllocated
<1> QED BY <1>1, SlugInvariant, PTL

-----------------------------------------------------------------------------
(* The directory. *)
Owner(s) == IF link[s] = None THEN None ELSE link[s].by

(* A COMMIT is a claim, an answer a reply, a deleted row a release; the    *)
(* rest the directory does not see.                                        *)
LEMMA DirectoryStep ==
    ASSUME SlugInv, [SlugNext]_slugVars
    PROVE  [Directory!DirNext]_(Directory!dirVars)
<1> USE SlugAssumption
<1>0. SlugTypeOK
  BY DEF SlugInv
<1>1. ASSUME UNCHANGED <<link, got, told>> PROVE UNCHANGED Directory!dirVars
  BY <1>1 DEF Directory!dirVars
<1>2. ASSUME NEW c \in Creators, CommitLink(c) PROVE Directory!DirNext
  <2> DEFINE s == row[c]
             l == [by |-> c, id |-> id[c], custom |-> wish[c] # None]
  <2>1. stage[c] = "commit" /\ s \in Slugs /\ link[s] = None /\ got[c] = None /\ told[c] = None
    BY <1>2 DEF CommitLink, SlugInv, Holds, Told
  <2>2. l \in Link /\ l # None /\ l.by = c
    BY <1>0, <2>1, RowOfCommit DEF SlugInv, Numbered, Open
  <2>3. link' = [link EXCEPT ![s] = l] /\ got' = [got EXCEPT ![c] = s] /\ told' = told
    BY <1>2 DEF CommitLink
  <2> HIDE DEF s, l
  <2>4. \A t \in Slugs : Owner(t)' = IF t = s THEN c ELSE Owner(t)
    BY <1>0, <2>1, <2>2, <2>3 DEF Owner, SlugTypeOK
  <2>5. [t \in Slugs |-> Owner(t)'] = [[t \in Slugs |-> Owner(t)] EXCEPT ![s] = c]
    BY <2>1, <2>4
  <2>6. PICK t \in Slugs : t = s
    BY <2>1
  <2>7. Directory!Claim(c, t)
    BY <2>1, <2>3, <2>5, <2>6 DEF Directory!Claim, Owner
  <2> QED BY <2>7 DEF Directory!DirNext
<1>3. ASSUME NEW c \in Creators, NEW a \in Answers, Finish(c, a), told[c] = None,
             a = "created" => got[c] # None, a = "conflict" => got[c] = None,
             UNCHANGED <<link, got>>
      PROVE  Directory!DirNext
  <2>1. Directory!Reply(c)
    BY <1>3 DEF Directory!Reply, Finish, Answers
  <2> QED BY <2>1 DEF Directory!DirNext
<1>4. ASSUME NEW s \in Slugs, DeleteLink(s) PROVE Directory!DirNext
  <2>1. link[s] # None /\ link' = [link EXCEPT ![s] = None] /\ UNCHANGED <<got, told>>
    BY <1>4 DEF DeleteLink
  <2>2. Owner(s) # None
    BY <1>0, <2>1, TypesOf DEF Owner
  <2>3. \A t \in Slugs : Owner(t)' = IF t = s THEN None ELSE Owner(t)
    BY <1>0, <2>1 DEF Owner, SlugTypeOK
  <2>4. [t \in Slugs |-> Owner(t)'] = [[t \in Slugs |-> Owner(t)] EXCEPT ![s] = None]
    BY <2>3
  <2>5. Directory!Release(s)
    BY <2>1, <2>2, <2>4 DEF Directory!Release, Owner
  <2> QED BY <2>5 DEF Directory!DirNext
<1>5. ASSUME NEW c \in Creators, Taken(c) PROVE [Directory!DirNext]_(Directory!dirVars)
  <2>1. CASE Finish(c, "conflict")
    BY <1>3, <1>5, <2>1 DEF Taken, CanInsert, SlugInv, Told, Answers
  <2>2. CASE UNCHANGED <<row, told>>
    BY <1>1, <1>5, <2>2 DEF Taken
  <2> QED BY <1>5, <2>1, <2>2 DEF Taken
<1>6. ASSUME NEW c \in Creators, NoSlug(c) \/ Created(c) \/ Abort(c) PROVE Directory!DirNext
  <2>1. PICK a \in {"created", "error"} : Finish(c, a) /\ (a = "created" => stage[c] = "commitSent")
    BY <1>6 DEF NoSlug, Created, Abort
  <2>2. stage[c] # "done" /\ UNCHANGED <<link, got>>
    BY <1>6 DEF NoSlug, Created, Abort
  <2> QED BY <1>3, <2>1, <2>2 DEF SlugInv, Told, Answers
<1>7. ASSUME NEW c \in Creators, Reserve(c) \/ Insert(c) \/ \E s \in Slugs \cup {None} : Ask(c, s)
      PROVE  UNCHANGED Directory!dirVars
  BY <1>1, <1>7 DEF Reserve, Insert, Ask
<1>8. CASE UNCHANGED slugVars
  BY <1>1, <1>8 DEF slugVars
<1> QED BY <1>2, <1>4, <1>5, <1>6, <1>7, <1>8 DEF SlugNext, SlugStep

(* Creating links implements the directory, whoever waits, aborts or loses *)
(* its answer: a slug has one owner, and what is told agrees with it.      *)
THEOREM KeepsDirectory == SlugSpec => ImplementsDirectory
<1>1. SlugInit => Directory!DirInit
  BY DEF SlugInit, Directory!DirInit
<1>2. SlugInv /\ [SlugNext]_slugVars => [Directory!DirNext]_(Directory!dirVars)
  BY DirectoryStep
<1> QED BY <1>1, <1>2, SlugInvariant, PTL DEF SlugSpec, ImplementsDirectory, Directory!DirSpec

-----------------------------------------------------------------------------
(* Saving bookmarks. *)

(* Induction up to a number, for the members of a set. *)
LEMMA UpTo ==
    ASSUME NEW n \in Nat, NEW G, 0 \in G, \A k \in 0..n : k < n /\ k \in G => k + 1 \in G
    PROVE  \A k \in 0..n : k \in G
<1> DEFINE bad == {k \in 0..n : k \notin G}
<1> SUFFICES ASSUME bad # {} PROVE FALSE
  OBVIOUS
<1>1. bad \subseteq Nat
  OBVIOUS
<1> HIDE DEF bad
<1>2. PICK k \in bad : \A j \in bad : ~(<<j, k>> \in OpToRel(<, Nat))
  BY <1>1, NatLessThanWellFounded, WFMin
<1>3. k \in 0..n /\ k \notin G
  BY <1>2 DEF bad
<1>4. k # 0 /\ k - 1 \in 0..n /\ k - 1 < n /\ k - 1 < k /\ k - 1 \in Nat /\ k \in Nat
  BY <1>3
<1>5. k - 1 \in G
  <2>1. <<k - 1, k>> \in OpToRel(<, Nat)
    BY <1>4 DEF OpToRel
  <2>2. k - 1 \notin bad
    BY <1>2, <2>1
  <2> QED BY <1>4, <2>2 DEF bad
<1>6. k - 1 + 1 = k
  BY <1>3
<1> QED BY <1>3, <1>4, <1>5, <1>6

Add(unique, n) == IF Contains(unique, n) THEN unique ELSE Append(unique, n)
Folds(f, s, n) ==
    f = [t \in SUBSET (1..n) |-> IF t = {} THEN <<>> ELSE Add(f[t \ {Max(t)}], s[Max(t)])]

(* The greatest of the first numbers, and of a set with the last of them. *)
LEMMA GreatestIs ==
    ASSUME NEW n \in Nat, NEW t \in SUBSET (1..(n + 1)), n + 1 \in t
    PROVE  Max(t) = n + 1
<1>1. \A y \in t : y \in Int /\ n + 1 >= y
  OBVIOUS
<1>2. \E x \in t : \A y \in t : x >= y
  BY <1>1
<1>3. Max(t) \in t /\ \A y \in t : Max(t) >= y
  BY <1>2 DEF Max
<1> DEFINE m == Max(t)
<1>4. m \in Int /\ n + 1 >= m /\ m >= n + 1
  BY <1>1, <1>3
<1> HIDE DEF m
<1>5. m = n + 1
  BY <1>4
<1> QED BY <1>5 DEF m

(* A set of the first numbers has a greatest. *)
LEMMA GreatestIn ==
    ASSUME NEW n \in Nat
    PROVE  \A t \in SUBSET (1..n) : t # {} => Max(t) \in t
<1> DEFINE G == {k \in 0..n : \A t \in SUBSET (1..k) : t # {} => Max(t) \in t}
<1>1. 0 \in G
  <2>1. 1..0 = {} /\ 0 \in 0..n
    OBVIOUS
  <2>2. \A t \in SUBSET (1..0) : t # {} => Max(t) \in t
    BY <2>1
  <2> QED BY <2>1, <2>2
<1>2. ASSUME NEW k \in 0..n, k < n, k \in G PROVE k + 1 \in G
  <2>1. ASSUME NEW t \in SUBSET (1..(k + 1)), t # {} PROVE Max(t) \in t
    <3>1. CASE k + 1 \in t
      BY <2>1, <3>1, GreatestIs
    <3>2. CASE k + 1 \notin t
      <4>1. t \in SUBSET (1..k)
        BY <2>1, <3>2
      <4> QED BY <1>2, <2>1, <4>1
    <3> QED BY <3>1, <3>2
  <2> QED BY <1>2, <2>1
<1> HIDE DEF G
<1>3. n \in G
  BY <1>1, <1>2, UpTo
<1> QED BY <1>3 DEF G

(* There is a function that adds the names one by one, in order. *)
LEMMA FoldExists ==
    ASSUME NEW s, NEW n \in Nat
    PROVE  \E f : Folds(f, s, n)
<1> DEFINE G == {k \in 0..n : \E f : Folds(f, s, k)}
<1>1. 0 \in G
  <2> DEFINE f == [t \in SUBSET (1..0) |-> <<>>]
  <2>1. \A t \in SUBSET (1..0) : t = {}
    OBVIOUS
  <2>2. Folds(f, s, 0)
    BY <2>1 DEF Folds
  <2> QED BY <2>2
<1>2. ASSUME NEW k \in 0..n, k < n, k \in G PROVE k + 1 \in G
  <2>1. PICK f : Folds(f, s, k)
    BY <1>2
  <2> DEFINE g == [t \in SUBSET (1..(k + 1)) |-> IF k + 1 \in t THEN Add(f[t \ {k + 1}], s[k + 1]) ELSE f[t]]
  <2>2. ASSUME NEW t \in SUBSET (1..(k + 1))
        PROVE  g[t] = IF t = {} THEN <<>> ELSE Add(g[t \ {Max(t)}], s[Max(t)])
    <3>1. CASE k + 1 \in t
      <4>1. Max(t) = k + 1
        BY <3>1, GreatestIs
      <4>2. t \ {k + 1} \in SUBSET (1..(k + 1)) /\ k + 1 \notin t \ {k + 1}
        OBVIOUS
      <4>3. g[t \ {k + 1}] = f[t \ {k + 1}]
        BY <4>2
      <4> QED BY <3>1, <4>1, <4>3
    <3>2. CASE k + 1 \notin t
      <4>1. t \in SUBSET (1..k)
        BY <3>2
      <4>2. f[t] = IF t = {} THEN <<>> ELSE Add(f[t \ {Max(t)}], s[Max(t)])
        BY <2>1, <4>1 DEF Folds
      <4>3. t # {} => g[t \ {Max(t)}] = f[t \ {Max(t)}]
        BY <3>2
      <4> QED BY <3>2, <4>2, <4>3
    <3> QED BY <3>1, <3>2
  <2>3. g = [t \in SUBSET (1..(k + 1)) |-> g[t]]
    OBVIOUS
  <2> HIDE DEF g
  <2>4. Folds(g, s, k + 1)
    BY <2>2, <2>3 DEF Folds
  <2> QED BY <1>2, <2>4
<1> HIDE DEF G
<1>3. n \in G
  BY <1>1, <1>2, UpTo
<1> QED BY <1>3 DEF G

(* The unique names are the names, whatever the list. *)
LEMMA UniqueAreAll ==
    ASSUME NEW N, NEW s \in Seq(N)
    PROVE  UniqueTagNames(s) \in Seq(N) /\ Range(UniqueTagNames(s)) = Range(s)
<1> DEFINE n == Len(s)
           iter == CHOOSE iter : iter = [t \in SUBSET (1..n) |-> IF t = {} THEN <<>> ELSE Add(iter[t \ {Max(t)}], s[Max(t)])]
<1>1. DOMAIN s = 1..n /\ n \in Nat
  OBVIOUS
<1>2. UniqueTagNames(s) = iter[1..n]
  BY <1>1 DEF UniqueTagNames, FoldLeft, MapThenFoldSet, Add
<1>3. PICK f : Folds(f, s, n)
  BY <1>1, FoldExists
<1>4. Folds(iter, s, n)
  BY <1>3 DEF Folds
<1> HIDE DEF iter, n
<1> DEFINE G == {k \in 0..n : iter[1..k] \in Seq(N) /\ Range(iter[1..k]) = {s[i] : i \in 1..k}}
<1>5. 0 \in G
  <2>1. 1..0 = {} /\ 0 \in 0..n /\ 1..0 \in SUBSET (1..n)
    BY <1>1
  <2>2. iter[{}] = <<>>
    BY <1>4, <2>1 DEF Folds
  <2>3. Range(<<>>) = {} /\ <<>> \in Seq(N)
    BY DEF Range
  <2>4. {s[i] : i \in 1..0} = {}
    OBVIOUS
  <2>5. iter[1..0] = <<>>
    BY <2>1, <2>2
  <2>6. iter[1..0] \in Seq(N) /\ Range(iter[1..0]) = {s[i] : i \in 1..0}
    BY <2>3, <2>4, <2>5
  <2> QED BY <2>1, <2>6
<1>6. ASSUME NEW k \in 0..n, k < n, k \in G PROVE k + 1 \in G
  <2>1. k \in Nat /\ 1..(k + 1) \in SUBSET (1..n) /\ 1..(k + 1) # {} /\ k + 1 \in 1..(k + 1) /\ k + 1 \in 0..n /\ k + 1 \in 1..n
    <3>1. k \in Nat /\ n \in Nat /\ k + 1 <= n
      BY <1>1, <1>6
    <3>2. k + 1 \in 1..(k + 1) /\ k + 1 \in 0..n /\ k + 1 \in 1..n
      BY <3>1
    <3>3. \A i \in 1..(k + 1) : i \in 1..n
      BY <3>1
    <3> QED BY <3>1, <3>2, <3>3
  <2>2. Max(1..(k + 1)) = k + 1 /\ (1..(k + 1)) \ {k + 1} = 1..k
    BY <2>1, GreatestIs
  <2>3. iter[1..(k + 1)] = Add(iter[1..k], s[k + 1])
    BY <1>4, <2>1, <2>2 DEF Folds
  <2> DEFINE u == iter[1..k]
             a == s[k + 1]
  <2>4. u \in Seq(N) /\ Range(u) = {s[i] : i \in 1..k} /\ a \in N
    BY <1>1, <1>6, <2>1
  <2>5. {s[i] : i \in 1..(k + 1)} = {s[i] : i \in 1..k} \cup {a}
    BY <2>1
  <2> HIDE DEF u, a
  <2>6. Add(u, a) \in Seq(N) /\ Range(Add(u, a)) = Range(u) \cup {a}
    <3>1. CASE Contains(u, a)
      <4>1. a \in Range(u)
        BY <2>4, <3>1 DEF Contains, Range
      <4> QED BY <2>4, <3>1, <4>1 DEF Add
    <3>2. CASE ~Contains(u, a)
      <4>1. Add(u, a) = Append(u, a)
        BY <3>2 DEF Add
      <4>2. Range(Append(u, a)) = Range(u) \cup {a}
        <5>1. Len(Append(u, a)) = Len(u) + 1 /\ DOMAIN Append(u, a) = 1..(Len(u) + 1) /\ DOMAIN u = 1..Len(u) /\ Len(u) \in Nat
          BY <2>4
        <5>2. \A i \in 1..Len(u) : Append(u, a)[i] = u[i]
          BY <2>4
        <5>3. Append(u, a)[Len(u) + 1] = a
          BY <2>4
        <5>4. 1..(Len(u) + 1) = (1..Len(u)) \cup {Len(u) + 1}
          BY <5>1
        <5> QED BY <5>1, <5>2, <5>3, <5>4 DEF Range
      <4> QED BY <2>4, <4>1, <4>2
    <3> QED BY <3>1, <3>2
  <2> QED BY <2>1, <2>3, <2>4, <2>5, <2>6 DEF u, a
<1> HIDE DEF G
<1>7. n \in G
  BY <1>1, <1>5, <1>6, UpTo
<1>8. Range(s) = {s[i] : i \in 1..n}
  BY <1>1 DEF Range
<1> QED BY <1>2, <1>7, <1>8 DEF G

-----------------------------------------------------------------------------
Users == {w.user : w \in Wishes}
Urls  == {w.url : w \in Wishes}
Marks == [by : Savers, user : Users, url : Urls, names : SUBSET Names, category : CategoryIds \cup {None}]

RowsTyped ==
    /\ tags \subseteq [user : Users, name : Names]
    /\ marks \subseteq Marks /\ cats \subseteq CategoryIds /\ saved \subseteq Savers
    /\ save \in [Savers -> Wishes \cup {NoWish}]
    /\ step \in [Savers -> Steps]
    /\ todo \in [Savers -> Seq(Names)]
    /\ mine \in [Savers -> SUBSET Names] /\ found \in [Savers -> SUBSET Names]
    /\ reply \in [Savers -> {0, 201, 400, 409, 500}]

Asked(r) == Range(save[r].tags)

(* What a saver has in hand at each statement of its transaction. *)
InHand(r) ==
    /\ step[r] = "new" => mine[r] = {} /\ found[r] = {} /\ reply[r] = 0 /\ r \notin saved
    /\ step[r] # "new" => save[r] \in Wishes
    /\ step[r] = "tags" =>
          /\ Range(todo[r]) \subseteq Asked(r)
          /\ \A n \in Asked(r) : HasTag(r, n) \/ n \in mine[r] \cup Range(todo[r])
    /\ step[r] \in {"tags", "insert", "link", "commit"} => mine[r] \subseteq Asked(r) /\ r \notin saved
    /\ step[r] \in {"insert", "link", "commit"} => found[r] = Asked(r)

(* A row that is inserted and not committed: no other has its address, and *)
(* its category stays.                                                     *)
Opened(r) == step[r] \in {"link", "commit"} => ~Committed(r) /\ CategoryFits(r)
OneUrl ==
    \A r, d \in Savers : step[r] \in {"link", "commit"} /\ step[d] \in {"link", "commit"}
                           /\ User(r) = User(d) /\ save[r].url = save[d].url => r = d

(* A bookmark is what its saver asked for. *)
MarkIsAsked ==
    \A m \in marks : m.by \in saved /\ m.user = User(m.by) /\ m.url = save[m.by].url /\ m.names = Asked(m.by)

SaversIn == \A r \in Savers : InHand(r) /\ Opened(r)
TagInv == RowsTyped /\ SaversIn /\ OneUrl /\ MarkIsAsked /\ NoClutter /\ UrlSavedOnce /\ FiledUnderOwn

(* The other savers, and what was saved before: a step of one saver leaves *)
(* them alone, as long as it only adds tags and no row of theirs.          *)
LEMMA OtherSavers ==
    ASSUME RowsTyped, NEW d \in Savers, InHand(d), Opened(d), tags \subseteq tags',
           save'[d] = save[d], step'[d] = step[d], todo'[d] = todo[d], mine'[d] = mine[d],
           found'[d] = found[d], reply'[d] = reply[d], d \in saved' <=> d \in saved,
           step[d] \in {"link", "commit"} => ~Committed(d)' /\ CategoryFits(d)'
    PROVE  InHand(d)' /\ Opened(d)'
<1>1. Asked(d)' = Asked(d) /\ \A n : HasTag(d, n) => HasTag(d, n)'
  BY DEF Asked, HasTag, User
<1>2. InHand(d)'
  BY <1>1 DEF InHand
<1>3. Opened(d)'
  BY DEF Opened
<1> QED BY <1>2, <1>3

(* A step of one saver, by what must be shown of that saver alone. *)
LEMMA SaverAlone ==
    ASSUME TagInv, RowsTyped', NEW r \in Savers, UNCHANGED <<tags, marks, cats, saved>>,
           \A d \in Savers : d # r =>
               /\ save'[d] = save[d] /\ step'[d] = step[d] /\ todo'[d] = todo[d] /\ mine'[d] = mine[d]
               /\ found'[d] = found[d] /\ reply'[d] = reply[d],
           save'[r] = save[r] \/ step[r] = "new",
           InHand(r)', Opened(r)', OneUrl',
           reply'[r] = 409 => \E d \in saved \ {r} : User(d)' = User(r)' /\ save'[d].url = save'[r].url
    PROVE  TagInv'
<1> USE DEF TagInv
<1>1. \A d \in saved : save'[d] = save[d]
  BY DEF SaversIn, InHand, RowsTyped
<1>2. SaversIn'
  <2>1. ASSUME NEW d \in Savers, d # r PROVE InHand(d)' /\ Opened(d)'
    <3>1. step[d] \in {"link", "commit"} => ~Committed(d)' /\ CategoryFits(d)'
      BY <2>1 DEF SaversIn, Opened, Committed, CategoryFits, User
    <3> QED BY <2>1, <3>1, OtherSavers DEF SaversIn
  <2> QED BY <2>1 DEF SaversIn
<1>3. MarkIsAsked'
  BY <1>1 DEF MarkIsAsked, User, Asked
<1>4. NoClutter'
  BY <1>1 DEF NoClutter, User
<1>5. UrlSavedOnce'
  <2>1. ASSUME NEW q \in Savers, reply'[q] = 409
        PROVE  \E d \in saved \ {q} : User(d)' = User(q)' /\ save'[d].url = save'[q].url
    <3>1. CASE q = r
      BY <2>1, <3>1
    <3>2. CASE q # r
      <4>1. reply[q] = 409 /\ save'[q] = save[q]
        BY <2>1, <3>2
      <4>2. PICK d \in saved \ {q} : User(d) = User(q) /\ save[d].url = save[q].url
        BY <4>1 DEF UrlSavedOnce
      <4> QED BY <1>1, <4>1, <4>2 DEF User
    <3> QED BY <3>1, <3>2
  <2> QED BY <2>1 DEF UrlSavedOnce
<1>6. FiledUnderOwn'
  BY DEF FiledUnderOwn
<1> QED BY <1>2, <1>3, <1>4, <1>5, <1>6

(* A request is read. *)
LEMMA SaveKeeps ==
    ASSUME TagInv, NEW r \in Savers, NEW w \in Wishes, Save(r, w)
    PROVE  TagInv'
<1> USE DEF TagInv
<1> DEFINE u == UniqueTagNames(w.tags)
<1>1. w.tags \in Seq(Range(w.tags)) /\ Range(w.tags) \subseteq Names
  BY TagAssumption DEF Names
<1>2. u \in Seq(Range(w.tags)) /\ Range(u) = Range(w.tags) /\ u \in Seq(Names)
  <2>1. u \in Seq(Range(w.tags)) /\ Range(u) = Range(w.tags)
    BY <1>1, UniqueAreAll
  <2> HIDE DEF u
  <2> QED BY <1>1, <2>1
<1> DEFINE s == IF w.tags = <<>> THEN "insert" ELSE "tags"
<1>3. /\ step[r] = "new" /\ save' = [save EXCEPT ![r] = w] /\ todo' = [todo EXCEPT ![r] = u]
      /\ step' = [step EXCEPT ![r] = s]
      /\ UNCHANGED <<tags, marks, cats, mine, found, reply, saved>>
  BY DEF Save
<1> HIDE DEF u
<1>4. RowsTyped'
  BY <1>2, <1>3 DEF RowsTyped, Steps
<1>5. save'[r] = w /\ todo'[r] = u /\ step'[r] = s /\ mine'[r] = {} /\ r \notin saved
  BY <1>3 DEF RowsTyped, SaversIn, InHand
<1>6. found'[r] = {}
  BY <1>3 DEF SaversIn, InHand
<1>7. InHand(r)'
  <2>1. Asked(r)' = Range(w.tags)
    BY <1>5 DEF Asked
  <2>2. CASE s = "tags"
    BY <1>2, <1>3, <1>5, <2>1, <2>2 DEF InHand
  <2>3. CASE w.tags = <<>>
    <3>1. Asked(r)' = {}
      BY <2>1, <2>3 DEF Range
    <3>2. step'[r] = "insert" /\ save'[r] \in Wishes /\ r \notin saved'
      BY <1>3, <1>5, <2>3
    <3> QED BY <1>5, <1>6, <3>1, <3>2 DEF InHand
  <2> QED BY <2>2, <2>3
<1>8. Opened(r)' /\ OneUrl'
  <2>1. Opened(r)'
    BY <1>5 DEF Opened
  <2>2. OneUrl'
    BY <1>3, <1>5 DEF OneUrl, RowsTyped, User
  <2> QED BY <2>1, <2>2
<1>9. reply'[r] # 409
  BY <1>3 DEF SaversIn, InHand
<1> QED BY <1>3, <1>4, <1>5, <1>7, <1>8, <1>9, SaverAlone DEF RowsTyped

(* INSERT ... ON CONFLICT DO NOTHING, for each tag. *)
LEMMA EnsureKeeps == ASSUME TagInv, NEW r \in Savers, EnsureTag(r) PROVE TagInv'
<1> USE DEF TagInv
<1> DEFINE n == Head(todo[r])
           own == IF HasTag(r, n) THEN mine[r] ELSE mine[r] \cup {n}
<1>1. /\ step[r] = "tags" /\ todo[r] # <<>>
      /\ todo' = [todo EXCEPT ![r] = Tail(todo[r])] /\ mine' = [mine EXCEPT ![r] = own]
      /\ UNCHANGED <<tags, marks, cats, save, step, found, reply, saved>>
  BY DEF EnsureTag
<1>2. todo[r] \in Seq(Names) /\ mine[r] \subseteq Names
  BY DEF RowsTyped
<1>3. n \in Range(todo[r]) /\ n \in Names /\ Tail(todo[r]) \in Seq(Names)
      /\ Range(todo[r]) = {n} \cup Range(Tail(todo[r]))
  <2>1. Len(todo[r]) \in Nat \ {0} /\ DOMAIN todo[r] = 1..Len(todo[r]) /\ n = todo[r][1] /\ n \in Names
    BY <1>1, <1>2
  <2>2. /\ Tail(todo[r]) \in Seq(Names) /\ DOMAIN Tail(todo[r]) = 1..(Len(todo[r]) - 1)
        /\ \A i \in 1..(Len(todo[r]) - 1) : Tail(todo[r])[i] = todo[r][i + 1]
    BY <1>1, <1>2
  <2>3. Range(todo[r]) \subseteq {n} \cup Range(Tail(todo[r]))
    <3>1. ASSUME NEW i \in 1..Len(todo[r]), i # 1 PROVE todo[r][i] \in Range(Tail(todo[r]))
      <4>1. i - 1 \in 1..(Len(todo[r]) - 1) /\ Tail(todo[r])[i - 1] = todo[r][i]
        BY <2>1, <2>2, <3>1
      <4> QED BY <2>2, <4>1 DEF Range
    <3> QED BY <2>1, <3>1 DEF Range
  <2>4. Range(Tail(todo[r])) \subseteq Range(todo[r])
    BY <2>1, <2>2 DEF Range
  <2>5. n \in Range(todo[r])
    <3>1. 1 \in DOMAIN todo[r]
      BY <2>1
    <3> QED BY <2>1, <3>1 DEF Range
  <2> QED BY <2>1, <2>2, <2>3, <2>4, <2>5
<1>4. own \subseteq Names /\ own \subseteq mine[r] \cup {n} /\ mine[r] \subseteq own /\ (HasTag(r, n) \/ n \in own)
  BY <1>2, <1>3
<1> HIDE DEF own, n
<1>5. RowsTyped'
  BY <1>1, <1>3, <1>4 DEF RowsTyped
<1>6. todo'[r] = Tail(todo[r]) /\ mine'[r] = own
  BY <1>1 DEF RowsTyped
<1>7. Asked(r)' = Asked(r) /\ \A m : HasTag(r, m)' <=> HasTag(r, m)
  BY <1>1 DEF Asked, HasTag, User
<1>8. InHand(r)'
  BY <1>1, <1>3, <1>4, <1>6, <1>7 DEF SaversIn, InHand
<1>9. Opened(r)' /\ OneUrl'
  BY <1>1 DEF Opened, OneUrl, User
<1>10. reply'[r] = 409 => \E d \in saved \ {r} : User(d)' = User(r)' /\ save'[d].url = save'[r].url
  BY <1>1 DEF UrlSavedOnce, User
<1> QED BY <1>1, <1>5, <1>8, <1>9, <1>10, SaverAlone DEF RowsTyped

(* The ids of the tags, whoever inserted them. *)
LEMMA SelectTagsKeeps == ASSUME TagInv, NEW r \in Savers, SelectTags(r) PROVE TagInv'
<1> USE DEF TagInv
<1> DEFINE rows == {n \in Asked(r) : HasTag(r, n) \/ n \in mine[r]}
<1>1. /\ step[r] = "tags" /\ todo[r] = <<>>
      /\ found' = [found EXCEPT ![r] = rows] /\ step' = [step EXCEPT ![r] = "insert"]
      /\ UNCHANGED <<tags, marks, cats, save, todo, mine, reply, saved>>
  BY DEF SelectTags, Asked
<1>2. rows = Asked(r) /\ Asked(r) \subseteq Names
  <2>1. Range(todo[r]) = {}
    BY <1>1 DEF Range
  <2>2. \A n \in Asked(r) : HasTag(r, n) \/ n \in mine[r]
    BY <1>1, <2>1 DEF SaversIn, InHand
  <2>3. save[r] \in Wishes
    BY <1>1 DEF SaversIn, InHand
  <2> QED BY <2>2, <2>3 DEF Names, Asked
<1> HIDE DEF rows
<1>3. RowsTyped'
  BY <1>1, <1>2 DEF RowsTyped, Steps
<1>4. found'[r] = Asked(r) /\ step'[r] = "insert" /\ Asked(r)' = Asked(r)
  BY <1>1, <1>2 DEF RowsTyped, Asked
<1>5. InHand(r)'
  BY <1>1, <1>4 DEF SaversIn, InHand
<1>6. Opened(r)' /\ OneUrl'
  BY <1>1, <1>4 DEF Opened, OneUrl, User, RowsTyped
<1>7. reply'[r] = 409 => \E d \in saved \ {r} : User(d)' = User(r)' /\ save'[d].url = save'[r].url
  BY <1>1 DEF UrlSavedOnce, User
<1> QED BY <1>1, <1>3, <1>5, <1>6, <1>7, SaverAlone DEF RowsTyped

(* A request that ends without a commit leaves nothing. *)
LEMMA EndKeeps ==
    ASSUME TagInv, NEW r \in Savers, NEW status \in {400, 409, 500}, End(r, status), step[r] \notin {"new", "done"},
           UNCHANGED <<tags, marks, cats, save, found, saved>>,
           status = 409 => \E d \in saved \ {r} : User(d) = User(r) /\ save[d].url = save[r].url
    PROVE  TagInv'
<1> USE DEF TagInv
<1>1. /\ step' = [step EXCEPT ![r] = "done"] /\ reply' = [reply EXCEPT ![r] = status]
      /\ todo' = [todo EXCEPT ![r] = <<>>] /\ mine' = [mine EXCEPT ![r] = {}]
  BY DEF End
<1>2. RowsTyped'
  BY <1>1 DEF RowsTyped, Steps
<1>3. step'[r] = "done" /\ mine'[r] = {} /\ reply'[r] = status
  BY <1>1 DEF RowsTyped
<1>4. InHand(r)' /\ Opened(r)'
  BY <1>3 DEF SaversIn, InHand, Opened
<1>5. OneUrl'
  BY <1>1, <1>3 DEF OneUrl, RowsTyped, User
<1>6. reply'[r] = 409 => \E d \in saved \ {r} : User(d)' = User(r)' /\ save'[d].url = save'[r].url
  BY <1>3 DEF User
<1> QED BY <1>1, <1>2, <1>4, <1>5, <1>6, SaverAlone DEF RowsTyped

(* The row of the bookmark, or the answer that the address is saved already. *)
LEMMA InsertBookmarkKeeps == ASSUME TagInv, NEW r \in Savers, InsertBookmark(r) PROVE TagInv'
<1> USE DEF TagInv
<1>1. step[r] = "insert" /\ Waits(r) = {} /\ UNCHANGED <<tags, marks, cats, save, found, saved>>
  BY DEF InsertBookmark
<1>2. CASE Committed(r) /\ End(r, 409)
  <2>1. PICK m \in marks : m.user = User(r) /\ m.url = save[r].url
    BY <1>2 DEF Committed
  <2>2. m.by \in saved /\ m.user = User(m.by) /\ m.url = save[m.by].url
    BY DEF MarkIsAsked
  <2>3. r \notin saved
    BY <1>1 DEF SaversIn, InHand
  <2>4. \E d \in saved \ {r} : User(d) = User(r) /\ save[d].url = save[r].url
    BY <2>1, <2>2, <2>3
  <2> QED BY <1>1, <1>2, <2>4, EndKeeps
<1>3. CASE ~CategoryFits(r) /\ End(r, 400)
  BY <1>1, <1>3, EndKeeps
<1>4. CASE ~Committed(r) /\ CategoryFits(r) /\ step' = [step EXCEPT ![r] = "link"] /\ UNCHANGED <<todo, mine, reply>>
  <2>1. RowsTyped'
    BY <1>1, <1>4 DEF RowsTyped, Steps
  <2>2. step'[r] = "link" /\ Asked(r)' = Asked(r)
    BY <1>1, <1>4 DEF RowsTyped, Asked
  <2>3. InHand(r)'
    BY <1>1, <1>4, <2>2 DEF SaversIn, InHand
  <2>4. Opened(r)'
    BY <1>1, <1>4 DEF Opened, Committed, CategoryFits, User
  <2>5. OneUrl'
    <3>1. Waits(r) = {d \in Savers \ {r} : HoldsUrl(d, User(r), save[r].url)}
      BY <1>1 DEF Waits
    <3>2. \A d \in Savers \ {r} : step[d] \in {"link", "commit"} => ~(User(d) = User(r) /\ save[d].url = save[r].url)
      BY <1>1, <3>1 DEF HoldsUrl
    <3>3. \A d \in Savers : d # r => step'[d] = step[d]
      BY <1>4 DEF RowsTyped
    <3> QED BY <1>1, <3>2, <3>3 DEF OneUrl, User
  <2>6. reply'[r] = 409 => \E d \in saved \ {r} : User(d)' = User(r)' /\ save'[d].url = save'[r].url
    BY <1>1, <1>4 DEF UrlSavedOnce, User
  <2> QED BY <1>1, <1>4, <2>1, <2>3, <2>4, <2>5, <2>6, SaverAlone DEF RowsTyped
<1> QED BY <1>2, <1>3, <1>4 DEF InsertBookmark

(* The links to the tags. *)
LEMMA LinkTagsKeeps == ASSUME TagInv, NEW r \in Savers, LinkTags(r) PROVE TagInv'
<1> USE DEF TagInv
<1>1. /\ step[r] = "link" /\ step' = [step EXCEPT ![r] = "commit"]
      /\ UNCHANGED <<tags, marks, cats, save, todo, mine, found, reply, saved>>
  BY DEF LinkTags
<1>2. RowsTyped'
  BY <1>1 DEF RowsTyped, Steps
<1>3. step'[r] = "commit" /\ Asked(r)' = Asked(r)
  BY <1>1 DEF RowsTyped, Asked
<1>4. InHand(r)'
  BY <1>1, <1>3 DEF SaversIn, InHand
<1>5. Opened(r)'
  BY <1>1 DEF SaversIn, Opened, Committed, CategoryFits, User
<1>6. OneUrl'
  <2>1. \A d \in Savers : step'[d] \in {"link", "commit"} <=> step[d] \in {"link", "commit"}
    BY <1>1 DEF RowsTyped
  <2> QED BY <1>1, <2>1 DEF OneUrl, User
<1>7. reply'[r] = 409 => \E d \in saved \ {r} : User(d)' = User(r)' /\ save'[d].url = save'[r].url
  BY <1>1 DEF UrlSavedOnce, User
<1> QED BY <1>1, <1>2, <1>4, <1>5, <1>6, <1>7, SaverAlone DEF RowsTyped

(* COMMIT: the bookmark is there, with the tags that were asked for. *)
LEMMA CommitSaveKeeps == ASSUME TagInv, NEW r \in Savers, CommitSave(r) PROVE TagInv'
<1> USE DEF TagInv
<1>1. PICK status \in {201, 500} :
        /\ step[r] = "commit" /\ marks' = marks \cup {Row(r)} /\ saved' = saved \cup {r}
        /\ tags' = tags \cup {[user |-> User(r), name |-> n] : n \in mine[r]}
        /\ step' = [step EXCEPT ![r] = "done"] /\ reply' = [reply EXCEPT ![r] = status]
        /\ todo' = [todo EXCEPT ![r] = <<>>] /\ mine' = [mine EXCEPT ![r] = {}]
        /\ UNCHANGED <<cats, save, found>>
  <2>1. PICK status \in {201, 500} : End(r, status)
    BY DEF CommitSave
  <2> QED BY <2>1 DEF CommitSave, End
<1>2. /\ save[r] \in Wishes /\ mine[r] \subseteq Asked(r) /\ found[r] = Asked(r) /\ r \notin saved
      /\ ~Committed(r) /\ CategoryFits(r)
  BY <1>1 DEF SaversIn, InHand, Opened
<1>3. /\ Row(r).by = r /\ Row(r).user = User(r) /\ Row(r).url = save[r].url /\ Row(r).names = Asked(r)
      /\ Row(r).category = save[r].category /\ Asked(r) \subseteq Names /\ User(r) \in Users
  BY <1>2 DEF Row, Names, Asked, Users, User
<1>4. RowsTyped'
  <2>1. Row(r) \in Marks
    <3>1. save[r].category \in CategoryIds \cup {None}
      BY <1>2, TagAssumption
    <3> QED BY <1>2, <1>3, <3>1 DEF Row, Marks, Users, Urls, User
  <2>2. tags' \subseteq [user : Users, name : Names]
    BY <1>1, <1>2, <1>3 DEF RowsTyped
  <2> QED BY <1>1, <2>1, <2>2 DEF RowsTyped, Steps
<1>5. step'[r] = "done" /\ mine'[r] = {} /\ reply'[r] # 409 /\ save' = save
  BY <1>1 DEF RowsTyped
<1>6. InHand(r)' /\ Opened(r)'
  BY <1>2, <1>5 DEF InHand, Opened
<1>7. ASSUME NEW d \in Savers, d # r PROVE InHand(d)' /\ Opened(d)'
  <2>1. /\ save'[d] = save[d] /\ step'[d] = step[d] /\ todo'[d] = todo[d] /\ mine'[d] = mine[d]
        /\ found'[d] = found[d] /\ reply'[d] = reply[d] /\ (d \in saved' <=> d \in saved)
    BY <1>1, <1>7 DEF RowsTyped
  <2>2. step[d] \in {"link", "commit"} => ~Committed(d)' /\ CategoryFits(d)'
    <3> SUFFICES ASSUME step[d] \in {"link", "commit"} PROVE ~Committed(d)' /\ CategoryFits(d)'
      OBVIOUS
    <3>1. ~Committed(d) /\ CategoryFits(d)
      BY DEF SaversIn, Opened
    <3>2. ~(User(d) = User(r) /\ save[d].url = save[r].url)
      BY <1>1, <1>7 DEF OneUrl
    <3> QED BY <1>1, <1>3, <3>1, <3>2 DEF Committed, CategoryFits, User
  <2>3. tags \subseteq tags'
    BY <1>1
  <2> QED BY <2>1, <2>2, <2>3, OtherSavers DEF SaversIn
<1>8. OneUrl'
  BY <1>1, <1>5 DEF OneUrl, RowsTyped, User
<1>9. MarkIsAsked'
  BY <1>1, <1>3 DEF MarkIsAsked, User, Asked
<1>10. NoClutter'
  <2> SUFFICES ASSUME NEW t \in tags' PROVE \E d \in saved' : User(d) = t.user /\ t.name \in Range(save[d].tags)
    BY <1>5 DEF NoClutter, User
  <2>1. CASE t \in tags
    BY <1>1, <2>1 DEF NoClutter
  <2>2. CASE t \in {[user |-> User(r), name |-> n] : n \in mine[r]}
    BY <1>1, <1>2, <2>2 DEF Asked
  <2> QED BY <1>1, <2>1, <2>2
<1>11. UrlSavedOnce'
  <2>1. \A m, n \in marks' : m.user = n.user /\ m.url = n.url => m = n
    BY <1>1, <1>2, <1>3 DEF UrlSavedOnce, Committed
  <2>2. ASSUME NEW q \in Savers, reply'[q] = 409
        PROVE  \E d \in saved' \ {q} : User(d)' = User(q)' /\ save'[d].url = save'[q].url
    <3>1. q # r /\ reply[q] = 409
      BY <1>1, <1>5, <2>2 DEF RowsTyped
    <3> QED BY <1>1, <1>5, <3>1 DEF UrlSavedOnce, User
  <2> QED BY <2>1, <2>2 DEF UrlSavedOnce
<1>12. FiledUnderOwn'
  BY <1>1, <1>2, <1>3 DEF FiledUnderOwn, CategoryFits
<1>13. SaversIn'
  BY <1>6, <1>7 DEF SaversIn
<1> QED BY <1>4, <1>8, <1>9, <1>10, <1>11, <1>12, <1>13

(* Rows are deleted and categories come and go: the savers are left alone. *)
LEMMA RowsChange ==
    ASSUME TagInv, UNCHANGED <<tags, save, step, todo, mine, found, reply, saved>>,
           \A r \in Savers : Opened(r)', marks' \subseteq Marks, cats' \subseteq CategoryIds,
           \A m \in marks' : \E n \in marks : m.by = n.by /\ m.user = n.user /\ m.url = n.url /\ m.names = n.names,
           \A m, n \in marks' : m.user = n.user /\ m.url = n.url => m = n,
           FiledUnderOwn'
    PROVE  TagInv'
<1> USE DEF TagInv
<1>1. RowsTyped' /\ OneUrl' /\ NoClutter'
  BY DEF RowsTyped, OneUrl, NoClutter, User
<1>2. \A r \in Savers : InHand(r)'
  BY DEF SaversIn, InHand, HasTag, User, Asked
<1>3. MarkIsAsked'
  BY DEF MarkIsAsked, User, Asked
<1>4. UrlSavedOnce'
  BY DEF UrlSavedOnce, User
<1> QED BY <1>1, <1>2, <1>3, <1>4 DEF SaversIn

(* DeleteBookmark. *)
LEMMA DeleteBookmarkKeeps == ASSUME TagInv, NEW m \in marks, DeleteBookmark(m) PROVE TagInv'
<1>1. /\ marks' = marks \ {m} /\ UNCHANGED <<tags, cats, save, step, todo, mine, found, reply, saved>>
  BY DEF DeleteBookmark
<1>2. \A r \in Savers : Opened(r)'
  BY <1>1 DEF TagInv, SaversIn, Opened, Committed, CategoryFits, User
<1>3. FiledUnderOwn'
  BY <1>1 DEF TagInv, FiledUnderOwn
<1>4. \A k, n \in marks' : k.user = n.user /\ k.url = n.url => k = n
  BY <1>1 DEF TagInv, UrlSavedOnce
<1> QED BY <1>1, <1>2, <1>3, <1>4, RowsChange DEF TagInv, RowsTyped

(* CreateCategory. *)
LEMMA CreateCategoryKeeps == ASSUME TagInv, NEW c \in CategoryIds, CreateCategory(c) PROVE TagInv'
<1>1. /\ cats' = cats \cup {c} /\ UNCHANGED <<tags, marks, save, step, todo, mine, found, reply, saved>>
  BY DEF CreateCategory
<1>2. \A r \in Savers : Opened(r)'
  BY <1>1 DEF TagInv, SaversIn, Opened, Committed, CategoryFits, User
<1>3. FiledUnderOwn'
  BY <1>1 DEF TagInv, FiledUnderOwn
<1>4. \A k, n \in marks' : k.user = n.user /\ k.url = n.url => k = n
  BY <1>1 DEF TagInv, UrlSavedOnce
<1> QED BY <1>1, <1>2, <1>3, <1>4, RowsChange DEF TagInv, RowsTyped

(* DeleteCategory, which unfiles what was filed under it. *)
LEMMA DeleteCategoryKeeps == ASSUME TagInv, NEW c \in CategoryIds, DeleteCategory(c) PROVE TagInv'
<1> DEFINE unfiled(m) == IF m.category = c THEN [m EXCEPT !.category = None] ELSE m
<1>1. /\ cats' = cats \ {c} /\ UNCHANGED <<tags, save, step, todo, mine, found, reply, saved>>
      /\ marks' = {unfiled(m) : m \in marks}
      /\ \A r \in Savers : step[r] \in {"link", "commit"} => save[r].category # c
  BY DEF DeleteCategory
<1>2. \A m \in marks : /\ unfiled(m) \in Marks /\ unfiled(m).by = m.by /\ unfiled(m).user = m.user
                       /\ unfiled(m).url = m.url /\ unfiled(m).names = m.names
                       /\ unfiled(m).category = IF m.category = c THEN None ELSE m.category
  <2> TAKE m \in marks
  <2>1. m \in Marks
    BY DEF TagInv, RowsTyped
  <2> QED BY <2>1 DEF Marks
<1> HIDE DEF unfiled
<1>3. \A r \in Savers : Opened(r)'
  <2> SUFFICES ASSUME NEW r \in Savers, step[r] \in {"link", "commit"} PROVE ~Committed(r)' /\ CategoryFits(r)'
    BY <1>1 DEF Opened
  <2>1. ~Committed(r) /\ CategoryFits(r) /\ save[r].category # c
    BY <1>1 DEF TagInv, SaversIn, Opened
  <2>2. ~Committed(r)'
    BY <1>1, <1>2, <2>1 DEF Committed, User
  <2> QED BY <1>1, <2>1, <2>2 DEF CategoryFits, User
<1>4. FiledUnderOwn'
  <2> SUFFICES ASSUME NEW m \in marks, unfiled(m).category # None
               PROVE  unfiled(m).category \in cats' /\ OwnerOf[unfiled(m).category] = unfiled(m).user
    BY <1>1 DEF FiledUnderOwn
  <2>1. unfiled(m).category = m.category /\ m.category # c
    BY <1>2
  <2> QED BY <1>1, <1>2, <2>1 DEF TagInv, FiledUnderOwn
<1>5. \A k, n \in marks' : k.user = n.user /\ k.url = n.url => k = n
  BY <1>1, <1>2 DEF TagInv, UrlSavedOnce
<1>6. marks' \subseteq Marks /\ cats' \subseteq CategoryIds
  BY <1>1, <1>2 DEF TagInv, RowsTyped
<1>7. \A m \in marks' : \E n \in marks : m.by = n.by /\ m.user = n.user /\ m.url = n.url /\ m.names = n.names
  BY <1>1, <1>2
<1> QED BY <1>1, <1>3, <1>4, <1>5, <1>6, <1>7, RowsChange

(* Nothing is saved. *)
LEMMA TagStarts == TagInit => TagInv
<1> SUFFICES ASSUME TagInit PROVE TagInv
  OBVIOUS
<1>1. RowsTyped
  BY DEF TagInit, RowsTyped, Steps
<1>2. \A r \in Savers : step[r] = "new" /\ mine[r] = {} /\ found[r] = {} /\ reply[r] = 0
  BY DEF TagInit
<1>3. SaversIn /\ OneUrl
  BY <1>2 DEF TagInit, SaversIn, InHand, Opened, OneUrl
<1> QED BY <1>1, <1>2, <1>3 DEF TagInit, TagInv, MarkIsAsked, NoClutter, UrlSavedOnce, FiledUnderOwn

(* Every step keeps it. *)
LEMMA TagKeeps == TagInv /\ [TagNext]_tagVars => TagInv'
<1> SUFFICES ASSUME TagInv, [TagNext]_tagVars PROVE TagInv'
  OBVIOUS
<1>1. ASSUME NEW r \in Savers, SaveStep(r) PROVE TagInv'
  <2>1. CASE Victim(r)
    <3>1. PICK D \in SUBSET Savers : r \in D /\ Deadlocked(D)
      BY <2>1 DEF Victim
    <3>2. Waits(r) # {}
      BY <3>1 DEF Deadlocked
    <3>3. step[r] \notin {"new", "done"}
      BY <3>2 DEF Waits
    <3> QED BY <2>1, <3>3, EndKeeps DEF Victim
  <2> QED BY <1>1, <2>1, EnsureKeeps, SelectTagsKeeps, InsertBookmarkKeeps, LinkTagsKeeps, CommitSaveKeeps DEF SaveStep
<1>2. ASSUME NEW r \in Savers, FailSave(r) PROVE TagInv'
  BY <1>2, EndKeeps DEF FailSave
<1>3. ASSUME NEW r \in Savers, NEW w \in Wishes, Save(r, w) PROVE TagInv'
  BY <1>3, SaveKeeps
<1>4. CASE UNCHANGED tagVars
  <2>1. \A r \in Savers : Opened(r)'
    BY <1>4 DEF tagVars, TagInv, SaversIn, Opened, Committed, CategoryFits, User
  <2>2. FiledUnderOwn' /\ \A k, n \in marks' : k.user = n.user /\ k.url = n.url => k = n
    BY <1>4 DEF tagVars, TagInv, FiledUnderOwn, UrlSavedOnce
  <2> QED BY <1>4, <2>1, <2>2, RowsChange DEF tagVars, TagInv, RowsTyped
<1> QED
  BY <1>1, <1>2, <1>3, <1>4, DeleteBookmarkKeeps, CreateCategoryKeeps, DeleteCategoryKeeps DEF TagNext

(* The inductive invariant holds in every state. *)
THEOREM TagInvariant == TagSpec => []TagInv
BY TagStarts, TagKeeps, PTL DEF TagSpec

(* The requests that save bookmarks are well typed. *)
THEOREM TagsTyped == TagSpec => []TagTypeOK
<1>1. TagInv => TagTypeOK
  <2> SUFFICES ASSUME TagInv PROVE TagTypeOK
    OBVIOUS
  <2>1. \A r \in Savers : Range(todo[r]) \subseteq Names
    <3> TAKE r \in Savers
    <3>1. todo[r] \in Seq(Names)
      BY DEF TagInv, RowsTyped
    <3> QED BY <3>1 DEF Range
  <2>2. \A m \in marks : m.by \in Savers /\ m.names \subseteq Names /\ m.category \in CategoryIds \cup {None}
    BY DEF TagInv, RowsTyped, Marks
  <2> QED BY <2>1, <2>2 DEF TagInv, RowsTyped, TagTypeOK, Users
<1> QED BY <1>1, TagInvariant, PTL

(* CreateBookmark, ensureTags: a bookmark is saved whole or not at all,    *)
(* with every tag that was asked for, once for an address, and under a     *)
(* category of its owner, whatever the requests that run at the same time. *)
THEOREM BookmarksStayWhole == TagSpec => []BookmarksAreWhole
<1>1. TagInv => BookmarksAreWhole
  BY DEF TagInv, BookmarksAreWhole, AllTags, MarkIsAsked, Asked
<1> QED BY <1>1, TagInvariant, PTL

-----------------------------------------------------------------------------
(* Listings. *)

(* Induction over the subsets of a finite set, for the members of a set. *)
LEMMA SubsetInduction ==
    ASSUME NEW S, IsFiniteSet(S), NEW G, {} \in G,
           \A s \in SUBSET S : s # {} /\ (\A x \in s : s \ {x} \in G) => s \in G
    PROVE  \A s \in SUBSET S : s \in G
<1> DEFINE bad == {s \in SUBSET S : s \notin G}
<1> SUFFICES ASSUME bad # {} PROVE FALSE
  OBVIOUS
<1>1. bad \subseteq FiniteSubsetsOf(S) /\ IsWellFoundedOn(StrictSubsetOrdering(S), FiniteSubsetsOf(S))
  BY FS_FiniteSubsetsOfFinite, FS_StrictSubsetOrderingWellFounded
<1> HIDE DEF bad
<1>2. PICK s \in bad : \A t \in bad : ~(<<t, s>> \in StrictSubsetOrdering(S))
  BY <1>1, WFMin
<1>3. s \in SUBSET S /\ s \notin G
  BY <1>2 DEF bad
<1>4. ASSUME NEW x \in s PROVE s \ {x} \in G
  <2>1. s \ {x} \in SUBSET S /\ s \ {x} # s /\ s \ {x} \subseteq s
    BY <1>3
  <2>2. <<s \ {x}, s>> \in StrictSubsetOrdering(S)
    BY <1>3, <2>1 DEF StrictSubsetOrdering
  <2> QED BY <1>2, <2>1, <2>2 DEF bad
<1> QED BY <1>3, <1>4

(* Rows that have their id, and those that a listing may have shown. *)
Inserted == {w \in Writers : rowState[w] \in {"inserted", "there", "gone"}}
Settled  == {w \in Writers : rowState[w] \in {"there", "gone"}}

IdsDistinct ==
    /\ nextId = Cardinality(Inserted) + 1
    /\ \A w \in Inserted : rowId[w] \in 1..(nextId - 1)
    /\ \A v, w \in Inserted : rowId[v] = rowId[w] => v = w

StandingThere == \A w \in standing : rowState[w] = "there"

(* Where the reader is, and what is left for the pages that follow. *)
ReaderAt ==
    /\ Range(shown) \subseteq Settled
    /\ listing = None => shown = <<>> /\ cursor = None /\ ~finished /\ standing = {}
    /\ cursor = None => shown = <<>> \/ finished
    /\ cursor # None /\ ~finished => shown # <<>> /\ cursor = Key(Last(shown))
StillToCome ==
    listing # None => \A w \in standing :
        w \in Range(shown) \/ (~finished /\ cursor # None /\ Older(Key(w), cursor))

ListInv == PageTypeOK /\ IdsDistinct /\ StandingThere /\ ReaderAt /\ NewestFirst /\ StillToCome

(* Keys are ordered: by time, then by id. *)
LEMMA OlderOrders ==
    /\ \A k \in Nat \X Nat : ~Older(k, k)
    /\ \A k, l, m \in Nat \X Nat : Older(k, l) /\ Older(l, m) => Older(k, m)
    /\ \A k, l \in Nat \X Nat : k # l => Older(k, l) \/ Older(l, k)
<1>1. \A k \in Nat \X Nat : ~Older(k, k)
  BY DEF Older
<1>2. \A k, l, m \in Nat \X Nat : Older(k, l) /\ Older(l, m) => Older(k, m)
  BY DEF Older
<1>3. ASSUME NEW k \in Nat \X Nat, NEW l \in Nat \X Nat, k # l PROVE Older(k, l) \/ Older(l, k)
  <2>1. PICK a \in Nat, b \in Nat, c \in Nat, d \in Nat : k = <<a, b>> /\ l = <<c, d>>
    OBVIOUS
  <2> QED BY <1>3, <2>1 DEF Older
<1> QED BY <1>1, <1>2, <1>3

(* Among rows with keys of their own there is an oldest one. *)
LEMMA OldestIn ==
    ASSUME NEW S, IsFiniteSet(S), NEW K \in [S -> Nat \X Nat], \A v, w \in S : K[v] = K[w] => v = w
    PROVE  \A s \in SUBSET S : s # {} => \E x \in s : \A y \in s : y # x => Older(K[x], K[y])
<1> DEFINE G == {s \in SUBSET S : s # {} => \E x \in s : \A y \in s : y # x => Older(K[x], K[y])}
<1>1. {} \in G
  OBVIOUS
<1>2. ASSUME NEW s \in SUBSET S, s # {}, \A x \in s : s \ {x} \in G PROVE s \in G
  <2>1. PICK x \in s : TRUE
    BY <1>2
  <2>2. CASE s \ {x} = {}
    BY <2>1, <2>2
  <2>3. CASE s \ {x} # {}
    <3>1. PICK z \in s \ {x} : \A y \in s \ {x} : y # z => Older(K[z], K[y])
      BY <1>2, <2>1, <2>3
    <3>2. K[x] # K[z]
      BY <3>1
    <3>3. CASE Older(K[x], K[z])
      <4>1. \A y \in s : y # x => Older(K[x], K[y])
        BY <3>1, <3>3, OlderOrders
      <4> QED BY <2>1, <4>1
    <3>4. CASE Older(K[z], K[x])
      <4>1. \A y \in s : y # z => Older(K[z], K[y])
        BY <3>1, <3>4
      <4> QED BY <3>1, <4>1
    <3> QED BY <3>1, <3>2, <3>3, <3>4, OlderOrders
  <2> QED BY <2>2, <2>3
<1> HIDE DEF G
<1>3. \A s \in SUBSET S : s \in G
  BY <1>1, <1>2, SubsetInduction
<1> QED BY <1>3 DEF G

(* So they can be listed, the newest first. *)
Falls(q, K, n) == \A i, j \in 1..n : i < j => Older(K[q[j]], K[q[i]])

(* By induction: the oldest one goes last. *)
LEMMA ListedByKey ==
    ASSUME NEW S, IsFiniteSet(S), NEW K \in [S -> Nat \X Nat], \A v, w \in S : K[v] = K[w] => v = w
    PROVE  \A s \in SUBSET S : \E q \in [1..Cardinality(s) -> s] : Falls(q, K, Cardinality(s))
<1> DEFINE G == {s \in SUBSET S : \E q \in [1..Cardinality(s) -> s] : Falls(q, K, Cardinality(s))}
<1>1. {} \in G
  <2>1. Cardinality({}) = 0
    BY FS_EmptySet
  <2>2. [i \in 1..0 |-> i] \in [1..0 -> {}] /\ \A i \in 1..0 : FALSE
    OBVIOUS
  <2> QED BY <2>1, <2>2 DEF Falls
<1>2. ASSUME NEW s \in SUBSET S, s # {}, \A x \in s : s \ {x} \in G PROVE s \in G
  <2>1. PICK x \in s : \A y \in s : y # x => Older(K[x], K[y])
    BY <1>2, OldestIn
  <2> DEFINE r == s \ {x}
             n == Cardinality(r)
  <2>2. IsFiniteSet(s) /\ IsFiniteSet(r) /\ n \in Nat /\ Cardinality(s) = n + 1
    <3>1. IsFiniteSet(s)
      BY FS_Subset
    <3>2. IsFiniteSet(r) /\ Cardinality(r) = Cardinality(s) - 1
      BY <2>1, <3>1, FS_RemoveElement
    <3>3. Cardinality(s) \in Nat /\ Cardinality(r) \in Nat
      BY <3>1, <3>2, FS_CardinalityType
    <3> QED BY <3>1, <3>2, <3>3
  <2>3. PICK q \in [1..n -> r] : Falls(q, K, n)
    BY <1>2, <2>1
  <2> DEFINE p == [i \in 1..(n + 1) |-> IF i = n + 1 THEN x ELSE q[i]]
  <2> HIDE DEF n, r
  <2>4. p \in [1..(n + 1) -> s]
    BY <2>1, <2>2, <2>3 DEF r
  <2>5. ASSUME NEW i \in 1..(n + 1), NEW j \in 1..(n + 1), i < j PROVE Older(K[p[j]], K[p[i]])
    <3>1. i \in 1..n /\ p[i] = q[i] /\ q[i] \in s /\ q[i] # x
      BY <2>2, <2>3, <2>5 DEF r
    <3>2. CASE j = n + 1
      BY <2>1, <2>2, <3>1, <3>2
    <3>3. CASE j # n + 1
      <4>1. j \in 1..n /\ p[j] = q[j]
        BY <2>2, <3>3
      <4> QED BY <2>3, <2>5, <3>1, <4>1 DEF Falls
    <3> QED BY <3>2, <3>3
  <2> HIDE DEF p
  <2> QED BY <2>2, <2>4, <2>5 DEF Falls
<1> HIDE DEF G
<1>3. \A s \in SUBSET S : s \in G
  BY <1>1, <1>2, SubsetInduction
<1> QED BY <1>3 DEF G

(* The least of two numbers. *)
LEMMA LeastOfTwo ==
    ASSUME NEW a \in Nat, NEW b \in Nat
    PROVE  Min({a, b}) = IF a <= b THEN a ELSE b
BY DEF Min

(* A row's key; rows with an id have keys of their own. *)
LEMMA KeysOfRows ==
    ASSUME PageTypeOK, IdsDistinct
    PROVE  /\ \A w \in Writers : Key(w) \in Nat \X Nat
           /\ \A v, w \in Inserted : Key(v) = Key(w) => v = w
           /\ Settled \subseteq Inserted /\ Inserted \subseteq Writers /\ IsFiniteSet(Inserted)
<1>1. IsFiniteSet(Writers) /\ Cardinality(Writers) \in Nat /\ LastInstant \in Nat
  BY PageAssumption, FS_CardinalityType
<1>2. Inserted \subseteq Writers /\ Settled \subseteq Inserted
  BY DEF Inserted, Settled
<1>3. IsFiniteSet(Inserted)
  BY <1>1, <1>2, FS_Subset
<1>4. \A w \in Writers : createdAt[w] \in Nat /\ rowId[w] \in Nat
  BY <1>1 DEF PageTypeOK
<1> QED BY <1>2, <1>3, <1>4 DEF Key, IdsDistinct

(* What the statement of a page returns: rows that are there past the      *)
(* cursor, newest first; and what it leaves out is older than all of them, *)
(* and left out only because the page is full.                             *)
LEMMA QueryReturns ==
    ASSUME PageTypeOK, IdsDistinct, NEW n \in Nat \ {0},
           NEW matching, matching = {w \in Writers : rowState[w] = "there" /\ PastCursor(Key(w))}
    PROVE  /\ Query(n) \in Seq(matching) /\ Len(Query(n)) <= n
           /\ Descending(Query(n))
           /\ \A w \in matching :
                 \/ \E i \in 1..Len(Query(n)) : Query(n)[i] = w
                 \/ Len(Query(n)) = n /\ \A i \in 1..n : Older(Key(w), Key(Query(n)[i]))
<1> DEFINE c == Cardinality(matching)
           all == Sorted(matching)
           q == Query(n)
           m == IF n <= c THEN n ELSE c
<1>1. matching \subseteq Inserted /\ matching \subseteq Writers
  BY DEF Inserted
<1>2. IsFiniteSet(matching) /\ c \in Nat
  BY <1>1, KeysOfRows, FS_Subset, FS_CardinalityType
<1> DEFINE K == [w \in matching |-> Key(w)]
<1>3. K \in [matching -> Nat \X Nat] /\ \A v, w \in matching : K[v] = K[w] => v = w
  BY <1>1, KeysOfRows
<1>4. \E rows \in [1..c -> matching] : Descending(rows)
  <2>1. PICK rows \in [1..c -> matching] : Falls(rows, K, c)
    <3> HIDE DEF K
    <3>1. \A s \in SUBSET matching : \E rows \in [1..Cardinality(s) -> s] : Falls(rows, K, Cardinality(s))
      BY <1>2, <1>3, ListedByKey
    <3> QED BY <3>1
  <2>2. \A i \in 1..c : K[rows[i]] = Key(rows[i])
    OBVIOUS
  <2>3. DOMAIN rows = 1..c
    OBVIOUS
  <2> HIDE DEF K, c
  <2>4. Descending(rows)
    BY <2>1, <2>2, <2>3 DEF Descending, Falls
  <2> QED BY <2>4
<1>5. all \in [1..c -> matching] /\ Descending(all)
  BY <1>4 DEF Sorted
<1>6. q = SubSeq(all, 1, Min({n, Len(all)}))
  BY DEF Query
<1> HIDE DEF K, all, q, c
<1>7. all \in Seq(matching) /\ Len(all) = c
  BY <1>2, <1>5
<1>8. m \in 0..c /\ m \in Nat /\ m <= n /\ q = SubSeq(all, 1, m)
  BY <1>2, <1>6, <1>7, LeastOfTwo
<1>9. q \in Seq(matching) /\ Len(q) = m /\ \A i \in 1..m : q[i] = all[i]
  BY <1>2, <1>7, <1>8
<1>10. Descending(q)
  BY <1>2, <1>5, <1>8, <1>9 DEF Descending
<1>11. ASSUME NEW w \in matching
       PROVE  \/ \E i \in 1..Len(q) : q[i] = w
              \/ Len(q) = n /\ \A i \in 1..n : Older(Key(w), Key(q[i]))
  <2>1. \A i, j \in 1..c : i # j => all[i] # all[j]
    <3>1. \A i \in 1..c : Key(all[i]) \in Nat \X Nat
      BY <1>1, <1>5, KeysOfRows
    <3>2. \A i, j \in 1..c : i < j => all[i] # all[j]
      BY <1>5, <3>1, OlderOrders DEF Descending
    <3> QED BY <1>2, <3>2
  <2>2. PICK k \in 1..c : all[k] = w
    <3>1. all \in Injection(1..c, matching)
      BY <1>5, <2>1 DEF Injection, IsInjective
    <3>2. IsFiniteSet(1..c) /\ Cardinality(1..c) = c
      BY <1>2, FS_Interval
    <3>3. all \in Surjection(1..c, matching)
      BY <1>2, <3>1, <3>2, FS_Injection DEF c
    <3> QED BY <3>3 DEF Surjection
  <2>3. CASE k <= m
    BY <1>8, <1>9, <2>2, <2>3
  <2>4. CASE k > m
    <3>1. m = n
      BY <1>2, <1>8, <2>2, <2>4
    <3>2. \A i \in 1..n : i \in 1..c /\ i < k /\ q[i] = all[i]
      BY <1>2, <1>8, <1>9, <2>2, <2>4, <3>1
    <3> QED BY <1>5, <1>9, <2>2, <3>1, <3>2 DEF Descending
  <2>5. k <= m \/ k > m
    BY <1>2, <1>8, <2>2
  <2> QED BY <2>3, <2>4, <2>5
<1> QED BY <1>8, <1>9, <1>10, <1>11 DEF q

(* Rows of no page come and go: nothing of the reader's changes. *)
LEMMA ReaderKeeps ==
    ASSUME ListInv, UNCHANGED reader, standing' \subseteq standing,
           \A w \in standing' : rowState'[w] = "there",
           \A w \in Settled : Key(w)' = Key(w) /\ w \in Settled'
    PROVE  StandingThere' /\ ReaderAt' /\ NewestFirst' /\ StillToCome'
<1> USE DEF ListInv
<1>1. shown \in Seq(Writers) /\ shown' = shown /\ cursor' = cursor /\ listing' = listing /\ finished' = finished
  BY DEF reader, PageTypeOK
<1>2. \A i \in 1..Len(shown) : shown[i] \in Settled /\ Key(shown[i])' = Key(shown[i])
  BY <1>1 DEF ReaderAt, Range
<1>3. ReaderAt'
  <2>1. Range(shown') \subseteq Settled'
    BY <1>1 DEF ReaderAt
  <2>2. cursor # None /\ ~finished => Key(Last(shown))' = Key(Last(shown))
    <3>1. shown # <<>> => Len(shown) \in 1..Len(shown)
      BY <1>1
    <3> QED BY <1>1, <1>2, <3>1 DEF ReaderAt, Last
  <2> QED BY <1>1, <2>1, <2>2 DEF ReaderAt
<1>4. NewestFirst'
  <2>1. DOMAIN shown = 1..Len(shown)
    BY <1>1
  <2>2. \A i, j \in DOMAIN shown : i < j => Older(Key(shown[j]), Key(shown[i]))
    BY DEF NewestFirst, Descending
  <2>3. \A i, j \in DOMAIN shown : i < j => Older(Key(shown[j])', Key(shown[i])')
    BY <1>2, <2>1, <2>2
  <2>4. \A i, j \in DOMAIN shown' : i < j => Older(Key(shown[j])', Key(shown[i])')
    BY <1>1, <2>3
  <2> QED BY <1>1, <2>4 DEF NewestFirst, Descending, Older, Key
<1>5. StillToCome'
  <2>1. \A w \in standing : w \in Settled
    BY DEF StandingThere, Settled, PageTypeOK
  <2>2. \A w \in standing' : Key(w)' = Key(w)
    BY <2>1
  <2>3. \A w \in standing' : Older(Key(w), cursor)' <=> Older(Key(w), cursor)
    BY <1>1, <2>2 DEF Older
  <2> QED BY <1>1, <2>3 DEF StillToCome
<1>6. StandingThere'
  BY DEF StandingThere
<1> QED BY <1>3, <1>4, <1>5, <1>6

(* A row is begun, gets its id, is committed or deleted. *)
LEMMA RowKeeps ==
    ASSUME ListInv, NEW w \in Writers, BeginRow(w) \/ InsertRow(w) \/ CommitRow(w) \/ DeleteRow(w)
    PROVE  ListInv'
<1> USE DEF ListInv
<1>0. /\ rowState \in [Writers -> {"none", "begun", "inserted", "there", "gone"}]
      /\ createdAt \in [Writers -> 0..LastInstant] /\ rowId \in [Writers -> 0..Cardinality(Writers)]
      /\ LastInstant \in Nat /\ Cardinality(Writers) \in Nat /\ IsFiniteSet(Writers)
  BY PageAssumption, FS_CardinalityType DEF PageTypeOK
<1>1. UNCHANGED reader /\ listing' = listing /\ shown' = shown /\ cursor' = cursor /\ finished' = finished /\ instant' = instant
  BY DEF BeginRow, InsertRow, CommitRow, DeleteRow, reader
<1>2. standing' \subseteq standing /\ \A v \in standing' : rowState'[v] = "there"
  BY <1>0 DEF BeginRow, InsertRow, CommitRow, DeleteRow, Become, StandingThere, PageTypeOK
<1>3. \A v \in Settled : Key(v)' = Key(v) /\ v \in Settled'
  BY <1>0 DEF BeginRow, InsertRow, CommitRow, DeleteRow, Become, Settled, Key
<1>4. StandingThere' /\ ReaderAt' /\ NewestFirst' /\ StillToCome'
  BY <1>1, <1>2, <1>3, ReaderKeeps
<1>5. CASE InsertRow(w)
  <2>1. Inserted' = Inserted \cup {w} /\ w \notin Inserted /\ Inserted \subseteq Writers /\ Inserted' \subseteq Writers
    BY <1>0, <1>5 DEF InsertRow, Become, Inserted
  <2>2. IsFiniteSet(Inserted) /\ IsFiniteSet(Inserted') /\ Cardinality(Inserted) \in Nat
        /\ Cardinality(Inserted') = Cardinality(Inserted) + 1 /\ Cardinality(Inserted') <= Cardinality(Writers)
    <3>1. IsFiniteSet(Inserted) /\ IsFiniteSet(Inserted') /\ Cardinality(Inserted') <= Cardinality(Writers)
      BY <1>0, <2>1, FS_Subset
    <3> QED BY <2>1, <3>1, FS_AddElement, FS_CardinalityType
  <2>3. nextId = Cardinality(Inserted) + 1 /\ nextId' = nextId + 1 /\ rowId' = [rowId EXCEPT ![w] = nextId] /\ createdAt' = createdAt
    BY <1>5 DEF InsertRow, IdsDistinct
  <2>4. nextId \in Nat /\ nextId' = Cardinality(Inserted') + 1 /\ nextId \in 1..Cardinality(Writers)
        /\ nextId' \in 1..(Cardinality(Writers) + 1)
    BY <1>0, <2>2, <2>3
  <2>5. IdsDistinct'
    <3>1. \A v \in Inserted' : rowId'[v] = IF v = w THEN nextId ELSE rowId[v]
      BY <1>0, <2>1, <2>3
    <3>2. \A v \in Inserted : rowId[v] \in 1..(nextId - 1)
      BY DEF IdsDistinct
    <3>3. \A v \in Inserted' : rowId'[v] \in 1..(nextId' - 1)
      BY <2>1, <2>3, <2>4, <3>1, <3>2
    <3>4. \A u, v \in Inserted' : rowId'[u] = rowId'[v] => u = v
      BY <2>1, <2>4, <3>1, <3>2 DEF IdsDistinct
    <3> QED BY <2>4, <3>3, <3>4 DEF IdsDistinct
  <2>6. PageTypeOK'
    <3>1. rowState' \in [Writers -> {"none", "begun", "inserted", "there", "gone"}]
      BY <1>0, <1>5 DEF InsertRow, Become
    <3>2. rowId' \in [Writers -> 0..Cardinality(Writers)]
      BY <1>0, <2>3, <2>4
    <3> QED BY <1>1, <1>2, <2>3, <2>4, <3>1, <3>2 DEF PageTypeOK
  <2> QED BY <1>4, <2>5, <2>6
<1>6. CASE BeginRow(w) \/ CommitRow(w) \/ DeleteRow(w)
  <2>1. Inserted' = Inserted
    BY <1>0, <1>6 DEF BeginRow, CommitRow, DeleteRow, Become, Inserted
  <2>2. UNCHANGED <<rowId, nextId>>
    BY <1>6 DEF BeginRow, CommitRow, DeleteRow
  <2>3. IdsDistinct'
    BY <2>1, <2>2 DEF IdsDistinct
  <2>4. PageTypeOK'
    <3>1. rowState' \in [Writers -> {"none", "begun", "inserted", "there", "gone"}]
      BY <1>0, <1>6 DEF BeginRow, CommitRow, DeleteRow, Become
    <3>2. createdAt' \in [Writers -> 0..LastInstant]
      BY <1>0, <1>6 DEF BeginRow, CommitRow, DeleteRow, PageTypeOK
    <3> QED BY <1>1, <1>2, <2>2, <3>1, <3>2 DEF PageTypeOK
  <2> QED BY <1>4, <2>3, <2>4
<1> QED BY <1>5, <1>6

(* The clock of the database moves on. *)
LEMMA TickPageKeeps == ASSUME ListInv, PageTick PROVE ListInv'
<1> USE DEF ListInv
<1>1. UNCHANGED <<rowState, createdAt, rowId, nextId, reader, standing>>
  BY DEF PageTick
<1>2. Inserted' = Inserted /\ Settled' = Settled /\ \A w : Key(w)' = Key(w)
  BY <1>1 DEF Inserted, Settled, Key
<1>3. StandingThere' /\ ReaderAt' /\ NewestFirst' /\ StillToCome'
  BY <1>1, <1>2, ReaderKeeps DEF StandingThere
<1>4. IdsDistinct'
  BY <1>1, <1>2 DEF IdsDistinct
<1>5. PageTypeOK'
  BY <1>1, PageAssumption DEF PageTick, PageTypeOK, reader
<1> QED BY <1>3, <1>4, <1>5

(* The rows of a page come after those shown, in one descending order. *)
LEMMA PageContinues ==
    ASSUME ListInv, ~finished, NEW rows \in Seq(Writers), Descending(rows), shown' = shown \o rows,
           UNCHANGED <<rowState, createdAt, rowId>>,
           \A i \in 1..Len(rows) : rowState[rows[i]] = "there" /\ PastCursor(Key(rows[i]))
    PROVE  /\ shown' \in Seq(Writers) /\ Descending(shown)' /\ Range(shown') \subseteq Settled
           /\ \A i \in 1..Len(shown') : i > Len(shown) => shown'[i] = rows[i - Len(shown)]
           /\ Range(shown) \subseteq Range(shown')
           /\ \A i \in 1..Len(rows) : rows[i] \in Range(shown')
           /\ Len(shown') = Len(shown) + Len(rows)
<1> USE DEF ListInv
<1>1. shown \in Seq(Writers) /\ shown' \in Seq(Writers) /\ Len(shown') = Len(shown) + Len(rows)
      /\ Len(shown) \in Nat /\ Len(rows) \in Nat
  BY DEF PageTypeOK
<1>2. \A i \in 1..Len(shown') : shown'[i] = IF i <= Len(shown) THEN shown[i] ELSE rows[i - Len(shown)]
  BY <1>1
<1>3. Range(shown) \subseteq Range(shown')
  BY <1>1, <1>2 DEF Range
<1>4. \A i \in 1..Len(rows) : rows[i] \in Range(shown')
  <2> TAKE i \in 1..Len(rows)
  <2>1. i + Len(shown) \in 1..Len(shown') /\ shown'[i + Len(shown)] = rows[i]
    BY <1>1, <1>2
  <2>2. i + Len(shown) \in DOMAIN shown'
    BY <1>1, <2>1
  <2> QED BY <2>1, <2>2 DEF Range
<1>5. Range(shown') \subseteq Settled
  <2> SUFFICES ASSUME NEW i \in 1..Len(shown') PROVE shown'[i] \in Settled
    BY <1>1 DEF Range
  <2>1. CASE i <= Len(shown)
    BY <1>1, <1>2, <2>1 DEF ReaderAt, Range
  <2>2. CASE i > Len(shown)
    <3>1. i - Len(shown) \in 1..Len(rows) /\ shown'[i] = rows[i - Len(shown)]
      BY <1>1, <1>2, <2>2
    <3>2. rows[i - Len(shown)] \in Writers /\ rowState[rows[i - Len(shown)]] = "there"
      BY <3>1
    <3> QED BY <3>1, <3>2 DEF Settled
  <2> QED BY <1>1, <2>1, <2>2
<1>6. \A i \in 1..Len(shown), j \in 1..Len(rows) : Older(Key(rows[j]), Key(shown[i]))
  <2> TAKE i \in 1..Len(shown), j \in 1..Len(rows)
  <2>1. shown # <<>>
    BY <1>1
  <2>2. cursor # None /\ cursor = Key(shown[Len(shown)])
    BY <2>1 DEF ReaderAt, Last
  <2>3. Older(Key(rows[j]), cursor)
    BY <2>2 DEF PastCursor
  <2>4. Len(shown) \in 1..Len(shown) /\ Len(shown) \in Nat
    BY <1>1
  <2>5. Key(rows[j]) \in Nat \X Nat /\ Key(shown[i]) \in Nat \X Nat /\ Key(shown[Len(shown)]) \in Nat \X Nat
    <3>1. rows[j] \in Writers /\ shown[i] \in Writers /\ shown[Len(shown)] \in Writers
      BY <1>1, <2>4
    <3> QED BY <3>1, KeysOfRows
  <2>6. CASE i = Len(shown)
    BY <2>2, <2>3, <2>6
  <2>7. CASE i < Len(shown)
    <3>1. Older(Key(shown[Len(shown)]), Key(shown[i]))
      BY <1>1, <2>4, <2>7 DEF NewestFirst, Descending
    <3> QED BY <2>2, <2>3, <2>5, <3>1, OlderOrders
  <2> QED BY <1>1, <2>6, <2>7
<1>7. \A i, j \in 1..Len(shown') : i < j => Older(Key(shown'[j]), Key(shown'[i]))
  <2> SUFFICES ASSUME NEW i \in 1..Len(shown'), NEW j \in 1..Len(shown'), i < j
               PROVE  Older(Key(shown'[j]), Key(shown'[i]))
    OBVIOUS
  <2>1. CASE j <= Len(shown)
    BY <1>1, <1>2, <2>1 DEF NewestFirst, Descending
  <2>2. CASE i <= Len(shown) /\ j > Len(shown)
    <3>1. i \in 1..Len(shown) /\ j - Len(shown) \in 1..Len(rows)
      BY <1>1, <2>2
    <3>2. shown'[i] = shown[i] /\ shown'[j] = rows[j - Len(shown)]
      BY <1>2, <2>2, <1>1
    <3> QED BY <1>6, <3>1, <3>2
  <2>3. CASE i > Len(shown)
    <3>1. i - Len(shown) \in 1..Len(rows) /\ j - Len(shown) \in 1..Len(rows) /\ i - Len(shown) < j - Len(shown)
      BY <1>1, <2>3
    <3>2. shown'[i] = rows[i - Len(shown)] /\ shown'[j] = rows[j - Len(shown)]
      BY <1>1, <1>2, <2>3
    <3>3. Older(Key(rows[j - Len(shown)]), Key(rows[i - Len(shown)]))
      BY <3>1 DEF Descending
    <3> QED BY <3>2, <3>3
  <2> QED BY <1>1, <2>1, <2>2, <2>3
<1>8. Descending(shown)'
  <2>1. \A w : Key(w)' = Key(w)
    BY DEF Key
  <2>2. DOMAIN shown' = 1..Len(shown')
    BY <1>1
  <2>3. \A i, j \in DOMAIN shown' : i < j => Older(Key(shown[j]), Key(shown[i]))'
    BY <1>7, <2>2 DEF Key, Older
  <2> QED BY <2>3 DEF Descending
<1>9. \A i \in 1..Len(shown') : i > Len(shown) => shown'[i] = rows[i - Len(shown)]
  BY <1>1, <1>2
<1> QED BY <1>1, <1>3, <1>4, <1>5, <1>8, <1>9

(* The last row of a page, and the rows up to it. *)
LEMMA LastShown ==
    ASSUME NEW S, NEW s \in Seq(S), NEW rows \in Seq(S), rows # <<>>
    PROVE  s \o rows # <<>> /\ Last(s \o rows) = rows[Len(rows)]
BY DEF Last

(* A page of at most k rows, of which rows is what the statement found, is *)
(* full or the last one: what it leaves out is older than its last row.    *)
LEMMA PageKeeps ==
    ASSUME ListInv, NEW what \in {"urls", "bookmarks"}, ReadPage(what),
           NEW rows \in Seq(Writers), Descending(rows), shown' = shown \o rows,
           \A i \in 1..Len(rows) : rowState[rows[i]] = "there" /\ PastCursor(Key(rows[i])),
           \/ ~finished' /\ rows # <<>> /\ cursor' = Key(rows[Len(rows)])
           \/ finished' /\ cursor' = cursor,
           finished' \in BOOLEAN,
           \A w \in Writers : rowState[w] = "there" /\ PastCursor(Key(w)) =>
               \/ \E i \in 1..Len(rows) : rows[i] = w
               \/ ~finished' /\ Older(Key(w), Key(rows[Len(rows)]))
    PROVE  ListInv'
<1> USE DEF ListInv
<1>1. /\ UNCHANGED <<instant, rowState, createdAt, rowId, nextId>> /\ ~finished
      /\ listing' = what /\ what # None
      /\ standing' = IF listing = None THEN {w \in Writers : rowState[w] = "there"} ELSE standing
  BY PageAssumption DEF ReadPage
<1>2. /\ shown' \in Seq(Writers) /\ Descending(shown)' /\ Range(shown') \subseteq Settled
      /\ Range(shown) \subseteq Range(shown')
      /\ \A i \in 1..Len(rows) : rows[i] \in Range(shown')
  BY <1>1, PageContinues
<1>3. Inserted' = Inserted /\ Settled' = Settled /\ \A w : Key(w)' = Key(w)
  BY <1>1 DEF Inserted, Settled, Key
<1>4. rows # <<>> => rows[Len(rows)] \in Writers
  OBVIOUS
<1>5. cursor' = None \/ cursor' \in (0..LastInstant) \X Nat
  <2>1. rows # <<>> => createdAt[rows[Len(rows)]] \in 0..LastInstant /\ rowId[rows[Len(rows)]] \in Nat
    <3>1. Cardinality(Writers) \in Nat
      BY PageAssumption, FS_CardinalityType
    <3> QED BY <1>4, <3>1 DEF PageTypeOK
  <2> QED BY <2>1 DEF Key, PageTypeOK
<1>6. PageTypeOK'
  BY <1>1, <1>2, <1>5 DEF PageTypeOK
<1>7. IdsDistinct'
  BY <1>1, <1>3 DEF IdsDistinct
<1>8. StandingThere'
  BY <1>1 DEF StandingThere
<1>9. cursor' # None /\ ~finished' => shown' # <<>> /\ cursor' = Key(Last(shown'))
  <2> SUFFICES ASSUME ~finished' PROVE shown' # <<>> /\ cursor' = Key(Last(shown'))
    OBVIOUS
  <2> QED BY LastShown DEF PageTypeOK
<1>10. ReaderAt'
  <2>1. cursor' = None => shown' = <<>> \/ finished'
    <3> SUFFICES ASSUME ~finished' PROVE cursor' # None
      OBVIOUS
    <3>1. rows # <<>> /\ cursor' = Key(rows[Len(rows)]) /\ Key(rows[Len(rows)]) \in Nat \X Nat
      BY <1>4, KeysOfRows
    <3> QED BY <3>1, PageAssumption
  <2>2. (Key(Last(shown)))' = Key(Last(shown'))
    BY <1>3 DEF Key
  <2> QED BY <1>1, <1>2, <1>3, <1>9, <2>1, <2>2 DEF ReaderAt
<1>11. StillToCome'
  <2> SUFFICES ASSUME NEW w \in standing'
               PROVE  w \in Range(shown') \/ (~finished' /\ cursor' # None /\ Older(Key(w), cursor'))
    BY <1>3 DEF StillToCome, Older
  <2>1. w \in Writers /\ rowState[w] = "there"
    BY <1>1 DEF StandingThere, PageTypeOK
  <2>2. CASE w \in Range(shown)
    BY <1>2, <2>2
  <2>3. CASE w \notin Range(shown)
    <3>1. PastCursor(Key(w))
      BY <1>1, <2>3 DEF StillToCome, ReaderAt, PastCursor
    <3>2. CASE \E i \in 1..Len(rows) : rows[i] = w
      BY <1>2, <3>2
    <3>3. CASE ~finished' /\ Older(Key(w), Key(rows[Len(rows)]))
      <4>1. rows # <<>> /\ cursor' = Key(rows[Len(rows)]) /\ Key(rows[Len(rows)]) \in Nat \X Nat
        BY <1>4, <3>3, KeysOfRows
      <4> QED BY <3>3, <4>1, PageAssumption
    <3> QED BY <2>1, <3>1, <3>2, <3>3
  <2> QED BY <2>2, <2>3
<1>12. NewestFirst'
  BY <1>2 DEF NewestFirst
<1> QED BY <1>6, <1>7, <1>8, <1>10, <1>11, <1>12

(* A page of either listing: of PageSize rows, or of one more that only    *)
(* says whether there is a next page.                                      *)
LEMMA ReadKeeps ==
    ASSUME ListInv, NEW what \in {"urls", "bookmarks"}, ReadPage(what)
    PROVE  ListInv'
<1> USE DEF ListInv
<1> DEFINE matching == {w \in Writers : rowState[w] = "there" /\ PastCursor(Key(w))}
<1>1. PageSize \in Nat \ {0} /\ PageSize + 1 \in Nat \ {0}
  BY PageAssumption
<1>2. CASE what = "urls"
  <2> DEFINE q == Query(PageSize)
  <2>1. /\ q \in Seq(matching) /\ Len(q) <= PageSize /\ Descending(q)
        /\ \A w \in matching : \/ \E i \in 1..Len(q) : q[i] = w
                               \/ Len(q) = PageSize /\ \A i \in 1..PageSize : Older(Key(w), Key(q[i]))
    BY <1>1, QueryReturns
  <2>2. /\ shown' = shown \o q /\ finished' = (Len(q) < PageSize)
        /\ cursor' = IF Len(q) = PageSize THEN Key(Last(q)) ELSE cursor
    BY <1>2 DEF ReadPage, UrlsPage
  <2> HIDE DEF q
  <2>3. q \in Seq(Writers) /\ \A i \in 1..Len(q) : rowState[q[i]] = "there" /\ PastCursor(Key(q[i]))
    <3>1. \A i \in 1..Len(q) : q[i] \in matching
      BY <2>1
    <3> QED BY <2>1, <3>1
  <2>4. CASE Len(q) = PageSize
    <3>3. ~(Len(q) < PageSize) /\ q # <<>>
      BY <1>1, <2>1, <2>4
    <3>4. ~finished' /\ finished' \in BOOLEAN
      <4>1. finished' => Len(q) < PageSize
        BY <2>2, Zenon
      <4>2. (Len(q) < PageSize) \in BOOLEAN
        OBVIOUS
      <4>3. finished' \in BOOLEAN
        BY <2>2, <4>2, Zenon
      <4> QED BY <3>3, <4>1, <4>3, Zenon
    <3>1. ~finished' /\ q # <<>> /\ cursor' = Key(q[Len(q)])
      BY <2>2, <2>4, <3>3, <3>4 DEF Last
    <3>2. \A w \in Writers : rowState[w] = "there" /\ PastCursor(Key(w)) =>
             (\E i \in 1..Len(q) : q[i] = w) \/ (~finished' /\ Older(Key(w), Key(q[Len(q)])))
      BY <1>1, <2>1, <2>4, <3>1
    <3> QED BY <2>1, <2>2, <2>3, <3>1, <3>2, <3>4, PageKeeps
  <2>5. CASE Len(q) < PageSize
    <3>3. finished' /\ finished' \in BOOLEAN
      BY <2>2, <2>5, Zenon
    <3>4. Len(q) # PageSize
      BY <1>1, <2>1, <2>5
    <3>1. finished' /\ cursor' = cursor /\ finished' \in BOOLEAN
      BY <2>2, <3>3, <3>4
    <3>2. \A w \in Writers : rowState[w] = "there" /\ PastCursor(Key(w)) => \E i \in 1..Len(q) : q[i] = w
      BY <1>1, <2>1, <2>5
    <3> QED BY <2>1, <2>2, <2>3, <3>1, <3>2, PageKeeps
  <2> QED BY <1>1, <2>1, <2>4, <2>5
<1>3. CASE what = "bookmarks"
  <2> DEFINE q == Query(PageSize + 1)
             n == IF PageSize <= Len(q) THEN PageSize ELSE Len(q)
             rows == SubSeq(q, 1, n)
  <2>1. /\ q \in Seq(matching) /\ Len(q) <= PageSize + 1 /\ Descending(q)
        /\ \A w \in matching : \/ \E i \in 1..Len(q) : q[i] = w
                               \/ Len(q) = PageSize + 1 /\ \A i \in 1..(PageSize + 1) : Older(Key(w), Key(q[i]))
    BY <1>1, QueryReturns
  <2>2. /\ shown' = shown \o SubSeq(q, 1, Min({PageSize, Len(q)})) /\ finished' = (Len(q) <= PageSize)
        /\ cursor' = IF Len(q) > PageSize THEN Key(q[PageSize]) ELSE cursor
    BY <1>3 DEF ReadPage, BookmarksPage
  <2> HIDE DEF q
  <2>3. Len(q) \in Nat /\ n \in Nat /\ n <= Len(q) /\ shown' = shown \o rows
    <3>1. Len(q) \in Nat
      BY <2>1
    <3>2. PageSize \in Nat
      BY <1>1
    <3>3. Min({PageSize, Len(q)}) = n
      BY <3>1, <3>2, LeastOfTwo
    <3>4. shown' = shown \o rows
      BY <2>2, <3>3, Zenon
    <3>5. n \in Nat /\ n <= Len(q)
      BY <3>1, <3>2
    <3> QED BY <3>1, <3>4, <3>5
  <2>4. rows \in Seq(matching) /\ Len(rows) = n /\ \A i \in 1..n : rows[i] = q[i]
    BY <2>1, <2>3
  <2>5. rows \in Seq(Writers) /\ \A i \in 1..Len(rows) : rowState[rows[i]] = "there" /\ PastCursor(Key(rows[i]))
    <3>1. \A i \in 1..Len(rows) : rows[i] \in matching
      BY <2>4
    <3> QED BY <2>4, <3>1
  <2>6. Descending(rows)
    <3>1. DOMAIN rows = 1..n /\ DOMAIN q = 1..Len(q)
      BY <2>1, <2>4
    <3> QED BY <2>1, <2>3, <2>4, <3>1 DEF Descending
  <2> HIDE DEF rows
  <2>7. CASE Len(q) > PageSize
    <3>4. n = PageSize /\ ~(Len(q) <= PageSize) /\ Len(q) = PageSize + 1
      BY <1>1, <2>1, <2>3, <2>7
    <3>5. ~finished' /\ finished' \in BOOLEAN
      <4>1. finished' => Len(q) <= PageSize
        BY <2>2, Zenon
      <4>2. (Len(q) <= PageSize) \in BOOLEAN
        OBVIOUS
      <4>3. finished' \in BOOLEAN
        BY <2>2, <4>2, Zenon
      <4> QED BY <3>4, <4>1, <4>3, Zenon
    <3>1. n = PageSize /\ ~finished' /\ cursor' = Key(q[PageSize]) /\ Len(q) = PageSize + 1
      BY <2>2, <2>7, <3>4, <3>5
    <3>2. rows # <<>> /\ rows[Len(rows)] = q[PageSize] /\ cursor' = Key(rows[Len(rows)])
      BY <1>1, <2>4, <3>1
    <3>3. \A w \in Writers : rowState[w] = "there" /\ PastCursor(Key(w)) =>
             (\E i \in 1..Len(rows) : rows[i] = w) \/ (~finished' /\ Older(Key(w), Key(rows[Len(rows)])))
      <4> SUFFICES ASSUME NEW w \in matching PROVE (\E i \in 1..Len(rows) : rows[i] = w) \/ Older(Key(w), Key(q[PageSize]))
        BY <3>1, <3>2
      <4>1. CASE \E i \in 1..Len(q) : q[i] = w
        <5>1. PICK i \in 1..Len(q) : q[i] = w
          BY <4>1
        <5>2. CASE i <= PageSize
          BY <2>4, <3>1, <5>1, <5>2
        <5>3. CASE i > PageSize
          <6>1. PageSize \in 1..Len(q) /\ PageSize < i /\ DOMAIN q = 1..Len(q)
            BY <1>1, <2>1, <2>3, <5>3, <3>1
          <6> QED BY <2>1, <5>1, <6>1 DEF Descending
        <5> QED BY <1>1, <5>1, <5>2, <5>3
      <4>2. CASE \A i \in 1..(PageSize + 1) : Older(Key(w), Key(q[i]))
        <5>1. PageSize \in 1..(PageSize + 1)
          BY <1>1
        <5> QED BY <4>2, <5>1
      <4> QED BY <2>1, <4>1, <4>2
    <3> QED BY <2>2, <2>3, <2>5, <2>6, <3>1, <3>2, <3>3, <3>5, PageKeeps
  <2>8. CASE Len(q) <= PageSize
    <3>3. finished' /\ finished' \in BOOLEAN
      BY <2>2, <2>8, Zenon
    <3>4. n = Len(q) /\ ~(Len(q) > PageSize)
      BY <1>1, <2>3, <2>8
    <3>1. n = Len(q) /\ finished' /\ cursor' = cursor /\ finished' \in BOOLEAN
      BY <2>2, <3>3, <3>4
    <3>5. Len(q) # PageSize + 1
      BY <1>1, <2>3, <2>8
    <3>6. \A w \in matching : \E i \in 1..Len(q) : q[i] = w
      BY <2>1, <3>5, Zenon
    <3>7. Len(rows) = Len(q) /\ \A i \in 1..Len(q) : rows[i] = q[i]
      BY <2>4, <3>4
    <3>8. \A w \in matching : \E i \in 1..Len(rows) : rows[i] = w
      <4> HIDE DEF matching, n
      <4> QED BY <3>6, <3>7
    <3>2. \A w \in Writers : rowState[w] = "there" /\ PastCursor(Key(w)) => \E i \in 1..Len(rows) : rows[i] = w
      BY <3>8, Zenon
    <3> QED BY <2>2, <2>3, <2>5, <2>6, <3>1, <3>2, PageKeeps
  <2> QED BY <1>1, <2>3, <2>7, <2>8
<1> QED BY <1>2, <1>3

(* No row is there, and nothing is shown. *)
LEMMA PageStarts == PageInit => ListInv
<1> SUFFICES ASSUME PageInit PROVE ListInv
  OBVIOUS
<1>1. Inserted = {} /\ Cardinality({}) = 0 /\ Cardinality(Writers) \in Nat
  BY FS_EmptySet, PageAssumption, FS_CardinalityType DEF PageInit, Inserted
<1>2. Range(shown) = {}
  BY DEF PageInit, Range
<1>3. PageTypeOK
  <2>1. finished \in BOOLEAN /\ shown \in Seq(Writers) /\ standing \subseteq Writers
    <3>1. finished \in BOOLEAN
      BY Zenon DEF PageInit
    <3>2. shown = <<>> /\ standing = {}
      BY DEF PageInit
    <3> QED BY <3>1, <3>2
  <2>2. 0 \in 0..LastInstant /\ 0 \in 0..Cardinality(Writers) /\ 1 \in 1..(Cardinality(Writers) + 1)
    BY <1>1, PageAssumption
  <2> QED BY <2>1, <2>2 DEF PageInit, PageTypeOK
<1>4. IdsDistinct
  BY <1>1 DEF PageInit, IdsDistinct
<1> QED BY <1>2, <1>3, <1>4 DEF PageInit, ListInv, StandingThere, ReaderAt, NewestFirst, Descending, StillToCome

(* The inductive invariant holds in every state. *)
THEOREM ListingInvariant == PageSpec => []ListInv
<1>1. ASSUME ListInv, [PageNext]_pageVars PROVE ListInv'
  <2>1. CASE UNCHANGED pageVars
    BY <1>1, <2>1 DEF pageVars, ListInv, PageTypeOK, IdsDistinct, StandingThere, ReaderAt, NewestFirst, StillToCome,
       Inserted, Settled, Descending, Older, Key
  <2> QED BY <1>1, <2>1, RowKeeps, ReadKeeps, TickPageKeeps DEF PageNext
<1> QED BY <1>1, PageStarts, PTL DEF PageSpec

(* The types of the listing's state. *)
THEOREM ListingTyped == PageSpec => []PageTypeOK
<1>1. ListInv => PageTypeOK
  BY DEF ListInv
<1> QED BY <1>1, ListingInvariant, PTL

(* URLsByUser, BookmarksByUser: a listing followed page by page shows      *)
(* every row that was there when it began and stayed, in one descending    *)
(* order and so none twice, for any number of rows and any size of page,   *)
(* while others come and go.                                               *)
THEOREM ListingsStayComplete == PageSpec => []ListingIsComplete
<1>1. ListInv => ListingIsComplete
  <2> SUFFICES ASSUME ListInv, finished PROVE standing \subseteq Range(shown)
    BY DEF ListInv, ListingIsComplete, NothingSkipped
  <2>1. listing # None
    BY DEF ListInv, ReaderAt
  <2> QED BY <2>1 DEF ListInv, StillToCome
<1> QED BY <1>1, ListingInvariant, PTL
=============================================================================
