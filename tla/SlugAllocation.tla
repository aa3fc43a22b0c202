--------------------------- MODULE SlugAllocation ---------------------------
(***************************************************************************)
(* Creating a short link (capstones/url-shortener, store.CreateURL and     *)
(* handleCreateURL): custom and generated slugs share one unique index,    *)
(* ids come from a sequence that no rollback gives back, and an INSERT     *)
(* waits for whoever has the same slug in a transaction still open.        *)
(***************************************************************************)
EXTENDS Integers, FiniteSets, NoValue

CONSTANTS
    Creators,      \* requests
    Slugs, Reserved,
    Multiplier, Modulus,   \* shortener.Obfuscate's
    Attempts,      \* 5 in the code
    MaxId          \* bound: ids the sequence hands out

Link    == [by : Creators, id : 1..MaxId, custom : BOOLEAN]
Answers == {"created", "conflict", "error"}

ASSUME SlugAssumption ==
    /\ Attempts \in Nat \ {0} /\ MaxId \in Nat
    /\ Multiplier \in Nat \ {0} /\ Modulus \in Nat \ {0}
    /\ 1..(Modulus - 1) \subseteq Slugs /\ Reserved \subseteq Slugs
    /\ \A i \in 1..(Modulus - 1) : (i * Multiplier) % Modulus \in Slugs
    /\ \A i, j \in 1..(Modulus - 1) :
           (i * Multiplier) % Modulus = (j * Multiplier) % Modulus => i = j
    /\ None \notin Slugs \cup Creators \cup Link \cup Answers

VARIABLES
    link,     \* committed rows of urls: slug -> [by, id, custom], or None
    lastId,   \* urls_id_seq
    stage,    \* where each request is
    wish,     \* the custom slug each request asks for, or None
    id,       \* the id each request reserved last
    row,      \* the slug of the row each open transaction has inserted
    tries,    \* generated slugs tried
    told,     \* the answer
    got, met  \* history: the slug committed for a request; the ids whose slugs it found taken

slugVars == <<link, lastId, stage, wish, id, row, tries, told, got, met>>

Stages == {"new", "begun", "insert", "commit", "commitSent", "done"}

SlugTypeOK ==
    /\ link \in [Slugs -> Link \cup {None}]
    /\ lastId \in 0..MaxId
    /\ stage \in [Creators -> Stages]
    /\ wish \in [Creators -> Slugs \cup {None}]
    /\ id \in [Creators -> 0..MaxId]
    /\ row \in [Creators -> Slugs \cup {None}]
    /\ tries \in [Creators -> 0..Attempts]
    /\ told \in [Creators -> Answers \cup {None}]
    /\ got \in [Creators -> Slugs \cup {None}]
    /\ met \in [Creators -> SUBSET (1..MaxId)]

SlugInit ==
    /\ link = [s \in Slugs |-> None]
    /\ lastId = 0
    /\ stage = [c \in Creators |-> "new"]
    /\ wish = [c \in Creators |-> None]
    /\ id = [c \in Creators |-> 0]
    /\ row = [c \in Creators |-> None]
    /\ tries = [c \in Creators |-> 0]
    /\ told = [c \in Creators |-> None]
    /\ got = [c \in Creators |-> None]
    /\ met = [c \in Creators |-> {}]

-----------------------------------------------------------------------------
(* The answer ends the request, and its transaction with it (the deferred         *)
(* Rollback); the mutant forgets the transaction.                                 *)
FinishKeepsTx(c, answer) ==
    /\ stage' = [stage EXCEPT ![c] = "done"]
    /\ told' = [told EXCEPT ![c] = answer]
    /\ row' = row

Finish(c, answer) ==
    /\ stage' = [stage EXCEPT ![c] = "done"]
    /\ told' = [told EXCEPT ![c] = answer]
    /\ row' = [row EXCEPT ![c] = None]

(* handleCreateURL validates a custom slug (ValidateCustom) and opens the transaction. *)
Ask(c, s) ==
    /\ stage[c] = "new"
    /\ s \notin Reserved
    /\ wish' = [wish EXCEPT ![c] = s]
    /\ stage' = [stage EXCEPT ![c] = "begun"]
    /\ UNCHANGED <<link, lastId, id, row, tries, told, got, met>>

(* The id is nextval's, or the column's default; a sequence is not part of any    *)
(* transaction.  The mutant takes the next id after the rows it can see.          *)
TakeIdFromRows(c) ==
    LET seen == {link[s].id : s \in {t \in Slugs : link[t] # None}}
    IN  /\ lastId < MaxId
        /\ lastId' = lastId + 1
        /\ id' = [id EXCEPT ![c] = CHOOSE i \in 1..MaxId :
                      i \notin seen /\ \A j \in 1..MaxId : j \notin seen => i <= j]

TakeId(c) ==
    /\ lastId < MaxId
    /\ lastId' = lastId + 1
    /\ id' = [id EXCEPT ![c] = lastId']

Reserve(c) ==
    /\ stage[c] = "begun"
    /\ TakeId(c)
    /\ stage' = [stage EXCEPT ![c] = "insert"]
    /\ UNCHANGED <<link, wish, row, tries, told, got, met>>

(* Obfuscate: a slug is the number it encodes.  Multiplier and Modulus have no    *)
(* common factor, so two ids never share one.                                     *)
SlugOf(i) == (i * Multiplier) % Modulus

Slug(c) == IF wish[c] # None THEN wish[c] ELSE SlugOf(id[c])

(* An id beyond the obfuscated space has no slug: Obfuscate fails, and it is the  *)
(* server that failed, not the request, as the mutant would have it.              *)
NoSlugBadRequest(c) ==
    /\ stage[c] = "insert" /\ wish[c] = None /\ id[c] >= Modulus
    /\ Finish(c, "badRequest")
    /\ UNCHANGED <<link, lastId, wish, id, tries, got, met>>

NoSlug(c) ==
    /\ stage[c] = "insert" /\ wish[c] = None /\ id[c] >= Modulus
    /\ Finish(c, "error")
    /\ UNCHANGED <<link, lastId, wish, id, tries, got, met>>

CanInsert(c) == stage[c] = "insert" /\ (wish[c] = None => id[c] < Modulus)

(* The unique index: an entry of an open transaction makes the INSERT wait until  *)
(* that transaction ends.  The mutant looks at committed rows only.               *)
FreeIgnoresOpen(s, c) == link[s] = None

Free(s, c) == link[s] = None /\ \A d \in Creators : row[d] # s

Insert(c) ==
    /\ CanInsert(c)
    /\ Free(Slug(c), c)
    /\ row' = [row EXCEPT ![c] = Slug(c)]
    /\ stage' = [stage EXCEPT ![c] = "commit"]
    /\ UNCHANGED <<link, lastId, wish, id, tries, told, got, met>>

(* unique_violation.  A custom slug is refused; a generated one goes back to the  *)
(* savepoint and tries the next id, Attempts times.  The mutant tries once more   *)
(* with the same id.                                                              *)
TakenTriesAgain(c) ==
    /\ CanInsert(c) /\ link[Slug(c)] # None
    /\ tries' = [tries EXCEPT ![c] = @ + 1]
    /\ met' = [met EXCEPT ![c] = @ \cup {id[c]}]
    /\ IF wish[c] # None \/ tries'[c] = Attempts
       THEN Finish(c, "conflict")
       ELSE UNCHANGED <<stage, row, told>>
    /\ UNCHANGED <<link, lastId, wish, id, got>>

Taken(c) ==
    /\ CanInsert(c) /\ link[Slug(c)] # None
    /\ tries' = [tries EXCEPT ![c] = @ + 1]
    /\ met' = [met EXCEPT ![c] = @ \cup {id[c]}]
    /\ IF wish[c] # None \/ tries'[c] = Attempts
       THEN Finish(c, "conflict")
       ELSE stage' = [stage EXCEPT ![c] = "begun"] /\ UNCHANGED <<row, told>>
    /\ UNCHANGED <<link, lastId, wish, id, got>>

(* COMMIT: the row is there, and the answer says so, or its reply is lost on the  *)
(* way and the request ends in an error with the row there.                       *)
CommitLink(c) ==
    /\ stage[c] = "commit"
    /\ link' = [link EXCEPT ![row[c]] =
                  [by |-> c, id |-> id[c], custom |-> wish[c] # None]]
    /\ got' = [got EXCEPT ![c] = row[c]]
    /\ row' = [row EXCEPT ![c] = None]
    /\ stage' = [stage EXCEPT ![c] = "commitSent"]
    /\ UNCHANGED <<lastId, wish, id, tries, told, met>>

Created(c) ==
    /\ stage[c] = "commitSent"
    /\ \E a \in {"created", "error"} : Finish(c, a)
    /\ UNCHANGED <<link, lastId, wish, id, tries, got, met>>

(* Any statement fails, or the client leaves: the transaction rolls back. *)
Abort(c) ==
    /\ stage[c] \in {"begun", "insert", "commit"}
    /\ Finish(c, "error")
    /\ UNCHANGED <<link, lastId, wish, id, tries, got, met>>

(* The owner or the sweep deletes a row: one statement of its own. *)
DeleteLink(s) ==
    /\ link[s] # None
    /\ link' = [link EXCEPT ![s] = None]
    /\ UNCHANGED <<lastId, stage, wish, id, row, tries, told, got, met>>

SlugStep(c) ==
    Reserve(c) \/ NoSlug(c) \/ Insert(c) \/ Taken(c) \/ CommitLink(c) \/ Created(c)

SlugNext ==
    \/ \E c \in Creators :
           \/ \E s \in Slugs \cup {None} : Ask(c, s)
           \/ SlugStep(c) \/ Abort(c)
    \/ \E s \in Slugs : DeleteLink(s)

SlugSpec == SlugInit /\ [][SlugNext]_slugVars

-----------------------------------------------------------------------------
(* Properties. *)

(* An id names one row: no two rows, committed or in a transaction still   *)
(* open, share an id, whatever was rolled back (the primary key never      *)
(* refuses an INSERT, which CreateURL would answer with a 500).            *)
IdNamesOneRow ==
    /\ \A s, t \in Slugs : link[s] # None /\ link[t] # None /\ link[s].id = link[t].id => s = t
    /\ \A c, d \in Creators : stage[c] \in {"insert", "commit"} =>
           /\ \A s \in Slugs : link[s] # None => link[s].id # id[c]
           /\ c # d /\ stage[d] \in {"insert", "commit"} => id[c] # id[d]

(* "Generated slugs never collide with each other": whoever finds a        *)
(* generated slug taken, in a committed row or in one that another         *)
(* transaction holds, found a custom one.                                  *)
GeneratedMeetsCustom ==
    \A c \in Creators : CanInsert(c) /\ wish[c] = None =>
        /\ link[Slug(c)] # None => link[Slug(c)].custom
        /\ \A d \in Creators : d # c /\ row[d] = Slug(c) => wish[d] # None

(* A request without a slug of its own is refused only after Attempts ids  *)
(* whose slugs were all taken, and each attempt costs one id.              *)
RefusedAfterAttempts ==
    \A c \in Creators : told[c] = "conflict" =>
        Cardinality(met[c]) = (IF wish[c] # None THEN 1 ELSE Attempts)

(* Ids, attempts, savepoints and waits implement the directory: one owner  *)
(* per slug, at most one slug per request, and an answer that agrees.      *)
Directory == INSTANCE SlugDirectory WITH
    owner <- [s \in Slugs |-> IF link[s] = None THEN None ELSE link[s].by],
    given <- got, reply <- told
ImplementsDirectory == Directory!DirSpec

(* Who asks is answered: each request runs on its own, and a wait ends     *)
(* with the transaction it waits for.                                      *)
SlugFairness == \A c \in Creators : WF_slugVars(SlugStep(c))
EveryCreateAnswered ==
    \A c \in Creators : []<>(stage[c] \in {"new", "done"})

(* The ids and attempts behind a generated slug (insertGenerated): an id    *)
(* names one row, only custom slugs are met, and only they use up attempts. *)
SlugsAreAllocated == IdNamesOneRow /\ GeneratedMeetsCustom /\ RefusedAfterAttempts
=============================================================================
