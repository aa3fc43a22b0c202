---------------------------- MODULE BookmarkTags ----------------------------
(***************************************************************************)
(* Saving bookmarks with their tags (capstones/bookmark-manager,           *)
(* store.CreateBookmark, ensureTags and the handlers above them), deleting *)
(* them, and creating and deleting categories.  Postgres at READ           *)
(* COMMITTED: an INSERT waits for an open transaction that has the same    *)
(* unique key, and a cycle of such waits costs one of them its transaction.*)
(***************************************************************************)
EXTENDS Integers, Sequences, SequencesExt, NoValue

CONSTANTS
    Savers,         \* requests to save a bookmark
    Wishes,         \* what they may ask: [user, url, tags, category]
    CategoryIds,
    OwnerOf         \* the user who creates each category

VARIABLES
    tags,       \* committed rows of tags: [user, name]
    marks,      \* committed rows of bookmarks with their bookmark_tags: [by, user, url, names, category]
    cats,       \* committed rows of categories
    save,       \* what each saver asks
    step,       \* where its transaction is
    todo,       \* names its INSERT INTO tags has not come to
    mine,       \* names it has inserted
    found,      \* names its SELECT returned
    reply,      \* the answer
    saved       \* history: the bookmarks ever committed

tagVars == <<tags, marks, cats, save, step, todo, mine, found, reply, saved>>

ASSUME TagAssumption ==
    /\ None \notin CategoryIds
    /\ \A w \in Wishes : w.tags \in Seq(Range(w.tags)) /\ w.category \in CategoryIds \cup {None}

NoWish == [user |-> None]
Steps  == {"new", "tags", "select", "insert", "link", "commit", "done"}
Names  == UNION {Range(w.tags) : w \in Wishes}

TagTypeOK ==
    /\ tags \subseteq [user : {w.user : w \in Wishes}, name : Names]
    /\ \A m \in marks : m.by \in Savers /\ m.names \subseteq Names /\ m.category \in CategoryIds \cup {None}
    /\ cats \subseteq CategoryIds
    /\ save \in [Savers -> Wishes \cup {NoWish}]
    /\ step \in [Savers -> Steps]
    /\ \A r \in Savers : Range(todo[r]) \cup mine[r] \cup found[r] \subseteq Names
    /\ reply \in [Savers -> {0, 201, 400, 409, 500}]

TagInit ==
    /\ tags = {} /\ marks = {} /\ cats = {}
    /\ save = [r \in Savers |-> NoWish]
    /\ step = [r \in Savers |-> "new"]
    /\ todo = [r \in Savers |-> <<>>]
    /\ mine = [r \in Savers |-> {}]
    /\ found = [r \in Savers |-> {}]
    /\ reply = [r \in Savers |-> 0]
    /\ saved = {}

-----------------------------------------------------------------------------
User(r)     == save[r].user
HasTag(r, n) == [user |-> User(r), name |-> n] \in tags

(* uniqueTagNames keeps the first of each name. *)
UniqueTagNames(s) ==
    FoldLeft(LAMBDA unique, n : IF Contains(unique, n) THEN unique ELSE Append(unique, n), <<>>, s)

(* The unique keys of a transaction that is still open. *)
HoldsTag(d, u, n) == step[d] # "done" /\ save[d] # NoWish /\ User(d) = u /\ n \in mine[d]
HoldsUrl(d, u, x) == step[d] \in {"link", "commit"} /\ User(d) = u /\ save[d].url = x

(* Whom a statement waits for; the mutant looks at committed rows only. *)
WaitsForNobody(r) == {}

Waits(r) ==
    CASE step[r] = "tags" /\ todo[r] # <<>> ->
             {d \in Savers \ {r} : HoldsTag(d, User(r), Head(todo[r]))}
      [] step[r] = "insert" -> {d \in Savers \ {r} : HoldsUrl(d, User(r), save[r].url)}
      [] OTHER -> {}

(* The end of a request: what its transaction held is gone, or committed.  The    *)
(* mutant leaves the transaction open after a refusal.                            *)
EndWithoutRollback(r, status) ==
    /\ step' = [step EXCEPT ![r] = IF status \in {400, 409} THEN "insert" ELSE "done"]
    /\ reply' = [reply EXCEPT ![r] = status]
    /\ UNCHANGED <<todo, mine>>

End(r, status) ==
    /\ step' = [step EXCEPT ![r] = "done"]
    /\ reply' = [reply EXCEPT ![r] = status]
    /\ todo' = [todo EXCEPT ![r] = <<>>]
    /\ mine' = [mine EXCEPT ![r] = {}]

Save(r, w) ==
    /\ step[r] = "new"
    /\ save' = [save EXCEPT ![r] = w]
    /\ todo' = [todo EXCEPT ![r] = UniqueTagNames(w.tags)]
    /\ step' = [step EXCEPT ![r] = IF w.tags = <<>> THEN "insert" ELSE "tags"]
    /\ UNCHANGED <<tags, marks, cats, mine, found, reply, saved>>

(* INSERT INTO tags ... ON CONFLICT DO NOTHING: one row after the other, each     *)
(* after the transaction that holds its name has ended.                           *)
EnsureTag(r) ==
    /\ step[r] = "tags" /\ todo[r] # <<>> /\ Waits(r) = {}
    /\ todo' = [todo EXCEPT ![r] = Tail(@)]
    /\ mine' = [mine EXCEPT ![r] = IF HasTag(r, Head(todo[r])) THEN @ ELSE @ \cup {Head(todo[r])}]
    /\ UNCHANGED <<tags, marks, cats, save, step, found, reply, saved>>

(* The SELECT that follows has a snapshot of its own, and sees what the INSERT    *)
(* waited for.  The mutant takes the INSERT's RETURNING instead.                  *)
SelectReturning(r) ==
    /\ step[r] = "tags" /\ todo[r] = <<>>
    /\ found' = [found EXCEPT ![r] = mine[r]]
    /\ step' = [step EXCEPT ![r] = "insert"]
    /\ UNCHANGED <<tags, marks, cats, save, todo, mine, reply, saved>>

SelectTags(r) ==
    /\ step[r] = "tags" /\ todo[r] = <<>>
    /\ found' = [found EXCEPT ![r] =
                   {n \in Range(save[r].tags) : HasTag(r, n) \/ n \in mine[r]}]
    /\ step' = [step EXCEPT ![r] = "insert"]
    /\ UNCHANGED <<tags, marks, cats, save, todo, mine, reply, saved>>

Committed(r) == \E m \in marks : m.user = User(r) /\ m.url = save[r].url

(* The composite key of migration 002; the mutant is the key of 001. *)
CategoryExists(r) == save[r].category \in cats \cup {None}

CategoryFits(r) ==
    save[r].category = None \/ (save[r].category \in cats /\ OwnerOf[save[r].category] = User(r))

(* The mutant answers a category that is not there as an address that is not there. *)
InsertAnswersNotFound(r) ==
    /\ step[r] = "insert" /\ Waits(r) = {}
    /\ IF Committed(r) THEN End(r, 409)
       ELSE IF ~CategoryFits(r) THEN End(r, 404)
       ELSE step' = [step EXCEPT ![r] = "link"] /\ UNCHANGED <<todo, mine, reply>>
    /\ UNCHANGED <<tags, marks, cats, save, found, saved>>

(* INSERT INTO bookmarks: the unique key first, then the foreign key. *)
InsertBookmark(r) ==
    /\ step[r] = "insert" /\ Waits(r) = {}
    /\ IF Committed(r) THEN End(r, 409)
       ELSE IF ~CategoryFits(r) THEN End(r, 400)
       ELSE step' = [step EXCEPT ![r] = "link"] /\ UNCHANGED <<todo, mine, reply>>
    /\ UNCHANGED <<tags, marks, cats, save, found, saved>>

(* INSERT INTO bookmark_tags, for the ids the SELECT gave; not for none. *)
LinkTags(r) ==
    /\ step[r] = "link"
    /\ step' = [step EXCEPT ![r] = "commit"]
    /\ UNCHANGED <<tags, marks, cats, save, todo, mine, found, reply, saved>>

Row(r) == [by |-> r, user |-> User(r), url |-> save[r].url, names |-> found[r],
           category |-> save[r].category]

(* COMMIT publishes all of it; its reply may be lost. *)
CommitSave(r) ==
    /\ step[r] = "commit"
    /\ tags' = tags \cup {[user |-> User(r), name |-> n] : n \in mine[r]}
    /\ marks' = marks \cup {Row(r)}
    /\ saved' = saved \cup {r}
    /\ \E status \in {201, 500} : End(r, status)
    /\ UNCHANGED <<cats, save, found>>

(* A statement fails, or the client leaves: Rollback.  The mutant is the earlier  *)
(* EnsureTags, which commits the tags on its own.                                 *)
FailKeepsTags(r) ==
    /\ step[r] \in {"tags", "insert", "link", "commit"}
    /\ tags' = tags \cup {[user |-> User(r), name |-> n] : n \in mine[r]}
    /\ End(r, 500)
    /\ UNCHANGED <<marks, cats, save, found, saved>>

FailSave(r) ==
    /\ step[r] \in {"tags", "insert", "link", "commit"}
    /\ End(r, 500)
    /\ UNCHANGED <<tags, marks, cats, save, found, saved>>

(* Savers that wait for each other in a circle. *)
Deadlocked(D) ==
    /\ D # {}
    /\ \A d \in D : Waits(d) \cap D # {} /\ \E e \in D : d \in Waits(e)

(* deadlock_detected: Postgres aborts one of them. *)
Victim(r) ==
    /\ \E D \in SUBSET Savers : r \in D /\ Deadlocked(D)
    /\ End(r, 500)
    /\ UNCHANGED <<tags, marks, cats, save, found, saved>>

(* DeleteBookmark takes the rows of bookmark_tags with it (ON DELETE CASCADE). *)
DeleteBookmark(m) ==
    /\ marks' = marks \ {m}
    /\ UNCHANGED <<tags, cats, save, step, todo, mine, found, reply, saved>>

CreateCategory(c) ==
    /\ c \notin cats
    /\ cats' = cats \cup {c}
    /\ UNCHANGED <<tags, marks, save, step, todo, mine, found, reply, saved>>

(* DeleteCategory waits for an open transaction whose bookmark refers to the row, *)
(* then unfiles its bookmarks (ON DELETE SET NULL).                               *)
DeleteCategory(c) ==
    /\ c \in cats
    /\ \A r \in Savers : step[r] \in {"link", "commit"} => save[r].category # c
    /\ cats' = cats \ {c}
    /\ marks' = {IF m.category = c THEN [m EXCEPT !.category = None] ELSE m : m \in marks}
    /\ UNCHANGED <<tags, save, step, todo, mine, found, reply, saved>>

SaveStep(r) ==
    EnsureTag(r) \/ SelectTags(r) \/ InsertBookmark(r) \/ LinkTags(r) \/ CommitSave(r) \/ Victim(r)

TagNext ==
    \/ \E r \in Savers : SaveStep(r) \/ FailSave(r) \/ \E w \in Wishes : Save(r, w)
    \/ \E m \in marks : DeleteBookmark(m)
    \/ \E c \in CategoryIds : CreateCategory(c) \/ DeleteCategory(c)

TagSpec == TagInit /\ [][TagNext]_tagVars

-----------------------------------------------------------------------------
(* Properties. *)

(* A bookmark has all the tags it was saved with, also those another       *)
(* request was creating at the same time ("a bookmark with half its tags   *)
(* is worse than no bookmark").                                            *)
AllTags == \A m \in marks : m.names = Range(save[m.by].tags)

(* No tag outlives a request that saved nothing: every committed tag came  *)
(* with a bookmark that was committed ("tags created for a bookmark that   *)
(* was then refused are clutter nobody asked for").                        *)
NoClutter ==
    \A t \in tags : \E r \in saved : User(r) = t.user /\ t.name \in Range(save[r].tags)

(* A user saves a URL once, whatever overlaps, and is refused for a        *)
(* duplicate only if another request of theirs had saved it.               *)
UrlSavedOnce ==
    /\ \A m, n \in marks : m.user = n.user /\ m.url = n.url => m = n
    /\ \A r \in Savers : reply[r] = 409 =>
           \E d \in saved \ {r} : User(d) = User(r) /\ save[d].url = save[r].url

(* A bookmark is filed under a category of its owner's that exists, however *)
(* deletes of the category overlap with saves.                             *)
FiledUnderOwn ==
    \A m \in marks : m.category # None => m.category \in cats /\ OwnerOf[m.category] = m.user

(* Tags in another order make two savers wait for each other; Postgres     *)
(* breaks the circle, and every request is answered.                       *)
TagFairness == \A r \in Savers : WF_tagVars(SaveStep(r))
EverySaveAnswered == \A r \in Savers : []<>(step[r] \in {"new", "done"})

(* A bookmark is saved whole or not at all, once, and under its owner's     *)
(* category (CreateBookmark, ensureTags).                                   *)
BookmarksAreWhole == AllTags /\ NoClutter /\ UrlSavedOnce /\ FiledUnderOwn
=============================================================================
