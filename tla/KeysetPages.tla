---------------------------- MODULE KeysetPages ----------------------------
(***************************************************************************)
(* A client reads a listing page by page while rows come and go: the URLs  *)
(* of capstones/url-shortener (URLsByUser, handleListURLs) and the         *)
(* bookmarks, all or by tag, of capstones/bookmark-manager (ListTwoQueries,*)
(* BookmarksByTag, handleListBookmarks).  A row's created_at is the start  *)
(* of its transaction and its id comes later from a sequence, so rows      *)
(* appear in an order that neither of them follows.                        *)
(***************************************************************************)
EXTENDS Integers, Sequences, SequencesExt, FiniteSetsExt, NoValue

CONSTANTS
    Writers,      \* each writes one row
    PageSize,     \* limit
    LastInstant   \* bound: the last created_at

ASSUME PageAssumption ==
    /\ IsFiniteSet(Writers) /\ PageSize \in Nat \ {0} /\ LastInstant \in Nat
    /\ None \notin (Nat \X Nat) \cup {"urls", "bookmarks"}

VARIABLES
    instant,
    rowState,     \* "none", "begun", "inserted", "there" or "gone"
    createdAt, rowId, nextId,
    listing,      \* "urls" or "bookmarks", or None before the first page
    cursor,       \* where the last page stopped, or None
    finished,     \* the last page had no next
    shown,        \* the rows shown so far
    standing      \* history: rows there at the first page and not deleted since

pageVars == <<instant, rowState, createdAt, rowId, nextId, listing, cursor, finished, shown, standing>>

PageTypeOK ==
    /\ instant \in 0..LastInstant
    /\ rowState \in [Writers -> {"none", "begun", "inserted", "there", "gone"}]
    /\ createdAt \in [Writers -> 0..LastInstant]
    /\ rowId \in [Writers -> 0..Cardinality(Writers)] /\ nextId \in 1..(Cardinality(Writers) + 1)
    /\ listing \in {None, "urls", "bookmarks"}
    /\ cursor = None \/ cursor \in (0..LastInstant) \X Nat
    /\ finished \in BOOLEAN
    /\ shown \in Seq(Writers)
    /\ standing \subseteq Writers

PageInit ==
    /\ instant = 0
    /\ rowState = [w \in Writers |-> "none"]
    /\ createdAt = [w \in Writers |-> 0]
    /\ rowId = [w \in Writers |-> 0]
    /\ nextId = 1
    /\ listing = None /\ cursor = None /\ finished = FALSE
    /\ shown = <<>>
    /\ standing = {}

-----------------------------------------------------------------------------
Become(w, from, to) == rowState[w] = from /\ rowState' = [rowState EXCEPT ![w] = to]

reader == <<listing, cursor, finished, shown>>

(* BEGIN: created_at defaults to now(), the transaction's start. *)
BeginRow(w) ==
    /\ Become(w, "none", "begun")
    /\ createdAt' = [createdAt EXCEPT ![w] = instant]
    /\ UNCHANGED <<instant, rowId, nextId, reader, standing>>

InsertRow(w) ==
    /\ Become(w, "begun", "inserted")
    /\ rowId' = [rowId EXCEPT ![w] = nextId]
    /\ nextId' = nextId + 1
    /\ UNCHANGED <<instant, createdAt, reader, standing>>

CommitRow(w) ==
    /\ Become(w, "inserted", "there")
    /\ UNCHANGED <<instant, createdAt, rowId, nextId, reader, standing>>

DeleteRow(w) ==
    /\ Become(w, "there", "gone")
    /\ standing' = standing \ {w}
    /\ UNCHANGED <<instant, createdAt, rowId, nextId, reader>>

PageTick ==
    /\ instant < LastInstant
    /\ instant' = instant + 1
    /\ UNCHANGED <<rowState, createdAt, rowId, nextId, reader, standing>>

Key(w) == <<createdAt[w], rowId[w]>>

(* ORDER BY created_at DESC, id DESC. *)
Older(k, l) == k[1] < l[1] \/ (k[1] = l[1] /\ k[2] < l[2])

(* (created_at, id) < ($2, $3).  One mutant compares created_at alone, the other  *)
(* starts the page at the cursor's own row.                                       *)
PastCursorByTime(k) == cursor = None \/ k[1] < cursor[1]
PastCursorOrAt(k)   == cursor = None \/ k = cursor \/ Older(k, cursor)

PastCursor(k) == cursor = None \/ Older(k, cursor)

Descending(rows) == \A i, j \in DOMAIN rows : i < j => Older(Key(rows[j]), Key(rows[i]))
Sorted(S) == CHOOSE rows \in [1..Cardinality(S) -> S] : Descending(rows)

(* WHERE (created_at, id) < cursor ORDER BY created_at DESC, id DESC LIMIT n. *)
Query(n) ==
    LET sorted == Sorted({w \in Writers : rowState[w] = "there" /\ PastCursor(Key(w))})
    IN  SubSeq(sorted, 1, Min({n, Len(sorted)}))

(* The mutant puts the row itself into the cursor, not its key. *)
UrlsPageByRow(rows) ==
    /\ shown' = shown \o rows
    /\ finished' = (Len(rows) < PageSize)
    /\ cursor' = IF Len(rows) = PageSize THEN Last(rows) ELSE cursor

(* handleListURLs: a full page may have a next one, after its last row.           *)
UrlsPage(rows) ==
    /\ shown' = shown \o rows
    /\ finished' = (Len(rows) < PageSize)
    /\ cursor' = IF Len(rows) = PageSize THEN Key(Last(rows)) ELSE cursor

(* writeList: one row more than the page says that there is a next one, and is    *)
(* dropped.                                                                       *)
BookmarksPage(rows) ==
    /\ shown' = shown \o SubSeq(rows, 1, Min({PageSize, Len(rows)}))
    /\ finished' = (Len(rows) <= PageSize)
    /\ cursor' = IF Len(rows) > PageSize THEN Key(rows[PageSize]) ELSE cursor

(* One request: one statement over one snapshot (the bookmarks' tags come from a  *)
(* second one, and are not shown here).                                           *)
ReadPage(what) ==
    /\ listing \in {None, what} /\ ~finished
    /\ listing' = what
    /\ IF what = "urls" THEN UrlsPage(Query(PageSize)) ELSE BookmarksPage(Query(PageSize + 1))
    /\ standing' = IF listing = None THEN {w \in Writers : rowState[w] = "there"} ELSE standing
    /\ UNCHANGED <<instant, rowState, createdAt, rowId, nextId>>

PageNext ==
    \/ \E w \in Writers : BeginRow(w) \/ InsertRow(w) \/ CommitRow(w) \/ DeleteRow(w)
    \/ \E what \in {"urls", "bookmarks"} : ReadPage(what)
    \/ PageTick

PageSpec == PageInit /\ [][PageNext]_pageVars

-----------------------------------------------------------------------------
(* Properties. *)

(* A client that follows "next" to the end has seen every row that was     *)
(* there from its first page on, whatever was created, committed late or   *)
(* deleted between the pages.                                              *)
NothingSkipped == finished => standing \subseteq Range(shown)

(* Nothing is shown twice, and pages continue where the last one stopped:  *)
(* all the rows shown are in one strictly descending order.                *)
NewestFirst == Descending(shown)

(* A listing followed page by page shows every row that stood, in order.    *)
ListingIsComplete == NothingSkipped /\ NewestFirst
=============================================================================
