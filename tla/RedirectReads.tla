--------------------------- MODULE RedirectReads ---------------------------
(***************************************************************************)
(* RedirectCache with one more history variable: when the handler that     *)
(* deleted a link got its cache delete through.  It states what the        *)
(* comments of internal/cache say a reader sees after that.                *)
(***************************************************************************)
EXTENDS RedirectCache

VARIABLE clearedAt   \* history, by id

rvars == <<vars, clearedAt>>

RInit == Init /\ clearedAt = [i \in Ids |-> Never]

(* The cache delete went through, and history notes when. *)
ClearKeySeen(w) ==
    /\ ClearKey(w)
    /\ clearedAt' = IF w.op = "delete" THEN [clearedAt EXCEPT ![w.id] = now] ELSE clearedAt

Others == Next /\ UNCHANGED clearedAt

RNext == (\E w \in pending : ClearKeySeen(w)) \/ Others
RSpec == RInit /\ [][RNext]_rvars

(* The request began after the key of this deleted link was cleared. *)
After(r, id) == clearedAt[id] < reqs[r].started

(* A request that begins after a link and its cache key were deleted does  *)
(* not redirect to it: "a delete makes the next reader fetch, which cannot *)
(* be stale", and the old redirect "ends at the next read".                *)
NextReadFresh ==
    \A r \in Requests :
        reqs[r].pc = "decide" /\ reqs[r].entry \in Ids /\ ~Expired(reqs[r].entry) =>
            ~After(r, reqs[r].entry)
=============================================================================
