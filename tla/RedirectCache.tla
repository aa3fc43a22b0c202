--------------------------- MODULE RedirectCache ---------------------------
(***************************************************************************)
(* The redirect path of capstones/url-shortener: GET /{slug} reads Redis,  *)
(* collapses concurrent misses onto one database fetch per process, and    *)
(* caches what it found; creating and deleting a link change Postgres and  *)
(* then delete the key; a nightly sweep deletes expired rows and leaves    *)
(* the cache alone (internal/cache/cache.go, internal/api/api.go,          *)
(* internal/store/store.go).                                               *)
(*                                                                         *)
(* A link is its row id.  No operation of the store updates a link's slug, *)
(* target or expiry, so an id stands for all three and a cached Entry is   *)
(* an id, or Missing for a negative entry.  Time is a clock all machines   *)
(* share.                                                                  *)
(***************************************************************************)
EXTENDS Integers, FiniteSets

CONSTANTS
    Slugs,       \* the slugs clients ask for
    Requests,    \* concurrent GET /{slug} requests, each one reused after its answer
    Procs,       \* API processes: singleflight collapses inside one of them only
    Lifetimes,   \* how far ahead a new link's expires_at may lie
    MaxId,       \* bound: links ever created
    MaxTime,     \* bound: the last instant
    TTL, NegativeTTL,
    LoadTimeout, \* bounds the shared fetch
    PutTimeout   \* bounds one Redis write (the client's dial, read and write timeouts)

ASSUME ConstantsAssumption ==
    /\ Lifetimes \subseteq Nat
    /\ MaxId \in Nat /\ MaxTime \in Nat
    /\ TTL \in Nat \ {0} /\ NegativeTTL \in Nat \ {0}
    /\ LoadTimeout \in Nat /\ PutTimeout \in Nat

Ids     == 1..MaxId
Missing == 0             \* a negative entry, and in rows: no such row
Garbled == -1            \* a value that no longer decodes (an older struct)
Failed  == -2            \* an error in place of an entry
Entries == Ids \cup {Missing}
Times   == 0..MaxTime
Never   == MaxTime + 1   \* later than every instant: no expiry, not deleted

VARIABLES
    now,
    rows,        \* urls by slug: the id, or Missing
    lastId,      \* urls_id_seq
    expiresAt,   \* the column, by id: an entry copies it
    createdAt,   \* history, by slug: when its present row was inserted
    deletedAt,   \* history, by id
    cache,       \* Redis: [entry, until]; the key exists while now < until
    flights,     \* singleflight.Group of each process
    reqs,        \* the redirect handlers
    pending      \* handlers that have committed and still have to delete the key

vars == <<now, rows, lastId, expiresAt, createdAt, deletedAt, cache,
          flights, reqs, pending>>

dbVars == <<rows, lastId, expiresAt, createdAt, deletedAt>>

Ops       == {"create", "delete"}
Writes    == [op : Ops, slug : Slugs, id : Ids]
Absent    == [entry |-> Missing, until |-> 0]
NoFlight  == [stage |-> "none", entry |-> Missing, ttl |-> 0, by |-> 0]
Stages    == {"none", "fetch", "put", "set"}
Flight    == [stage : Stages, entry : Entries, ttl : Nat, by : Nat]
Answers   == {"redirect", "notFound", "gone", "error", "left"}
Phases    == {"idle", "get", "drop", "join", "wait", "decide"} \cup Answers
Request   == [pc : Phases, at : Procs \X Slugs, started : Times,
              entry : Entries \cup {Failed}]

TypeOK ==
    /\ now \in Times
    /\ rows \in [Slugs -> Entries]
    /\ lastId \in 0..MaxId
    /\ expiresAt \in [Ids -> 0..Never]
    /\ createdAt \in [Slugs -> Times]
    /\ deletedAt \in [Ids -> 0..Never]
    /\ cache \in [Slugs -> [entry : Entries \cup {Garbled}, until : Nat]]
    /\ flights \in [Procs \X Slugs -> Flight]
    /\ reqs \in [Requests -> Request]
    /\ pending \subseteq Writes

(* A request that has not begun or that is over keeps nothing but its outcome. *)
Blank(pc, f) == [pc |-> pc, at |-> f, started |-> 0, entry |-> Missing]

(* A deploy may have left a value of an older struct under a key. *)
Init ==
    /\ now = 0
    /\ rows = [s \in Slugs |-> Missing]
    /\ lastId = 0
    /\ expiresAt = [i \in Ids |-> Never]
    /\ createdAt = [s \in Slugs |-> 0]
    /\ deletedAt = [i \in Ids |-> Never]
    /\ cache \in [Slugs -> {Absent, [entry |-> Garbled, until |-> TTL]}]
    /\ flights = [f \in Procs \X Slugs |-> NoFlight]
    /\ \E f \in Procs \X Slugs : reqs = [r \in Requests |-> Blank("idle", f)]
    /\ pending = {}

Present(s) == now < cache[s].until
Expired(i) == expiresAt[i] < now

-----------------------------------------------------------------------------
(* The writers: one database transaction, then the cache. *)

(* handleCreateURL up to the commit of CreateURL.  A taken slug is a 409. *)
Create(s, at) ==
    /\ lastId < MaxId
    /\ rows[s] = Missing
    /\ at = Never \/ (at - now) \in Lifetimes
    /\ lastId' = lastId + 1
    /\ rows' = [rows EXCEPT ![s] = lastId']
    /\ expiresAt' = [expiresAt EXCEPT ![lastId'] = at]
    /\ createdAt' = [createdAt EXCEPT ![s] = now]
    /\ pending' = pending \cup {[op |-> "create", slug |-> s, id |-> lastId']}
    /\ UNCHANGED <<now, deletedAt, cache, flights, reqs>>

(* handleDeleteURL up to the DELETE; no row is a 404. *)
DeleteURL(s) ==
    /\ rows[s] # Missing
    /\ rows' = [rows EXCEPT ![s] = Missing]
    /\ createdAt' = [createdAt EXCEPT ![s] = 0]
    /\ deletedAt' = [deletedAt EXCEPT ![rows[s]] = now]
    /\ pending' = pending \cup {[op |-> "delete", slug |-> s, id |-> rows[s]]}
    /\ UNCHANGED <<now, lastId, expiresAt, cache, flights, reqs>>

(* cache.Delete after the write, and its failure, which is only logged. *)
ClearKey(w) ==
    /\ w \in pending
    /\ cache' = [cache EXCEPT ![w.slug] = Absent]
    /\ pending' = pending \ {w}
    /\ UNCHANGED <<now, dbVars, flights, reqs>>

ClearKeyFails(w) ==
    /\ w \in pending
    /\ pending' = pending \ {w}
    /\ UNCHANGED <<now, dbVars, cache, flights, reqs>>

(* The sweep: DELETE ... WHERE expires_at < now(), and no cache delete. *)
DeleteExpired ==
    LET swept == {s \in Slugs : rows[s] # Missing /\ Expired(rows[s])} IN
    /\ swept # {}
    /\ rows' = [s \in Slugs |-> IF s \in swept THEN Missing ELSE rows[s]]
    /\ createdAt' = [s \in Slugs |-> IF s \in swept THEN 0 ELSE createdAt[s]]
    /\ deletedAt' = [i \in Ids |->
                        IF \E s \in swept : rows[s] = i THEN now ELSE deletedAt[i]]
    /\ UNCHANGED <<now, lastId, expiresAt, cache, flights, reqs, pending>>

-----------------------------------------------------------------------------
(* The redirect handler. *)

Goto(r, pc)   == reqs' = [reqs EXCEPT ![r].pc = pc]
Return(r, pc) == reqs' = [reqs EXCEPT ![r] = Blank(pc, reqs[r].at)]

Start(r, f) ==
    /\ reqs[r].pc \in {"idle"} \cup Answers
    /\ reqs' = [reqs EXCEPT ![r] = [pc |-> "get", at |-> f, started |-> now, entry |-> Missing]]
    /\ UNCHANGED <<now, dbVars, cache, flights, pending>>

(* cache.Get.  A Redis error falls through to the database like a miss. *)
Get(r) ==
    LET s == reqs[r].at[2] IN
    /\ reqs[r].pc = "get"
    /\ \/ /\ Present(s) /\ cache[s].entry # Garbled
          /\ reqs' = [reqs EXCEPT ![r].pc = "decide", ![r].entry = cache[s].entry]
       \/ /\ Present(s) /\ cache[s].entry = Garbled
          /\ Goto(r, "drop")
       \/ Goto(r, "join")
    /\ UNCHANGED <<now, dbVars, cache, flights, pending>>

(* The Del of a value that does not decode; its error is dropped. *)
DropGarbled(r) ==
    /\ reqs[r].pc = "drop"
    /\ Goto(r, "join")
    /\ \/ cache' = [cache EXCEPT ![reqs[r].at[2]] = Absent]
       \/ UNCHANGED cache
    /\ UNCHANGED <<now, dbVars, flights, pending>>

(* DoChan: join this process's flight for the slug, or start one. *)
Join(r) ==
    LET f == reqs[r].at IN
    /\ reqs[r].pc = "join"
    /\ Goto(r, "wait")
    /\ flights' = IF flights[f].stage # "none" THEN flights
                  ELSE [flights EXCEPT ![f] =
                          [NoFlight EXCEPT !.stage = "fetch", !.by = now + LoadTimeout]]
    /\ UNCHANGED <<now, dbVars, cache, pending>>

(* The caller's own context ends while it waits; the fetch goes on. *)
Leave(r) ==
    /\ reqs[r].pc = "wait"
    /\ Return(r, "left")
    /\ UNCHANGED <<now, dbVars, cache, flights, pending>>

(* The tail of handleRedirect: error, 404, 410, or a 302. *)
Answer(r) ==
    LET e == reqs[r].entry
        a == CASE e = Failed  -> "error"
               [] e = Missing -> "notFound"
               [] e \in Ids   -> IF Expired(e) THEN "gone" ELSE "redirect"
    IN
    /\ reqs[r].pc = "decide"
    /\ Return(r, a)
    /\ UNCHANGED <<now, dbVars, cache, flights, pending>>

-----------------------------------------------------------------------------
(* The shared fetch of Lookup. *)

Waiters(f) == {r \in Requests : reqs[r].pc = "wait" /\ reqs[r].at = f}

(* Mutant: a failed fetch is forgotten without telling its waiters. *)
FinishSilently(f, e) ==
    /\ flights' = [flights EXCEPT ![f] = NoFlight]
    /\ reqs' = [r \in Requests |->
                  IF r \in Waiters(f) /\ e # Failed
                  THEN [reqs[r] EXCEPT !.pc = "decide", !.entry = e] ELSE reqs[r]]

(* fn returns: the group forgets the key and every waiter gets the result. *)
Finish(f, e) ==
    /\ flights' = [flights EXCEPT ![f] = NoFlight]
    /\ reqs' = [r \in Requests |->
                  IF r \in Waiters(f) THEN [reqs[r] EXCEPT !.pc = "decide", !.entry = e]
                                      ELSE reqs[r]]

(* URLBySlug runs in the database. *)
Fetch(f) ==
    /\ flights[f].stage = "fetch"
    /\ flights' = [flights EXCEPT ![f].stage = "put", ![f].entry = rows[f[2]]]
    /\ UNCHANGED <<now, dbVars, cache, reqs, pending>>

(* The query fails, or LoadTimeout ends before its answer arrives. *)
FetchFails(f) ==
    /\ flights[f].stage \in {"fetch", "put"}
    /\ Finish(f, Failed)
    /\ UNCHANGED <<now, dbVars, cache, pending>>

(* Mutants: the expiry ignored, one TTL for both kinds of entry, no TTL at all. *)
PutTTLIgnoresExpiry(e) == IF e = Missing THEN NegativeTTL ELSE TTL

PutTTLSameForMissing(e) ==
    IF e # Missing /\ expiresAt[e] # Never /\ expiresAt[e] - now < TTL
    THEN expiresAt[e] - now ELSE TTL

PutNoTTL(e) == IF e = Missing THEN NegativeTTL ELSE MaxTime

(* How long Put keeps an entry: not past the link's own expiry. *)
PutTTL(e) ==
    IF e = Missing THEN NegativeTTL
    ELSE IF expiresAt[e] # Never /\ expiresAt[e] - now < TTL THEN expiresAt[e] - now
    ELSE TTL

(* Mutant: a TTL that has already run out is stored all the same. *)
PutUnchecked(f) ==
    /\ flights[f].stage = "put"
    /\ flights' = [flights EXCEPT ![f].stage = "set", ![f].ttl = PutTTL(flights[f].entry),
                                  ![f].by = now + PutTimeout]
    /\ UNCHANGED <<now, dbVars, cache, reqs, pending>>

(* The answer arrives and Put computes the TTL; an expired link is not stored. *)
Put(f) ==
    LET e == flights[f].entry IN
    /\ flights[f].stage = "put"
    /\ IF PutTTL(e) <= 0
       THEN Finish(f, e)
       ELSE /\ flights' = [flights EXCEPT ![f].stage = "set", ![f].ttl = PutTTL(e),
                                          ![f].by = now + PutTimeout]
            /\ UNCHANGED reqs
    /\ UNCHANGED <<now, dbVars, cache, pending>>

(* SET key value EX ttl, counted from when Redis runs it; its error is dropped. *)
Set(f) ==
    /\ flights[f].stage = "set"
    /\ \/ cache' = [cache EXCEPT ![f[2]] = [entry |-> flights[f].entry,
                                            until |-> now + flights[f].ttl]]
       \/ UNCHANGED cache
    /\ Finish(f, flights[f].entry)
    /\ UNCHANGED <<now, dbVars, pending>>

(* Time passes, except over a deadline that would have fired; Redis drops expired keys. *)
Tick ==
    /\ now < MaxTime
    /\ \A f \in Procs \X Slugs : flights[f].stage # "none" => now < flights[f].by
    /\ now' = now + 1
    /\ cache' = [s \in Slugs |-> IF cache[s].until <= now' THEN Absent ELSE cache[s]]
    /\ UNCHANGED <<dbVars, flights, reqs, pending>>

-----------------------------------------------------------------------------
Next ==
    \/ \E s \in Slugs, at \in 0..Never : Create(s, at)
    \/ \E s \in Slugs : DeleteURL(s)
    \/ \E w \in pending : ClearKey(w) \/ ClearKeyFails(w)
    \/ DeleteExpired
    \/ \E r \in Requests, f \in Procs \X Slugs : Start(r, f)
    \/ \E r \in Requests : Get(r) \/ DropGarbled(r) \/ Join(r) \/ Leave(r) \/ Answer(r)
    \/ \E f \in Procs \X Slugs : Fetch(f) \/ FetchFails(f) \/ Put(f) \/ Set(f)
    \/ Tick

(* A goroutine that can run does run; nothing makes a client ask, leave or write. *)
Fairness ==
    /\ \A r \in Requests : WF_vars(Get(r) \/ DropGarbled(r) \/ Join(r) \/ Answer(r))
    /\ \A f \in Procs \X Slugs : WF_vars(Fetch(f) \/ Put(f) \/ Set(f))

Spec     == Init /\ [][Next]_vars
FairSpec == Spec /\ Fairness

-----------------------------------------------------------------------------
(* Properties. *)

(* What a fetch that read the database just before a write may keep alive. *)
Lag == LoadTimeout + PutTimeout

(* A deleted link is not followed for longer than the fetch that raced the  *)
(* delete and one TTL: a request that starts later never holds its entry,   *)
(* even when every cache delete was lost (the TTL Put sets is the backstop  *)
(* of handleDeleteURL, of the sweep and of a failed Del).                   *)
DeadLinkEnds ==
    \A r \in Requests :
        reqs[r].pc = "decide" /\ reqs[r].entry \in Ids =>
            reqs[r].started < deletedAt[reqs[r].entry] + Lag + TTL

(* A link is not answered 404 for longer than NegativeTTL after its         *)
(* creation: a request that starts later finds it while its row exists      *)
(* (the negative entry Put stores for a probed slug).                       *)
NegativeEnds ==
    \A r \in Requests :
        reqs[r].pc = "decide" /\ reqs[r].entry = Missing =>
            LET i == rows[reqs[r].at[2]] IN
            i # Missing => reqs[r].started < createdAt[reqs[r].at[2]] + Lag + NegativeTTL

(* No entry outlives its link's expiry, but for the time the SET itself     *)
(* takes: Put shortens the TTL to what is left of the link.                 *)
EntryEndsWithLink ==
    \A s \in Slugs :
        /\ Present(s)
        /\ cache[s].entry \in Ids
        /\ expiresAt[cache[s].entry] # Never
        => cache[s].until <= expiresAt[cache[s].entry] + PutTimeout

(* Every request waiting in Lookup is attached to a running fetch, so a     *)
(* result will reach it (DoChan's channel).                                 *)
WaiterHasFlight ==
    \A r \in Requests :
        reqs[r].pc = "wait" => flights[reqs[r].at].stage # "none"

(* Every request is answered, or its client leaves.                         *)
EveryRequestAnswered ==
    \A r \in Requests : []<>(reqs[r].pc \in {"idle"} \cup Answers)

(* What the cache holds ends with what it stands for: a deleted link, a     *)
(* missing one and an expired one, and no reader is left without a fetch.   *)
StaleEntriesEnd == DeadLinkEnds /\ NegativeEnds /\ EntryEndsWithLink /\ WaiterHasFlight
=============================================================================
