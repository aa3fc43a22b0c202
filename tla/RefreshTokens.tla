--------------------------- MODULE RefreshTokens ---------------------------
(***************************************************************************)
(* Refresh token rotation in capstones/bookmark-manager: a login starts a  *)
(* family, every refresh consumes a token and issues its successor in one  *)
(* transaction, a second use of a token revokes the family, a logout       *)
(* revokes one token, and every replica sweeps expired rows                *)
(* (internal/api/api.go, internal/store/store.go, cmd/api/main.go).        *)
(*                                                                         *)
(* The statements run at READ COMMITTED over a pool of connections.  An    *)
(* UPDATE works on the rows its snapshot shows, waits for a row another    *)
(* transaction has changed, and checks its condition again afterwards.     *)
(***************************************************************************)
EXTENDS Integers, FiniteSets, TLC

CONSTANTS
    Requests,   \* concurrent handlers, each one reused after its answer
    PoolSize,   \* connections of the pgxpool
    TTL,        \* refreshTTL
    DBFails,    \* whether statements may fail or clients leave
    MaxId,      \* bound: tokens ever numbered
    MaxTime,    \* bound: the last instant
    Stride      \* instants between two times at which something happens

ASSUME ConstantsAssumption ==
    /\ PoolSize \in Nat /\ TTL \in Nat /\ DBFails \in BOOLEAN
    /\ MaxId \in Nat \ {0} /\ MaxTime \in Nat /\ Stride \in Nat \ {0}

Ids    == 1..MaxId
NoToken == 0
Times  == 0..MaxTime

VARIABLES
    now,
    token,      \* refresh_tokens by id
    lastId,     \* refresh_tokens_id_seq
    req,        \* the handlers
    presented,  \* history: how often each token was presented, counted to two
    loggedOut,  \* history: tokens given to a logout
    dead        \* history: families revoked while no rotation of theirs ran

vars == <<now, token, lastId, req, presented, loggedOut, dead>>

(* A token's family is the id of its first token (gen_random_uuid in the code). *)
Token   == [row : {"absent", "present", "swept"}, family : Ids, parent : Ids \cup {NoToken},
            expires : Nat, used : BOOLEAN, revoked : BOOLEAN]
Answers == {"answered", "reused", "invalid"}
Phases  == {"consume", "insert", "commit", "user", "lookup", "reuse", "revoke",
            "revoking", "logout"} \cup Answers
Request == [pc : Phases, token : Ids, at : Times, child : Ids, rows : SUBSET Ids]

Handler(pc, t) == [pc |-> pc, token |-> t, at |-> 0, child |-> 1, rows |-> {}]

TypeOK ==
    /\ now \in Times
    /\ token \in [Ids -> Token]
    /\ lastId \in 0..MaxId
    /\ req \in [Requests -> Request]
    /\ presented \in [Ids -> 0..2]
    /\ loggedOut \subseteq Ids
    /\ dead \subseteq Ids

Init ==
    /\ now = 0
    /\ token = [t \in Ids |-> [row |-> "absent", family |-> t, parent |-> NoToken,
                               expires |-> 0, used |-> FALSE, revoked |-> FALSE]]
    /\ lastId = 0
    /\ req = [r \in Requests |-> Handler("answered", 1)]
    /\ presented = [t \in Ids |-> 0]
    /\ loggedOut = {}
    /\ dead = {}

Present(t) == token[t].row = "present"
Unused(t)  == Present(t) /\ ~token[t].used /\ ~token[t].revoked
Active(t)  == Unused(t) /\ token[t].expires > now

Free(r)  == req[r].pc \in Answers
InTx(r)  == req[r].pc \in {"consume", "insert", "commit", "lookup"}
Holds(t) == {r \in Requests : req[r].pc \in {"insert", "commit"} /\ req[r].token = t}

(* One connection for an open transaction, and one for an UPDATE that waits. *)
InUse    == Cardinality({r \in Requests : InTx(r) \/ req[r].pc \in {"revoking", "logout"}})
Conn     == InUse < PoolSize

Goto(r, pc) == req' = [req EXCEPT ![r].pc = pc]

(* A handler that looks a token up or has refused it keeps which, and one *)
(* that has answered nothing: the times and ids it had read are spent.     *)
Answer(r)     == req' = [req EXCEPT ![r] = Handler("answered", 1)]
Keep(r, pc) == req' = [req EXCEPT ![r] = Handler(pc, @.token)]

-----------------------------------------------------------------------------
(* issuePair: register and login start a family of one. *)
Login ==
    /\ lastId < MaxId
    /\ Conn
    /\ lastId' = lastId + 1
    /\ token' = [token EXCEPT ![lastId'] = [@ EXCEPT !.row = "present", !.expires = now + TTL]]
    /\ UNCHANGED <<now, req, presented, loggedOut, dead>>

(* handleRefresh, up to the BEGIN of RotateRefreshToken. *)
Refresh(r, t) ==
    /\ Free(r)
    /\ token[t].row # "absent"
    /\ Conn
    /\ req' = [req EXCEPT ![r] = [Handler("consume", t) EXCEPT !.at = now]]
    /\ presented' = [presented EXCEPT ![t] = IF @ < 2 THEN @ + 1 ELSE 2]
    /\ UNCHANGED <<now, token, lastId, loggedOut, dead>>

(* What the conditional UPDATE asks of a row; now() is the transaction's start. *)
Consumable(r) == Unused(req[r].token) /\ token[req[r].token].expires > req[r].at

(* The UPDATE: it waits for the row, and then asks again.  The mutants do *)
(* not wait, and do not look at revoked_at.                               *)
ConsumeUnlocked(r) ==
    /\ req[r].pc = "consume"
    /\ Consumable(r)
    /\ Keep(r, "insert")
    /\ UNCHANGED <<now, token, lastId, presented, loggedOut, dead>>

ConsumeRevoked(r) ==
    /\ req[r].pc = "consume"
    /\ Present(req[r].token) /\ ~token[req[r].token].used /\ token[req[r].token].expires > req[r].at
    /\ Holds(req[r].token) = {}
    /\ Keep(r, "insert")
    /\ UNCHANGED <<now, token, lastId, presented, loggedOut, dead>>

Consume(r) ==
    /\ req[r].pc = "consume"
    /\ Consumable(r)
    /\ Holds(req[r].token) = {}
    /\ Keep(r, "insert")
    /\ UNCHANGED <<now, token, lastId, presented, loggedOut, dead>>

(* No row was updated. *)
Lose(r) ==
    /\ req[r].pc = "consume"
    /\ ~Consumable(r)
    /\ Keep(r, "lookup")
    /\ UNCHANGED <<now, token, lastId, presented, loggedOut, dead>>

(* The INSERT takes the next id; its row shows at the COMMIT.  Past the bound *)
(* it fails, as it may, and nothing is left of the rotation.                  *)
Insert(r) ==
    /\ req[r].pc = "insert"
    /\ IF lastId < MaxId
       THEN /\ lastId' = lastId + 1
            /\ req' = [req EXCEPT ![r].pc = "commit", ![r].child = lastId', ![r].at = now]
       ELSE Answer(r) /\ UNCHANGED lastId
    /\ UNCHANGED <<now, token, presented, loggedOut, dead>>

(* What COMMIT makes visible: the token is used, and its successor is there. *)
(* The mutants forget the first half, and subtract the lifetime.             *)
RotatedKeepsOld(r) ==
    [token EXCEPT ![req[r].child] =
        [@ EXCEPT !.row = "present", !.family = token[req[r].token].family,
                  !.parent = req[r].token, !.expires = req[r].at + TTL]]

RotatedIntoThePast(r) ==
    [token EXCEPT ![req[r].token].used = TRUE,
                  ![req[r].child] = [@ EXCEPT !.row = "present", !.expires = req[r].at - TTL]]

Rotated(r) ==
    [token EXCEPT ![req[r].token].used = TRUE,
                  ![req[r].child] =
        [@ EXCEPT !.row = "present", !.family = token[req[r].token].family,
                  !.parent = req[r].token, !.expires = req[r].at + TTL]]

Commit(r) ==
    /\ req[r].pc = "commit"
    /\ token' = Rotated(r)
    /\ Keep(r, "user")
    /\ UNCHANGED <<now, lastId, presented, loggedOut, dead>>

(* userByID, and the answer. *)
AnswerPair(r) ==
    /\ req[r].pc = "user"
    /\ Conn
    /\ Answer(r)
    /\ UNCHANGED <<now, token, lastId, presented, loggedOut, dead>>

(* RefreshTokenByHash inside RotateRefreshToken takes a connection of its own, *)
(* while the transaction still holds one; then the transaction rolls back.     *)
(* The mutant starts the rotation again.                                       *)
LookupRetries(r) ==
    /\ req[r].pc = "lookup"
    /\ Conn
    /\ IF Present(req[r].token) /\ token[req[r].token].used
       THEN Goto(r, "consume") ELSE Keep(r, "invalid")
    /\ UNCHANGED <<now, token, lastId, presented, loggedOut, dead>>

Lookup(r) ==
    /\ req[r].pc = "lookup"
    /\ Conn
    /\ IF Present(req[r].token) /\ token[req[r].token].used
       THEN Goto(r, "reuse") ELSE Keep(r, "invalid")
    /\ UNCHANGED <<now, token, lastId, presented, loggedOut, dead>>

(* A lookup that fails counts as a token that does not exist. *)
LookupFails(r) ==
    /\ DBFails
    /\ req[r].pc = "lookup"
    /\ Keep(r, "invalid")
    /\ UNCHANGED <<now, token, lastId, presented, loggedOut, dead>>

(* A statement or the COMMIT fails, or the client leaves: the deferred Rollback. *)
Fail(r) ==
    /\ DBFails
    /\ req[r].pc \in {"consume", "insert", "commit", "user", "logout"}
    /\ Answer(r)
    /\ UNCHANGED <<now, token, lastId, presented, loggedOut, dead>>

-----------------------------------------------------------------------------
(* The reuse branch of handleRefresh. *)

(* The second lookup finds the family, unless the row is gone by now. *)
FindFamily(r) ==
    /\ req[r].pc = "reuse"
    /\ Conn
    /\ IF Present(req[r].token) THEN Goto(r, "revoke") ELSE Keep(r, "reused")
    /\ UNCHANGED <<now, token, lastId, presented, loggedOut, dead>>

(* The rows RevokeFamily's snapshot shows.  The mutants take those of every *)
(* session, and the presented token's alone.                                *)
ChainOfUser(t) == {u \in Ids : Present(u) /\ ~token[u].revoked}
ChainOfOne(t)  == {t}

Chain(t) == {u \in Ids : Present(u) /\ ~token[u].revoked /\ token[u].family = token[t].family}

RevokeFamily(r) ==
    /\ req[r].pc = "revoke"
    /\ Conn
    /\ req' = [req EXCEPT ![r].pc = "revoking", ![r].rows = Chain(req[r].token)]
    /\ UNCHANGED <<now, token, lastId, presented, loggedOut, dead>>

(* It has waited for every one of its rows, and commits. *)
Revoked(r) ==
    LET f == token[req[r].token].family IN
    /\ req[r].pc = "revoking"
    /\ \A t \in req[r].rows : Holds(t) = {}
    /\ token' = [t \in Ids |-> [token[t] EXCEPT
                   !.revoked = @ \/ (t \in req[r].rows /\ token[t].row = "present")]]
    /\ dead' = IF /\ Chain(req[r].token) \subseteq req[r].rows
                  /\ \A t \in Ids : token[t].family = f => Holds(t) = {}
               THEN dead \cup {f} ELSE dead
    /\ Keep(r, "reused")
    /\ UNCHANGED <<now, lastId, presented, loggedOut>>

(* The lookup or the UPDATE fails: logged, and the client gets the same answer. *)
RevokeFails(r) ==
    /\ DBFails
    /\ req[r].pc \in {"reuse", "revoke", "revoking"}
    /\ Keep(r, "reused")
    /\ UNCHANGED <<now, token, lastId, presented, loggedOut, dead>>

-----------------------------------------------------------------------------
(* handleLogout and RevokeToken: one row, which it may have to wait for. *)
Logout(r, t) ==
    /\ Free(r)
    /\ token[t].row # "absent"
    /\ Conn
    /\ req' = [req EXCEPT ![r] = Handler("logout", t)]
    /\ loggedOut' = loggedOut \cup {t}
    /\ UNCHANGED <<now, token, lastId, presented, dead>>

RevokeToken(r) ==
    LET t == req[r].token IN
    /\ req[r].pc = "logout"
    /\ Holds(t) = {}
    /\ token' = IF Present(t) THEN [token EXCEPT ![t].revoked = TRUE] ELSE token
    /\ Answer(r)
    /\ UNCHANGED <<now, lastId, presented, loggedOut, dead>>

(* The hourly sweep: a row goes with its marks; parent_id is ON DELETE SET NULL. *)
DeleteExpiredTokens ==
    LET expired == {t \in Ids : Present(t) /\ token[t].expires < now} IN
    /\ expired # {}
    /\ \A t \in expired : Holds(t) = {}
    /\ Conn
    /\ token' = [t \in Ids |-> [token[t] EXCEPT
                   !.row     = IF t \in expired THEN "swept" ELSE @,
                   !.used    = IF t \in expired THEN FALSE ELSE @,
                   !.revoked = IF t \in expired THEN FALSE ELSE @,
                   !.parent  = IF @ \in expired THEN NoToken ELSE @]]
    /\ UNCHANGED <<now, lastId, req, presented, loggedOut, dead>>

Tick ==
    /\ now + Stride <= MaxTime
    /\ now' = now + Stride
    /\ UNCHANGED <<token, lastId, req, presented, loggedOut, dead>>

-----------------------------------------------------------------------------
(* What a handler does without waiting for anything but the database. *)
Progress(r) ==
    \/ Consume(r) \/ Lose(r) \/ Insert(r) \/ Commit(r) \/ AnswerPair(r)
    \/ Lookup(r) \/ FindFamily(r) \/ RevokeFamily(r) \/ Revoked(r) \/ RevokeToken(r)

Next ==
    \/ Login \/ DeleteExpiredTokens \/ Tick
    \/ \E r \in Requests, t \in Ids : Refresh(r, t) \/ Logout(r, t)
    \/ \E r \in Requests : Progress(r) \/ LookupFails(r) \/ Fail(r) \/ RevokeFails(r)

(* The pool serves its callers in turn, and Postgres the waiters of a row. *)
Fairness == \A r \in Requests : SF_vars(Progress(r))

Spec     == Init /\ [][Next]_vars
FairSpec == Spec /\ Fairness

-----------------------------------------------------------------------------
(* Properties. *)

(* Two refreshes with one token never both succeed: a token has at most one *)
(* successor (the conditional UPDATE of RotateRefreshToken).                *)
OneSuccessor ==
    \A t, u \in Ids :
        Present(t) /\ Present(u) /\ token[t].parent # NoToken /\ token[t].parent = token[u].parent
        => t = u

(* A session has at most one token that can be exchanged, whatever overlaps *)
(* and fails: a rotation replaces its token, never adds to it.              *)
OneActivePerFamily ==
    \A t, u \in Ids : Active(t) /\ Active(u) /\ token[t].family = token[u].family => t = u

(* Why a family may have been revoked: one of its tokens was presented more *)
(* than once.                                                               *)
Replayed(f) == \E u \in Ids : token[u].family = f /\ presented[u] = 2

(* A client is refused only because of its own session: its token had       *)
(* expired, was logged out, or one of its chain was presented twice.        *)
(* Nothing another session does ends it (RevokeFamily's scope).             *)
RefusedForCause ==
    \A r \in Requests :
        LET t == req[r].token IN
        req[r].pc \in {"reused", "invalid"} =>
            token[t].expires <= now \/ t \in loggedOut \/ Replayed(token[t].family)

(* A token that was revoked before it was used is never exchanged, though   *)
(* its revocation may race the rotation that wants it.                      *)
RevokedNeverUsed ==
    [][\A t \in Ids : token[t].revoked /\ ~token[t].used => ~token'[t].used]_vars

(* A family revoked while no rotation of it was running has no token that   *)
(* can be exchanged, ever again.                                            *)
DeadStaysDead == \A t \in Ids : token[t].family \in dead => ~Active(t)

(* The client of a replayed token is told "Every session in its chain has   *)
(* been revoked".                                                           *)
ReuseEndsChain ==
    \A r \in Requests : req[r].pc = "reused" =>
        \A t \in Ids : token[t].family = token[req[r].token].family => ~Active(t)

(* Every request is answered, also a refresh that lost its race and only    *)
(* has to find out why ("the other ... knows it lost").                         *)
LoserIsAnswered == \A r \in Requests : []<>(req[r].pc \in Answers)

(* Rotation and revocation together: a token has one successor, a session   *)
(* one token that can be exchanged, and a revoked session none.             *)
SessionsHaveOneToken == OneSuccessor /\ OneActivePerFamily /\ DeadStaysDead

(* For TLC: handlers are interchangeable. *)
Symmetry == Permutations(Requests)
=============================================================================
