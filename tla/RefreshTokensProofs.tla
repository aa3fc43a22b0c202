------------------------- MODULE RefreshTokensProofs -------------------------
(***************************************************************************)
(* Proofs about RefreshTokens, for every number of handlers, tokens and    *)
(* connections, every lifetime, and whatever fails.                        *)
(***************************************************************************)
EXTENDS RefreshTokens, TLAPS

Issued(t)   == token[t].row # "absent"
Rotating(r) == req[r].pc \in {"insert", "commit"}
Asking(r)   == req[r].pc \in {"consume", "insert", "commit", "lookup"}

(* Rows: what has no row has no history, and families are as old as a login. *)
Rows ==
    \A t \in Ids :
        /\ t > lastId => ~Issued(t)
        /\ ~Issued(t) => /\ ~token[t].used /\ ~token[t].revoked /\ presented[t] = 0
                          /\ token[t].family = t /\ token[t].parent = NoToken
        /\ Issued(t) => token[t].family <= lastId
        /\ token[t].row = "swept" => token[t].expires <= now

(* The token of a handler at work, and of one that refused it, was issued. *)
Known == \A r \in Requests : req[r].pc # "answered" => Issued(req[r].token)

(* A rotation holds its row: nobody uses, revokes or sweeps it meanwhile. *)
HeldUnused == \A r \in Requests : Rotating(r) => Unused(req[r].token)

OneHolder ==
    \A r, q \in Requests : Rotating(r) /\ Rotating(q) /\ req[r].token = req[q].token => r = q

(* The id of an INSERT is nobody else's until its COMMIT. *)
Children ==
    /\ \A r \in Requests : req[r].pc = "commit" => req[r].child <= lastId /\ ~Issued(req[r].child)
    /\ \A r, q \in Requests :
          req[r].pc = "commit" /\ req[q].pc = "commit" /\ req[r].child = req[q].child => r = q

(* A token with a successor is used. *)
ParentUsed == \A t \in Ids : Present(t) /\ token[t].parent # NoToken => token[token[t].parent].used

(* The clock aside, a family has one token to exchange, and a dead one none. *)
OneUnused  == \A t, u \in Ids : Unused(t) /\ Unused(u) /\ token[t].family = token[u].family => t = u
DeadUnused == /\ dead \subseteq 1..lastId
              /\ \A t \in Ids : token[t].family \in dead => ~Unused(t)

(* Presentations: every use was one, and who asks for a used token is the second. *)
Counted ==
    /\ \A t \in Ids : token[t].used => presented[t] >= 1
    /\ \A r \in Requests : Asking(r) => presented[req[r].token] >= 1
    /\ \A r, q \in Requests :
          Asking(r) /\ Asking(q) /\ req[r].token = req[q].token /\ r # q => presented[req[r].token] = 2
    /\ \A r \in Requests :
          req[r].pc \in {"consume", "lookup"} /\ token[req[r].token].used => presented[req[r].token] = 2

(* Causes: of a revocation, of the reuse branch and its rows, of an UPDATE that *)
(* found no row.                                                                *)
Causes ==
    /\ \A t \in Ids : token[t].revoked => t \in loggedOut \/ Replayed(token[t].family)
    /\ \A r \in Requests : req[r].pc \in {"reuse", "revoke", "revoking", "reused"} =>
          Replayed(token[req[r].token].family)
    /\ \A r \in Requests : req[r].pc = "lookup" =>
          token[req[r].token].expires <= now \/ token[req[r].token].used \/ token[req[r].token].revoked
    /\ \A r \in Requests : req[r].pc = "revoking" =>
          \A t \in req[r].rows : Issued(t) /\ token[t].family = token[req[r].token].family
    /\ \A r \in Requests : req[r].pc = "consume" => req[r].at <= now
    /\ \A r \in Requests : req[r].pc = "logout" => req[r].token \in loggedOut

IInv ==
    /\ TypeOK /\ Rows /\ Known /\ HeldUnused /\ OneHolder /\ Children /\ ParentUsed /\ OneSuccessor
    /\ OneUnused /\ DeadUnused /\ Counted /\ Causes /\ RefusedForCause

-----------------------------------------------------------------------------
(* Types. *)

(* One handler moves on, and the others stay where they are.               *)
LEMMA GotoFacts ==
    ASSUME TypeOK, NEW r \in Requests, NEW pc \in Phases, Goto(r, pc)
    PROVE  /\ req' \in [Requests -> Request]
           /\ \A q \in Requests : q # r => req'[q] = req[q]
           /\ req'[r].pc = pc /\ req'[r].token = req[r].token /\ req'[r].child = req[r].child
           /\ req'[r].at = req[r].at /\ req'[r].rows = req[r].rows
BY DEF TypeOK, Request, Goto

(* The form a handler has when it starts, and when it is done.             *)
LEMMA HandlerType ==
    ASSUME NEW pc \in Phases, NEW t \in Ids
    PROVE  /\ Handler(pc, t) \in Request
           /\ Handler(pc, t).pc = pc /\ Handler(pc, t).token = t
BY ConstantsAssumption DEF Handler, Request, Ids, Times

(* A handler that returns, with or without a refusal.                      *)
LEMMA AnswerFacts ==
    ASSUME TypeOK, NEW r \in Requests, Answer(r)
    PROVE  /\ req' \in [Requests -> Request]
           /\ \A q \in Requests : q # r => req'[q] = req[q]
           /\ req'[r].pc = "answered" /\ req'[r].token \in Ids
<1>1. 1 \in Ids /\ "answered" \in Phases
  BY ConstantsAssumption DEF Ids, Phases, Answers
<1> QED BY <1>1, HandlerType DEF TypeOK, Answer

(* A handler that drops what it had read, and keeps its token.             *)
LEMMA KeepFacts ==
    ASSUME TypeOK, NEW r \in Requests,
           NEW pc \in {"insert", "lookup", "user", "reused", "invalid"}, Keep(r, pc)
    PROVE  /\ req' \in [Requests -> Request]
           /\ \A q \in Requests : q # r => req'[q] = req[q]
           /\ req'[r].pc = pc /\ req'[r].token = req[r].token
<1>1. pc \in Phases /\ req[r].token \in Ids
  BY DEF TypeOK, Request, Phases, Answers
<1>2. req' = [req EXCEPT ![r] = Handler(pc, req[r].token)]
  BY DEF Keep
<1> QED BY <1>1, <1>2, HandlerType DEF TypeOK

(* The handlers that start: a refresh and a logout.                        *)
LEMMA RefreshFacts ==
    ASSUME TypeOK, NEW r \in Requests, NEW t \in Ids, Refresh(r, t)
    PROVE  /\ req' \in [Requests -> Request]
           /\ \A q \in Requests : q # r => req'[q] = req[q]
           /\ req'[r].pc = "consume" /\ req'[r].token = t /\ req'[r].at = now
<1>1. "consume" \in Phases
  BY DEF Phases
<1>2. Handler("consume", t) \in Request /\ Handler("consume", t).pc = "consume"
      /\ Handler("consume", t).token = t
  BY <1>1, HandlerType
<1>3. [Handler("consume", t) EXCEPT !.at = now] \in Request
      /\ [Handler("consume", t) EXCEPT !.at = now].pc = "consume"
      /\ [Handler("consume", t) EXCEPT !.at = now].token = t
      /\ [Handler("consume", t) EXCEPT !.at = now].at = now
  BY <1>2 DEF TypeOK, Request
<1> QED BY <1>3 DEF TypeOK, Refresh

LEMMA LogoutFacts ==
    ASSUME TypeOK, NEW r \in Requests, NEW t \in Ids, Logout(r, t)
    PROVE  /\ req' \in [Requests -> Request]
           /\ \A q \in Requests : q # r => req'[q] = req[q]
           /\ req'[r].pc = "logout" /\ req'[r].token = t
<1>1. "logout" \in Phases
  BY DEF Phases
<1>2. req' = [req EXCEPT ![r] = Handler("logout", t)] /\ req \in [Requests -> Request]
  BY DEF TypeOK, Logout
<1>3. Handler("logout", t) \in Request /\ Handler("logout", t).pc = "logout"
      /\ Handler("logout", t).token = t
  BY <1>1, HandlerType
<1> QED BY <1>2, <1>3

(* An INSERT either gets the next id or ends the rotation.                 *)
LEMMA InsertFacts ==
    ASSUME TypeOK, NEW r \in Requests, Insert(r)
    PROVE  /\ req' \in [Requests -> Request] /\ lastId' \in 0..MaxId
           /\ \A q \in Requests : q # r => req'[q] = req[q]
           /\ \/ /\ req'[r].pc = "commit" /\ req'[r].token = req[r].token
                 /\ lastId' = lastId + 1 /\ req'[r].child = lastId'
              \/ req'[r].pc = "answered" /\ lastId' = lastId
<1>1. CASE lastId < MaxId
  <2>1. lastId' = lastId + 1 /\ lastId' \in Ids
    BY <1>1, ConstantsAssumption DEF TypeOK, Insert, Ids
  <2>2. req' = [req EXCEPT ![r].pc = "commit", ![r].child = lastId', ![r].at = now]
    BY <1>1 DEF Insert
  <2>3. "commit" \in Phases
    BY DEF Phases
  <2>4. lastId' \in 0..MaxId
    BY <2>1, ConstantsAssumption DEF Ids
  <2>5. req \in [Requests -> Request] /\ now \in Times
    BY DEF TypeOK
  <2>6. [req[r] EXCEPT !.pc = "commit", !.child = lastId', !.at = now] \in Request
    BY <2>1, <2>3, <2>5 DEF Request
  <2>7. req' = [req EXCEPT ![r] = [req[r] EXCEPT !.pc = "commit", !.child = lastId', !.at = now]]
    BY <2>2, <2>5
  <2> QED BY <2>1, <2>4, <2>5, <2>6, <2>7 DEF Request
<1>2. CASE ~(lastId < MaxId)
  BY <1>2, AnswerFacts DEF Insert, TypeOK
<1> QED BY <1>1, <1>2

LEMMA RevokeFamilyFacts ==
    ASSUME TypeOK, NEW r \in Requests, RevokeFamily(r)
    PROVE  /\ req' \in [Requests -> Request]
           /\ \A q \in Requests : q # r => req'[q] = req[q]
           /\ req'[r].pc = "revoking" /\ req'[r].token = req[r].token
           /\ req'[r].rows = Chain(req[r].token)
<1>1. Chain(req[r].token) \in SUBSET Ids /\ "revoking" \in Phases
  BY DEF Chain, Phases
<1> QED BY <1>1 DEF TypeOK, Request, RevokeFamily

(* The rows the writers of the table make are rows.                        *)
LEMMA RowTypes ==
    ASSUME NEW k \in Token
    PROVE  /\ \A p, f \in Ids, e \in Nat :
                [k EXCEPT !.row = "present", !.family = f, !.parent = p, !.expires = e] \in Token
           /\ \A e \in Nat : [k EXCEPT !.row = "present", !.expires = e] \in Token
           /\ [k EXCEPT !.used = TRUE] \in Token
           /\ [k EXCEPT !.revoked = TRUE] \in Token
           /\ \A b \in BOOLEAN : [k EXCEPT !.revoked = @ \/ b] \in Token
           /\ \A w \in {"present", "swept", "absent"}, S \in SUBSET Ids :
                [k EXCEPT !.row = w, !.parent = IF @ \in S THEN NoToken ELSE @] \in Token
BY DEF Token

(* What a COMMIT writes.                                                   *)
LEMMA CommitFacts ==
    ASSUME TypeOK, Children, HeldUnused, NEW r \in Requests, Commit(r)
    PROVE  LET p == req[r].token  c == req[r].child IN
           /\ p \in Ids /\ c \in Ids /\ p # c /\ c <= lastId /\ Unused(p) /\ ~Issued(c)
           /\ token' \in [Ids -> Token]
           /\ \A t \in Ids : t # p /\ t # c => token'[t] = token[t]
           /\ token'[p].row = token[p].row /\ token'[p].family = token[p].family
           /\ token'[p].parent = token[p].parent /\ token'[p].expires = token[p].expires
           /\ token'[p].used /\ token'[p].revoked = token[p].revoked
           /\ token'[c].row = "present" /\ token'[c].family = token[p].family
           /\ token'[c].parent = p
           /\ token'[c].used = token[c].used /\ token'[c].revoked = token[c].revoked
<1> DEFINE p == req[r].token
           c == req[r].child
<1>1. p \in Ids /\ c \in Ids /\ c <= lastId /\ Unused(p) /\ ~Issued(c) /\ req[r].at \in Times
  BY DEF TypeOK, Request, Commit, Children, HeldUnused, Rotating
<1>2. p # c
  BY <1>1 DEF Unused, Present, Issued
<1>3. token' = [token EXCEPT ![p].used = TRUE,
                  ![c] = [@ EXCEPT !.row = "present", !.family = token[p].family,
                                   !.parent = p, !.expires = req[r].at + TTL]]
  BY DEF Commit, Rotated
<1>4. token \in [Ids -> Token] /\ req[r].at + TTL \in Nat
  BY <1>1, ConstantsAssumption DEF TypeOK, Times
<1>5. [token[c] EXCEPT !.row = "present", !.family = token[p].family,
                       !.parent = p, !.expires = req[r].at + TTL] \in Token
  <2>1. token[c] \in Token /\ token[p].family \in Ids
    BY <1>1, <1>4 DEF Token
  <2> QED BY <1>1, <1>4, <2>1, RowTypes
<1>6. [token[p] EXCEPT !.used = TRUE] \in Token
  BY <1>1, <1>4, RowTypes
<1>7. /\ \A t \in Ids : t # p /\ t # c => token'[t] = token[t]
      /\ token'[p] = [token[p] EXCEPT !.used = TRUE]
      /\ token'[c] = [token[c] EXCEPT !.row = "present", !.family = token[p].family,
                                      !.parent = p, !.expires = req[r].at + TTL]
  BY <1>1, <1>2, <1>3, <1>4
<1>8. token' \in [Ids -> Token]
  BY <1>1, <1>2, <1>3, <1>4, <1>5, <1>6
<1>9. token[p] \in Token /\ token[c] \in Token
  BY <1>1, <1>4
<1>10. /\ token'[p].row = token[p].row /\ token'[p].family = token[p].family
       /\ token'[p].parent = token[p].parent /\ token'[p].expires = token[p].expires
       /\ token'[p].used /\ token'[p].revoked = token[p].revoked
  BY <1>7, <1>9 DEF Token
<1>11. /\ token'[c].row = "present" /\ token'[c].family = token[p].family
       /\ token'[c].parent = p
       /\ token'[c].used = token[c].used /\ token'[c].revoked = token[c].revoked
  BY <1>7, <1>9 DEF Token
<1> QED BY <1>1, <1>2, <1>7, <1>8, <1>10, <1>11

(* What the other writers of the table write.                              *)
LEMMA LoginFacts ==
    ASSUME TypeOK, Login
    PROVE  /\ lastId' \in Ids /\ lastId' = lastId + 1 /\ token' \in [Ids -> Token]
           /\ \A t \in Ids : t # lastId' => token'[t] = token[t]
           /\ token'[lastId'].row = "present" /\ token'[lastId'].family = token[lastId'].family
           /\ token'[lastId'].parent = token[lastId'].parent
           /\ token'[lastId'].used = token[lastId'].used
           /\ token'[lastId'].revoked = token[lastId'].revoked
<1>1. lastId' \in Ids /\ lastId' = lastId + 1 /\ now + TTL \in Nat
  BY ConstantsAssumption DEF TypeOK, Login, Ids, Times
<1>2. [token[lastId'] EXCEPT !.row = "present", !.expires = now + TTL] \in Token
  BY <1>1, RowTypes DEF TypeOK
<1>3. /\ token' \in [Ids -> Token] /\ token[lastId'] \in Token
      /\ \A t \in Ids : t # lastId' => token'[t] = token[t]
      /\ token'[lastId'] = [token[lastId'] EXCEPT !.row = "present", !.expires = now + TTL]
  BY <1>1, <1>2 DEF TypeOK, Login
<1> QED BY <1>1, <1>3 DEF Token

LEMMA RevokedFacts ==
    ASSUME TypeOK, NEW r \in Requests, Revoked(r)
    PROVE  /\ token' \in [Ids -> Token]
           /\ \A t \in Ids :
                /\ token'[t].row = token[t].row /\ token'[t].family = token[t].family
                /\ token'[t].parent = token[t].parent /\ token'[t].expires = token[t].expires
                /\ token'[t].used = token[t].used
                /\ token'[t].revoked <=> token[t].revoked \/ (t \in req[r].rows /\ Present(t))
<1>1. \A t \in Ids : token[t] \in Token
  BY DEF TypeOK
<1>2. token' = [t \in Ids |-> [token[t] EXCEPT
                 !.revoked = @ \/ (t \in req[r].rows /\ token[t].row = "present")]]
  BY DEF Revoked
<1>3. \A t \in Ids : (t \in req[r].rows /\ token[t].row = "present") \in BOOLEAN
  OBVIOUS
<1>4. \A t \in Ids : [token[t] EXCEPT
        !.revoked = @ \/ (t \in req[r].rows /\ token[t].row = "present")] \in Token
  BY <1>1, <1>3, RowTypes
<1>5. \A t \in Ids : token'[t] = [token[t] EXCEPT
        !.revoked = @ \/ (t \in req[r].rows /\ token[t].row = "present")]
  BY <1>2
<1>6. token' \in [Ids -> Token]
  BY <1>2, <1>4
<1> QED BY <1>1, <1>3, <1>5, <1>6 DEF Present, Token

LEMMA RevokeTokenFacts ==
    ASSUME TypeOK, NEW r \in Requests, RevokeToken(r)
    PROVE  /\ token' \in [Ids -> Token] /\ req[r].token \in Ids
           /\ \A t \in Ids : t # req[r].token => token'[t] = token[t]
           /\ \/ Present(req[r].token)
                 /\ LET t == req[r].token IN
                    /\ token'[t].row = token[t].row /\ token'[t].family = token[t].family
                    /\ token'[t].parent = token[t].parent /\ token'[t].expires = token[t].expires
                    /\ token'[t].used = token[t].used /\ token'[t].revoked
              \/ token' = token
<1>1. req[r].token \in Ids
  BY DEF TypeOK, Request
<1>2. CASE Present(req[r].token)
  <2>1. token' = [token EXCEPT ![req[r].token].revoked = TRUE]
    BY <1>2 DEF RevokeToken
  <2>2. token[req[r].token] \in Token /\ token' \in [Ids -> Token]
    BY <1>1, <2>1, RowTypes DEF TypeOK
  <2>3. token'[req[r].token] = [token[req[r].token] EXCEPT !.revoked = TRUE]
        /\ \A t \in Ids : t # req[r].token => token'[t] = token[t]
    BY <1>1, <2>1 DEF TypeOK
  <2> QED BY <1>1, <1>2, <2>2, <2>3 DEF Token
<1>3. CASE ~Present(req[r].token)
  BY <1>1, <1>3 DEF TypeOK, RevokeToken
<1> QED BY <1>2, <1>3

LEMMA SweepFacts ==
    ASSUME TypeOK, DeleteExpiredTokens
    PROVE  LET expired == {t \in Ids : Present(t) /\ token[t].expires < now} IN
           /\ token' \in [Ids -> Token]
           /\ \A t \in Ids :
                /\ token'[t].row = IF t \in expired THEN "swept" ELSE token[t].row
                /\ token'[t].family = token[t].family /\ token'[t].expires = token[t].expires
                /\ token'[t].parent =
                      IF token[t].parent \in expired THEN NoToken ELSE token[t].parent
                /\ t \in expired => ~token'[t].used /\ ~token'[t].revoked
                /\ t \notin expired =>
                      token'[t].used = token[t].used /\ token'[t].revoked = token[t].revoked
           /\ \A t \in expired : Holds(t) = {}
<1> DEFINE expired == {t \in Ids : Present(t) /\ token[t].expires < now}
<1>1. expired \in SUBSET Ids
  OBVIOUS
<1>2. /\ token' = [t \in Ids |-> [token[t] EXCEPT
                    !.row     = IF t \in expired THEN "swept" ELSE @,
                    !.used    = IF t \in expired THEN FALSE ELSE @,
                    !.revoked = IF t \in expired THEN FALSE ELSE @,
                    !.parent  = IF @ \in expired THEN NoToken ELSE @]]
      /\ \A t \in expired : Holds(t) = {}
  BY DEF DeleteExpiredTokens
<1> HIDE DEF expired
<1>3. ASSUME NEW t \in Ids
      PROVE  /\ token'[t] \in Token
             /\ token'[t].row = IF t \in expired THEN "swept" ELSE token[t].row
             /\ token'[t].family = token[t].family /\ token'[t].expires = token[t].expires
             /\ token'[t].parent = IF token[t].parent \in expired THEN NoToken ELSE token[t].parent
             /\ t \in expired => ~token'[t].used /\ ~token'[t].revoked
             /\ t \notin expired =>
                   token'[t].used = token[t].used /\ token'[t].revoked = token[t].revoked
  <2>1. token[t] \in Token
    BY DEF TypeOK
  <2>2. CASE t \in expired
    <3>1. token'[t] = [token[t] EXCEPT !.row = "swept", !.used = FALSE, !.revoked = FALSE,
                                       !.parent = IF @ \in expired THEN NoToken ELSE @]
      BY <1>2, <2>2
    <3> QED BY <1>1, <2>1, <2>2, <3>1 DEF Token
  <2>3. CASE t \notin expired
    <3>1. token'[t] = [token[t] EXCEPT !.parent = IF @ \in expired THEN NoToken ELSE @]
      BY <1>2, <2>1, <2>3 DEF Token
    <3> QED BY <1>1, <2>1, <2>3, <3>1 DEF Token
  <2> QED BY <2>2, <2>3
<1>4. token' \in [Ids -> Token]
  BY <1>2, <1>3
<1> QED BY <1>2, <1>3, <1>4 DEF expired

(* The writers of refresh_tokens; every other step leaves it alone.        *)
LEMMA TokenWriters ==
    ASSUME [Next]_vars
    PROVE  \/ token' = token
           \/ Login \/ DeleteExpiredTokens
           \/ \E r \in Requests : Commit(r) \/ Revoked(r) \/ RevokeToken(r)
BY DEF Next, vars, Progress, Tick, Refresh, Logout, Consume, Lose, Insert, AnswerPair, Lookup,
       LookupFails, Fail, FindFamily, RevokeFamily, RevokeFails

(* The handlers that change anything about themselves.                     *)
LEMMA HandlerSteps ==
    ASSUME [Next]_vars
    PROVE  \/ req' = req
           \/ \E r \in Requests, t \in Ids : Refresh(r, t) \/ Logout(r, t)
           \/ \E r \in Requests : Progress(r) \/ LookupFails(r) \/ Fail(r) \/ RevokeFails(r)
BY DEF Next, vars, Login, DeleteExpiredTokens, Tick

(* Who writes the other variables.                                         *)
LEMMA OtherWriters ==
    ASSUME [Next]_vars
    PROVE  /\ now' = now \/ Tick
           /\ lastId' = lastId \/ Login \/ \E r \in Requests : Insert(r)
           /\ presented' = presented \/ \E r \in Requests, t \in Ids : Refresh(r, t)
           /\ loggedOut' = loggedOut \/ \E r \in Requests, t \in Ids : Logout(r, t)
           /\ dead' = dead \/ \E r \in Requests : Revoked(r)
<1> USE DEF Next, vars, Progress, Login, DeleteExpiredTokens, Tick, Refresh, Logout, Consume, Lose,
           Insert, Commit, AnswerPair, Lookup, LookupFails, Fail, FindFamily, RevokeFamily, Revoked,
           RevokeFails, RevokeToken
<1>1. now' = now \/ Tick
  OBVIOUS
<1>2. lastId' = lastId \/ Login \/ \E r \in Requests : Insert(r)
  OBVIOUS
<1>3. presented' = presented \/ \E r \in Requests, t \in Ids : Refresh(r, t)
  OBVIOUS
<1>4. loggedOut' = loggedOut \/ \E r \in Requests, t \in Ids : Logout(r, t)
  OBVIOUS
<1>5. dead' = dead \/ \E r \in Requests : Revoked(r)
  OBVIOUS
<1> QED BY <1>1, <1>2, <1>3, <1>4, <1>5

(* Every step leaves the variables in their types.                         *)
LEMMA TypeStep ==
    ASSUME TypeOK, Children, HeldUnused, [Next]_vars
    PROVE  TypeOK'
<1>1. token' \in [Ids -> Token]
  <2>1. CASE token' = token
    BY <2>1 DEF TypeOK
  <2>2. CASE Login
    BY <2>2, LoginFacts
  <2>3. CASE DeleteExpiredTokens
    BY <2>3, SweepFacts
  <2>4. ASSUME NEW r \in Requests, Commit(r) \/ Revoked(r) \/ RevokeToken(r)
        PROVE  token' \in [Ids -> Token]
    BY <2>4, CommitFacts, RevokedFacts, RevokeTokenFacts
  <2> QED BY <2>1, <2>2, <2>3, <2>4, TokenWriters
<1>2. req' \in [Requests -> Request] /\ lastId' \in 0..MaxId
  <2>1. CASE req' = req
    BY <2>1, OtherWriters, LoginFacts, InsertFacts DEF TypeOK, Ids
  <2>2. ASSUME NEW r \in Requests, NEW t \in Ids, Refresh(r, t)
        PROVE  req' \in [Requests -> Request] /\ lastId' \in 0..MaxId
    BY <2>2, RefreshFacts DEF Refresh, TypeOK
  <2>3. ASSUME NEW r \in Requests, NEW t \in Ids, Logout(r, t)
        PROVE  req' \in [Requests -> Request] /\ lastId' \in 0..MaxId
    BY <2>3, LogoutFacts DEF Logout, TypeOK
  <2>4. ASSUME NEW r \in Requests, Progress(r) \/ LookupFails(r) \/ Fail(r) \/ RevokeFails(r)
        PROVE  req' \in [Requests -> Request] /\ lastId' \in 0..MaxId
    <3> USE DEF TypeOK, Phases
    <3>1. CASE Consume(r) \/ Lose(r) \/ Commit(r)
      BY <3>1, KeepFacts DEF Consume, Lose, Commit
    <3>2. CASE Insert(r)
      BY <3>2, InsertFacts
    <3>3. CASE AnswerPair(r) \/ RevokeToken(r) \/ Fail(r)
      BY <3>3, AnswerFacts DEF AnswerPair, RevokeToken, Fail
    <3>4. CASE Lookup(r) \/ LookupFails(r) \/ FindFamily(r) \/ RevokeFails(r) \/ Revoked(r)
      BY <3>4, GotoFacts, KeepFacts DEF Lookup, LookupFails, FindFamily, RevokeFails, Revoked
    <3>5. CASE RevokeFamily(r)
      BY <3>5, RevokeFamilyFacts DEF RevokeFamily
    <3> QED BY <2>4, <3>1, <3>2, <3>3, <3>4, <3>5 DEF Progress
  <2> QED BY <2>1, <2>2, <2>3, <2>4, HandlerSteps
<1>3. now' \in Times
  BY OtherWriters, ConstantsAssumption DEF TypeOK, Times, Tick
<1>4. presented' \in [Ids -> 0..2]
  <2>1. ASSUME NEW r \in Requests, NEW t \in Ids, Refresh(r, t)
        PROVE  presented' \in [Ids -> 0..2]
    BY <2>1 DEF TypeOK, Refresh
  <2> QED BY <2>1, OtherWriters DEF TypeOK
<1>5. loggedOut' \subseteq Ids
  BY OtherWriters DEF TypeOK, Logout
<1>6. dead' \subseteq Ids
  <2>1. ASSUME NEW r \in Requests, Revoked(r)
        PROVE  dead' = dead \/ dead' = dead \cup {token[req[r].token].family}
    BY <2>1 DEF Revoked
  <2> QED BY <2>1, OtherWriters DEF TypeOK, Request, Token
<1> QED BY <1>1, <1>2, <1>3, <1>4, <1>5, <1>6 DEF TypeOK

-----------------------------------------------------------------------------
(* Rows. *)

(* What is recorded of an issued token stays, and its marks are never      *)
(* taken back while it has a row.                                          *)
LEMMA RowsGrow ==
    ASSUME TypeOK, Rows, Children, HeldUnused, [Next]_vars, NEW t \in Ids
    PROVE  /\ Issued(t) => /\ Issued(t)'
                           /\ token'[t].family = token[t].family
                           /\ token'[t].expires = token[t].expires
           /\ \/ /\ token[t].used => token'[t].used
                 /\ token[t].revoked => token'[t].revoked
              \/ DeleteExpiredTokens /\ Present(t) /\ token[t].expires < now
           /\ ~Issued(t) => token'[t].used = token[t].used
<1>1. CASE token' = token
  BY <1>1 DEF Issued
<1>2. CASE Login
  <2>1. lastId' > lastId
    BY <1>2, LoginFacts DEF TypeOK
  <2>2. t = lastId' => ~Issued(t)
    BY <2>1 DEF Rows
  <2> QED BY <1>2, <2>2, LoginFacts DEF Issued
<1>3. CASE DeleteExpiredTokens
  BY <1>3, SweepFacts DEF Issued, Present
<1>4. CASE \E r \in Requests : Commit(r)
  <2> PICK r \in Requests : Commit(r)
    BY <1>4
  <2>1. CASE t = req[r].child
    <3>1. /\ ~Issued(t) /\ token'[t].used = token[t].used
          /\ token'[t].revoked = token[t].revoked
      BY <2>1, CommitFacts
    <3>2. (token'[t].used <=> token[t].used) /\ (token'[t].revoked <=> token[t].revoked)
      BY <3>1
    <3> QED BY <3>1, <3>2
  <2>2. CASE t = req[r].token
    BY <2>2, CommitFacts DEF Issued, Unused, Present
  <2>3. CASE t # req[r].token /\ t # req[r].child
    BY <2>3, CommitFacts DEF Issued
  <2> QED BY <2>1, <2>2, <2>3
<1>5. CASE \E r \in Requests : Revoked(r)
  BY <1>5, RevokedFacts DEF Issued
<1>6. CASE \E r \in Requests : RevokeToken(r)
  BY <1>6, RevokeTokenFacts DEF Issued
<1> QED BY <1>1, <1>2, <1>3, <1>4, <1>5, <1>6, TokenWriters

(* A family that was replayed stays so: who was presented twice was issued. *)
LEMMA ReplayedStays ==
    ASSUME TypeOK, Rows, Children, HeldUnused, [Next]_vars, NEW f, Replayed(f)
    PROVE  Replayed(f)'
<1>1. PICK u \in Ids : token[u].family = f /\ presented[u] = 2
  BY DEF Replayed
<1>2. token'[u].family = f
  BY <1>1, RowsGrow DEF Rows
<1>3. presented'[u] = 2
  <2>1. ASSUME NEW r \in Requests, NEW t \in Ids, Refresh(r, t)
        PROVE  presented'[u] = 2
    BY <1>1, <2>1 DEF TypeOK, Refresh
  <2> QED BY <1>1, <2>1, OtherWriters
<1> QED BY <1>2, <1>3 DEF Replayed

(* Presentations are never uncounted.                                      *)
LEMMA PresentedGrows ==
    ASSUME TypeOK, [Next]_vars, NEW t \in Ids
    PROVE  presented[t] <= presented'[t] /\ presented'[t] <= 2 /\ presented'[t] \in Nat
<1>1. ASSUME NEW r \in Requests, NEW u \in Ids, Refresh(r, u)
      PROVE  presented[t] <= presented'[t] /\ presented'[t] <= 2 /\ presented'[t] \in Nat
  BY <1>1 DEF TypeOK, Refresh
<1> QED BY <1>1, OtherWriters DEF TypeOK

(* Ids, families and the sweep.                                            *)
LEMMA RowsStep ==
    ASSUME TypeOK, Rows, Known, Children, HeldUnused, [Next]_vars
    PROVE  Rows'
<1>1. lastId \in Int /\ lastId' \in Int /\ lastId <= lastId' /\ now \in Int /\ now' \in Int /\ now <= now'
  BY OtherWriters, LoginFacts, InsertFacts, ConstantsAssumption DEF TypeOK, Times, Tick
<1> SUFFICES ASSUME NEW t \in Ids
             PROVE  /\ t > lastId' => ~Issued(t)'
                    /\ ~Issued(t)' => /\ ~token'[t].used /\ ~token'[t].revoked
                                      /\ presented'[t] = 0 /\ token'[t].family = t
                                      /\ token'[t].parent = NoToken
                    /\ Issued(t)' => token'[t].family <= lastId'
                    /\ token'[t].row = "swept" => token'[t].expires <= now'
  BY DEF Rows, Issued
<1>2. presented'[t] = presented[t] \/ Issued(t)
  <2>1. ASSUME NEW r \in Requests, NEW u \in Ids, Refresh(r, u)
        PROVE  presented'[t] = presented[t] \/ Issued(t)
    BY <2>1 DEF TypeOK, Refresh, Issued
  <2> QED BY <2>1, OtherWriters
<1>3. token[t].family \in Ids /\ token[t].expires \in Nat
  BY DEF TypeOK, Token
<1>4. CASE token' = token
  BY <1>1, <1>2, <1>3, <1>4 DEF Rows, Issued, Ids
<1>5. CASE Login
  <2>1. CASE t = lastId'
    BY <1>1, <1>2, <1>5, <2>1, LoginFacts DEF Rows, Issued, TypeOK, Token
  <2>2. CASE t # lastId'
    BY <1>1, <1>2, <1>3, <1>5, <2>2, LoginFacts DEF Rows, Issued, Ids
  <2> QED BY <2>1, <2>2
<1>6. CASE DeleteExpiredTokens
  BY <1>1, <1>2, <1>3, <1>6, SweepFacts DEF Rows, Issued, Ids, Present
<1>7. CASE \E r \in Requests : Commit(r)
  <2> PICK r \in Requests : Commit(r)
    BY <1>7
  <2>1. CASE t = req[r].child
    <3>1. /\ token'[t].row = "present" /\ token'[t].family = token[req[r].token].family
          /\ t <= lastId /\ req[r].token \in Ids /\ Issued(req[r].token)
      BY <2>1, CommitFacts DEF Issued, Unused, Present
    <3>2. token[req[r].token].family <= lastId /\ token[req[r].token].family \in Ids
      BY <3>1 DEF Rows, TypeOK, Token
    <3> QED BY <1>1, <3>1, <3>2 DEF Issued, Ids
  <2>2. CASE t # req[r].child
    <3>1. token'[t].row = token[t].row /\ token'[t].family = token[t].family
          /\ token'[t].expires = token[t].expires /\ token'[t].revoked = token[t].revoked
          /\ (t = req[r].token \/ token'[t].used = token[t].used)
          /\ token'[t].parent = token[t].parent
      BY <2>2, CommitFacts
    <3>2. t = req[r].token => Issued(t)
      BY CommitFacts DEF Issued, Unused, Present
    <3> QED BY <1>1, <1>2, <1>3, <3>1, <3>2 DEF Rows, Issued, Ids
  <2> QED BY <2>1, <2>2
<1>8. CASE \E r \in Requests : Revoked(r)
  BY <1>1, <1>2, <1>3, <1>8, RevokedFacts DEF Rows, Issued, Ids, Present
<1>9. CASE \E r \in Requests : RevokeToken(r)
  <2> PICK r \in Requests : RevokeToken(r)
    BY <1>9
  <2>1. /\ token'[t].row = token[t].row /\ token'[t].family = token[t].family
        /\ token'[t].parent = token[t].parent /\ token'[t].expires = token[t].expires
        /\ token'[t].used = token[t].used
        /\ token'[t].revoked = token[t].revoked \/ Issued(t)
    BY RevokeTokenFacts DEF Issued, Present
  <2> QED BY <1>1, <1>2, <1>3, <2>1 DEF Rows, Issued, Ids
<1> QED BY <1>4, <1>5, <1>6, <1>7, <1>8, <1>9, TokenWriters

-----------------------------------------------------------------------------
(* Handlers. *)

(* How a handler moves: it starts, ends, or goes on with its token.        *)
Moves(r) ==
    \/ req'[r].pc = "answered"
    \/ \E t \in Ids : /\ req'[r].token = t
                      /\ \/ Refresh(r, t) /\ req'[r].pc = "consume" /\ req'[r].at = now
                         \/ Logout(r, t) /\ req'[r].pc = "logout"
    \/ /\ req'[r].token = req[r].token
       /\ \/ Consume(r) /\ req'[r].pc = "insert"
          \/ Lose(r) /\ req'[r].pc = "lookup"
          \/ Insert(r) /\ req'[r].pc = "commit" /\ req'[r].child = lastId' /\ lastId' = lastId + 1
          \/ Commit(r) /\ req'[r].pc = "user"
          \/ (Lookup(r) \/ LookupFails(r)) /\ req'[r].pc \in {"reuse", "invalid"}
          \/ RevokeFamily(r) /\ req'[r].pc = "revoking" /\ req'[r].rows = Chain(req[r].token)
          \/ req[r].pc \in {"reuse", "revoke", "revoking"} /\ req'[r].pc \in {"revoke", "reused"}

LEMMA OneMoves ==
    ASSUME TypeOK, [Next]_vars
    PROVE  \/ req' = req
           \/ \E r \in Requests : Moves(r) /\ \A q \in Requests : q # r => req'[q] = req[q]
<1>1. ASSUME NEW r \in Requests, NEW t \in Ids, Refresh(r, t)
      PROVE  Moves(r) /\ \A q \in Requests : q # r => req'[q] = req[q]
  BY <1>1, RefreshFacts DEF Moves
<1>2. ASSUME NEW r \in Requests, NEW t \in Ids, Logout(r, t)
      PROVE  Moves(r) /\ \A q \in Requests : q # r => req'[q] = req[q]
  BY <1>2, LogoutFacts DEF Moves
<1>3. ASSUME NEW r \in Requests, Progress(r) \/ LookupFails(r) \/ Fail(r) \/ RevokeFails(r)
      PROVE  Moves(r) /\ \A q \in Requests : q # r => req'[q] = req[q]
  <2> USE DEF Moves
  <2>1. "insert" \in Phases /\ "lookup" \in Phases /\ "user" \in Phases /\ "reuse" \in Phases
        /\ "revoke" \in Phases
    BY DEF Phases
  <2>2. CASE Consume(r)
    BY <2>2, KeepFacts DEF Consume
  <2>3. CASE Lose(r)
    BY <2>3, KeepFacts DEF Lose
  <2>4. CASE Insert(r)
    BY <2>4, InsertFacts
  <2>5. CASE Commit(r)
    BY <2>5, KeepFacts DEF Commit
  <2>6. CASE AnswerPair(r) \/ RevokeToken(r) \/ Fail(r)
    BY <2>6, AnswerFacts DEF AnswerPair, RevokeToken, Fail
  <2>7. CASE Lookup(r)
    <3>1. Goto(r, "reuse") \/ Keep(r, "invalid")
      BY <2>7 DEF Lookup
    <3> QED BY <2>1, <2>7, <3>1, GotoFacts, KeepFacts
  <2>8. CASE LookupFails(r)
    <3>1. Keep(r, "invalid")
      BY <2>8 DEF LookupFails
    <3> QED BY <2>8, <3>1, KeepFacts
  <2>9. CASE FindFamily(r) \/ Revoked(r) \/ RevokeFails(r)
    <3>1. /\ req[r].pc \in {"reuse", "revoke", "revoking"}
          /\ Goto(r, "revoke") \/ Keep(r, "reused")
      BY <2>9 DEF FindFamily, Revoked, RevokeFails
    <3> QED BY <2>1, <3>1, GotoFacts, KeepFacts
  <2>10. CASE RevokeFamily(r)
    BY <2>10, RevokeFamilyFacts DEF RevokeFamily
  <2> QED BY <1>3, <2>2, <2>3, <2>4, <2>5, <2>6, <2>7, <2>8, <2>9, <2>10 DEF Progress
<1> QED BY <1>1, <1>2, <1>3, HandlerSteps

(* The tokens handlers work with were issued.                              *)
LEMMA KnownStep ==
    ASSUME TypeOK, Rows, Known, Children, HeldUnused, [Next]_vars
    PROVE  Known'
<1> SUFFICES ASSUME NEW q \in Requests, req'[q].pc # "answered"
             PROVE  token'[req'[q].token].row # "absent"
  BY DEF Known, Issued
<1>1. req[q].token \in Ids
  BY DEF TypeOK, Request
<1>2. Issued(req[q].token) => token'[req[q].token].row # "absent"
  BY <1>1, RowsGrow DEF Issued
<1>3. CASE req'[q] = req[q]
  BY <1>2, <1>3 DEF Known, Issued
<1>4. CASE Moves(q)
  <2>1. ASSUME NEW t \in Ids, Refresh(q, t) \/ Logout(q, t), req'[q].token = t
        PROVE  token'[req'[q].token].row # "absent"
    BY <2>1 DEF Refresh, Logout
  <2>2. CASE req'[q].token = req[q].token /\ req[q].pc # "answered"
    BY <1>2, <2>2 DEF Known, Issued
  <2> QED BY <1>4, <2>1, <2>2
          DEF Moves, Issued, Consume, Lose, Insert, Commit, Lookup, LookupFails, RevokeFamily
<1> QED BY <1>3, <1>4, OneMoves

(* A row that a rotation holds stays as it is until the rotation commits.  *)
LEMMA HeldStays ==
    ASSUME TypeOK, Rows, Children, HeldUnused, OneHolder, [Next]_vars,
           NEW q \in Requests, Rotating(q), ~Commit(q), NEW t \in Ids, t = req[q].token
    PROVE  Unused(t)'
<1>1. /\ Unused(t) /\ Issued(t) /\ Holds(t) # {}
  BY DEF HeldUnused, Rotating, Holds, Unused, Present, Issued
<1>2. CASE token' = token
  BY <1>1, <1>2 DEF Unused, Present
<1>3. CASE Login
  <2>1. t # lastId'
    BY <1>1, <1>3, LoginFacts DEF Rows, TypeOK
  <2> QED BY <1>1, <1>3, <2>1, LoginFacts DEF Unused, Present
<1>4. CASE DeleteExpiredTokens
  <2>1. ~(token[t].expires < now)
    BY <1>1, <1>4, SweepFacts DEF Unused
  <2> QED BY <1>1, <1>4, <2>1, SweepFacts DEF Unused, Present
<1>5. CASE \E r \in Requests : Commit(r)
  <2> PICK r \in Requests : Commit(r)
    BY <1>5
  <2>1. t # req[r].token
    BY DEF OneHolder, Rotating, Commit
  <2>2. t # req[r].child
    BY <1>1, CommitFacts
  <2> QED BY <1>1, <2>1, <2>2, CommitFacts DEF Unused, Present
<1>6. CASE \E r \in Requests : Revoked(r)
  <2> PICK r \in Requests : Revoked(r)
    BY <1>6
  <2>1. t \notin req[r].rows
    BY <1>1 DEF Revoked
  <2> QED BY <1>1, <2>1, RevokedFacts DEF Unused, Present
<1>7. CASE \E r \in Requests : RevokeToken(r)
  <2> PICK r \in Requests : RevokeToken(r)
    BY <1>7
  <2>1. t # req[r].token
    BY <1>1 DEF RevokeToken
  <2> QED BY <1>1, <2>1, RevokeTokenFacts DEF Unused, Present
<1> QED BY <1>2, <1>3, <1>4, <1>5, <1>6, <1>7, TokenWriters

LEMMA HeldStep ==
    ASSUME TypeOK, Rows, Children, HeldUnused, OneHolder, [Next]_vars
    PROVE  HeldUnused' /\ OneHolder'
<1>1. ASSUME NEW q \in Requests, req'[q].pc \in {"insert", "commit"}
      PROVE  /\ req'[q].token = req[q].token /\ req[q].token \in Ids
             /\ \/ Rotating(q) /\ ~Commit(q)
                \/ Consume(q)
  <2>1. req[q].token \in Ids
    BY DEF TypeOK, Request
  <2>2. CASE req'[q] = req[q]
    <3>1. ~Commit(q)
      BY <2>2, KeepFacts DEF Commit
    <3> QED BY <1>1, <2>1, <2>2, <3>1 DEF Rotating
  <2>3. CASE Moves(q)
    BY <1>1, <2>1, <2>3 DEF Moves, Insert, Commit, Rotating
  <2> QED BY <2>2, <2>3, OneMoves
<1>2. HeldUnused'
  <2> SUFFICES ASSUME NEW q \in Requests, req'[q].pc \in {"insert", "commit"}
               PROVE  LET t == req'[q].token IN
                      token'[t].row = "present" /\ ~token'[t].used /\ ~token'[t].revoked
    BY DEF HeldUnused, Rotating, Unused, Present
  <2>1. CASE Rotating(q) /\ ~Commit(q)
    BY <1>1, <2>1, HeldStays DEF Unused, Present
  <2>2. CASE Consume(q)
    BY <1>1, <2>2 DEF Consume, Consumable, Unused, Present
  <2> QED BY <1>1, <2>1, <2>2
<1>3. OneHolder'
  <2> SUFFICES ASSUME NEW r \in Requests, NEW q \in Requests, r # q,
                      req'[r].pc \in {"insert", "commit"}, req'[q].pc \in {"insert", "commit"},
                      req'[r].token = req'[q].token
               PROVE  FALSE
    BY DEF OneHolder, Rotating
  <2>1. req[r].token = req[q].token
    BY <1>1
  <2>2. ~(Rotating(r) /\ Rotating(q))
    BY <2>1 DEF OneHolder
  <2>3. ASSUME NEW a \in Requests, NEW b \in Requests, Consume(a), Rotating(b),
               req[a].token = req[b].token
        PROVE  FALSE
    BY <2>3 DEF Consume, Holds, Rotating
  <2>4. ASSUME Consume(r), Consume(q)
        PROVE  FALSE
    BY <2>4, KeepFacts, OneMoves DEF Consume
  <2> QED BY <1>1, <2>1, <2>2, <2>3, <2>4
<1> QED BY <1>2, <1>3

(* The ids rotations insert.                                               *)
LEMMA ChildrenStep ==
    ASSUME TypeOK, Rows, Children, HeldUnused, [Next]_vars
    PROVE  Children'
<1>1. ASSUME NEW q \in Requests, req'[q].pc = "commit"
      PROVE  \/ req'[q] = req[q] /\ ~Commit(q)
             \/ req'[q].child = lastId' /\ lastId' = lastId + 1 /\ Insert(q)
  <2>1. CASE req'[q] = req[q]
    BY <1>1, <2>1, KeepFacts DEF Commit
  <2>2. CASE Moves(q)
    BY <1>1, <2>2 DEF Moves
  <2> QED BY <2>1, <2>2, OneMoves
<1>2. lastId \in Int /\ lastId' \in Int /\ lastId <= lastId'
  BY OtherWriters, LoginFacts, InsertFacts DEF TypeOK
<1>3. ASSUME NEW q \in Requests, req'[q].pc = "commit"
      PROVE  req'[q].child <= lastId' /\ token'[req'[q].child].row = "absent"
  <2>1. CASE Insert(q) /\ req'[q].child = lastId' /\ lastId' = lastId + 1
    <3>1. token' = token /\ lastId' \in Ids
      <4>1. lastId' \in 0..MaxId /\ lastId \in 0..MaxId
        BY <2>1, InsertFacts DEF TypeOK
      <4> QED BY <2>1, <4>1, ConstantsAssumption DEF Insert, Ids
    <3>2. ~Issued(lastId')
      BY <1>2, <2>1, <3>1 DEF Rows
    <3> QED BY <1>2, <2>1, <3>1, <3>2 DEF Issued
  <2>2. CASE req'[q] = req[q] /\ ~Commit(q)
    <3> DEFINE c == req[q].child
    <3>1. c \in Ids /\ c <= lastId /\ ~Issued(c) /\ req[q].pc = "commit"
      BY <1>3, <2>2 DEF Children, TypeOK, Request
    <3>2. token'[c].row = "absent"
      <4>1. CASE token' = token
        BY <3>1, <4>1 DEF Issued
      <4>2. CASE Login
        <5>1. c # lastId'
          BY <3>1, <4>2, LoginFacts DEF TypeOK, Ids
        <5> QED BY <3>1, <4>2, <5>1, LoginFacts DEF Issued
      <4>3. CASE DeleteExpiredTokens
        BY <3>1, <4>3, SweepFacts DEF Issued, Present
      <4>4. CASE \E r \in Requests : Commit(r)
        <5> PICK r \in Requests : Commit(r)
          BY <4>4
        <5>1. r # q /\ req[r].pc = "commit"
          BY <2>2 DEF Commit
        <5>2. req[r].child # c
          BY <3>1, <5>1 DEF Children
        <5>3. req[r].token # c
          BY <3>1, CommitFacts DEF Issued, Unused, Present
        <5> QED BY <3>1, <5>2, <5>3, CommitFacts DEF Issued
      <4>5. CASE \E r \in Requests : Revoked(r) \/ RevokeToken(r)
        BY <3>1, <4>5, RevokedFacts, RevokeTokenFacts DEF Issued, Present
      <4> QED BY <4>1, <4>2, <4>3, <4>4, <4>5, TokenWriters
    <3> QED BY <1>2, <2>2, <3>1, <3>2 DEF Ids
  <2> QED BY <1>1, <1>3, <2>1, <2>2
<1>4. ASSUME NEW r \in Requests, NEW q \in Requests, r # q,
             req'[r].pc = "commit", req'[q].pc = "commit"
      PROVE  req'[r].child # req'[q].child
  <2>1. ASSUME NEW a \in Requests, req'[a] = req[a], req'[a].pc = "commit"
        PROVE  req'[a].child <= lastId /\ req'[a].child \in Int
    BY <2>1 DEF Children, TypeOK, Request, Ids
  <2>2. ~(Insert(r) /\ Insert(q) /\ lastId' = lastId + 1)
    BY <1>4, InsertFacts, OneMoves DEF Insert
  <2> QED BY <1>1, <1>2, <1>4, <2>1, <2>2 DEF Children
<1> QED BY <1>3, <1>4 DEF Children, Issued

-----------------------------------------------------------------------------
(* Successors, and what a family can exchange. *)

(* A token's parent is used, and no two tokens have one parent: only a     *)
(* COMMIT adds a successor, and its token had none, being unused.          *)
LEMMA SuccessorStep ==
    ASSUME TypeOK, Rows, Children, HeldUnused, ParentUsed, OneSuccessor, [Next]_vars
    PROVE  ParentUsed' /\ OneSuccessor'
<1> DEFINE Has(k) == k.row = "present" /\ k.parent # NoToken
<1>1. \A t \in Ids : token[t].parent \in Ids \cup {NoToken}
  BY DEF TypeOK, Token
<1>2. \A t \in Ids : Has(token[t]) => token[token[t].parent].used
  BY DEF ParentUsed, Present
<1>3. \A t, u \in Ids : Has(token[t]) /\ Has(token[u]) /\ token[t].parent = token[u].parent => t = u
  BY DEF OneSuccessor, Present
<1>5. CASE /\ \A t \in Ids : token[t].used => token'[t].used
           /\ \A t \in Ids : Has(token'[t]) => Has(token[t]) /\ token'[t].parent = token[t].parent
  BY <1>1, <1>2, <1>3, <1>5 DEF ParentUsed, OneSuccessor, Present
<1>6. CASE \E r \in Requests : Commit(r)
  <2> PICK r \in Requests : Commit(r)
    BY <1>6
  <2> DEFINE p == req[r].token
             c == req[r].child
  <2>1. /\ p \in Ids /\ c \in Ids /\ p # c /\ Unused(p)
        /\ \A t \in Ids : t # p /\ t # c => token'[t] = token[t]
        /\ token'[p].row = token[p].row /\ token'[p].parent = token[p].parent /\ token'[p].used
        /\ token'[c].parent = p /\ token'[c].used = token[c].used
    BY CommitFacts
  <2> HIDE DEF p, c
  <2>2. \A t \in Ids : t # c /\ Has(token'[t]) => Has(token[t]) /\ token'[t].parent = token[t].parent
    BY <2>1
  <2>3. \A t \in Ids : Has(token[t]) => token[t].parent # p
    BY <1>2, <2>1 DEF Unused
  <2>4. \A t \in Ids : Has(token'[t]) => token'[token'[t].parent].used
    BY <1>1, <1>2, <2>1, <2>2
  <2>5. \A t, u \in Ids :
          Has(token'[t]) /\ Has(token'[u]) /\ token'[t].parent = token'[u].parent => t = u
    BY <1>3, <2>1, <2>2, <2>3
  <2> QED BY <2>4, <2>5 DEF ParentUsed, OneSuccessor, Present
<1>7. CASE token' = token
  BY <1>5, <1>7
<1>8. CASE Login
  <2>1. \A t \in Ids : t # lastId' => token'[t] = token[t]
    BY <1>8, LoginFacts
  <2>2. /\ token[lastId'].parent = NoToken /\ token'[lastId'].parent = token[lastId'].parent
        /\ token'[lastId'].used = token[lastId'].used
    BY <1>8, LoginFacts DEF Rows, TypeOK
  <2> QED BY <1>5, <2>1, <2>2
<1>9. CASE DeleteExpiredTokens
  <2> DEFINE expired == {t \in Ids : Present(t) /\ token[t].expires < now}
  <2>1. \A t \in Ids : /\ token'[t].row = IF t \in expired THEN "swept" ELSE token[t].row
                       /\ token'[t].parent =
                             IF token[t].parent \in expired THEN NoToken ELSE token[t].parent
                       /\ t \notin expired => token'[t].used = token[t].used
    BY <1>9, SweepFacts
  <2> HIDE DEF expired
  <2>2. \A t \in Ids : Has(token'[t]) => /\ Has(token[t]) /\ token'[t].parent = token[t].parent
                                         /\ token[t].parent \in Ids \ expired
    BY <1>1, <2>1
  <2>3. \A t \in Ids : Has(token'[t]) => token'[token'[t].parent].used
    BY <1>2, <2>1, <2>2
  <2>4. \A t, u \in Ids :
          Has(token'[t]) /\ Has(token'[u]) /\ token'[t].parent = token'[u].parent => t = u
    BY <1>3, <2>2
  <2> QED BY <2>3, <2>4 DEF ParentUsed, OneSuccessor, Present
<1>10. CASE \E r \in Requests : Revoked(r)
  <2>1. \A t \in Ids : /\ token[t].used => token'[t].used
                       /\ Has(token'[t]) => Has(token[t]) /\ token'[t].parent = token[t].parent
    BY <1>10, RevokedFacts
  <2> QED BY <1>5, <2>1
<1>11. CASE \E r \in Requests : RevokeToken(r)
  <2>1. \A t \in Ids : /\ token[t].used => token'[t].used
                       /\ Has(token'[t]) => Has(token[t]) /\ token'[t].parent = token[t].parent
    BY <1>11, RevokeTokenFacts
  <2> QED BY <1>5, <2>1
<1> QED BY <1>6, <1>7, <1>8, <1>9, <1>10, <1>11, TokenWriters

(* An unused token of a family is the only one: a login starts a family of *)
(* its own, and a COMMIT uses the token whose successor it adds.           *)
LEMMA UnusedStep ==
    ASSUME TypeOK, Rows, Known, Children, HeldUnused, OneUnused, DeadUnused, [Next]_vars
    PROVE  OneUnused' /\ DeadUnused'
<1> DEFINE Ready(k) == k.row = "present" /\ ~k.used /\ ~k.revoked
<1>1. \A t, u \in Ids : Ready(token[t]) /\ Ready(token[u]) /\ token[t].family = token[u].family => t = u
  BY DEF OneUnused, Unused, Present
<1>2. \A t \in Ids : token[t].family \in dead => ~Ready(token[t])
  BY DEF DeadUnused, Unused, Present
<1>3. lastId \in Int /\ lastId' \in Int /\ lastId <= lastId' /\ dead \subseteq 1..lastId
  BY OtherWriters, LoginFacts, InsertFacts DEF TypeOK, DeadUnused
<1>4. ASSUME \A t \in Ids : Ready(token'[t]) => Ready(token[t]) /\ token'[t].family = token[t].family,
             dead' = dead
      PROVE  OneUnused' /\ DeadUnused'
  BY <1>1, <1>2, <1>3, <1>4 DEF OneUnused, DeadUnused, Unused, Present
<1>5. CASE token' = token /\ dead' = dead
  BY <1>4, <1>5
<1>6. CASE Login
  <2>1. /\ lastId' \in Ids /\ lastId' = lastId + 1 /\ dead' = dead
        /\ \A t \in Ids : t # lastId' => token'[t] = token[t]
        /\ token'[lastId'].family = lastId'
    BY <1>6, LoginFacts DEF Rows, TypeOK, Login, Issued
  <2>2. \A t \in Ids : Ready(token[t]) => token[t].family # lastId'
    BY <1>3, <2>1 DEF Rows, Issued, TypeOK, Token, Ids
  <2> QED BY <1>1, <1>2, <1>3, <2>1, <2>2 DEF OneUnused, DeadUnused, Unused, Present
<1>7. CASE DeleteExpiredTokens
  <2>1. \A t \in Ids : Ready(token'[t]) => Ready(token[t]) /\ token'[t].family = token[t].family
    BY <1>7, SweepFacts
  <2> QED BY <1>4, <1>7, <2>1 DEF DeleteExpiredTokens
<1>8. CASE \E r \in Requests : Commit(r)
  <2> PICK r \in Requests : Commit(r)
    BY <1>8
  <2> DEFINE p == req[r].token
             c == req[r].child
  <2>1. /\ p \in Ids /\ c \in Ids /\ p # c /\ Ready(token[p]) /\ dead' = dead
        /\ \A t \in Ids : t # p /\ t # c => token'[t] = token[t]
        /\ token'[p].used /\ token'[c].family = token[p].family
    BY CommitFacts DEF Unused, Present, Commit
  <2> HIDE DEF p, c
  <2>2. \A t \in Ids : Ready(token'[t]) /\ t # c => t # p /\ Ready(token[t]) /\ token'[t] = token[t]
    BY <2>1
  <2>3. \A t \in Ids : Ready(token'[t]) /\ t # c => token'[t].family # token'[c].family
    BY <1>1, <2>1, <2>2
  <2>4. \A t \in Ids : token'[t].family \in dead => ~Ready(token'[t])
    BY <1>2, <2>1, <2>2
  <2>5. \A t, u \in Ids :
          Ready(token'[t]) /\ Ready(token'[u]) /\ token'[t].family = token'[u].family => t = u
    BY <1>1, <2>1, <2>2, <2>3
  <2> QED BY <1>3, <2>1, <2>4, <2>5 DEF OneUnused, DeadUnused, Unused, Present
<1>9. CASE \E r \in Requests : Revoked(r)
  <2> PICK r \in Requests : Revoked(r)
    BY <1>9
  <2> DEFINE f == token[req[r].token].family
  <2>1. \A t \in Ids : Ready(token'[t]) => Ready(token[t]) /\ token'[t].family = token[t].family
                                          /\ t \notin req[r].rows
    BY RevokedFacts DEF Present
  <2>2. CASE dead' = dead
    BY <1>4, <2>1, <2>2
  <2>3. CASE dead' = dead \cup {f} /\ Chain(req[r].token) \subseteq req[r].rows
    <3>1. req[r].token \in Ids /\ Issued(req[r].token)
      BY DEF Revoked, Known, TypeOK, Request
    <3>2. f \in 1..lastId
      BY <1>3, <3>1 DEF Rows, TypeOK, Token, Ids
    <3>3. \A t \in Ids : token'[t].family = f => ~Ready(token'[t])
      BY <2>1, <2>3 DEF Chain, Present
    <3>4. \A t \in Ids : token'[t].family \in dead' => ~Ready(token'[t])
      BY <1>2, <2>1, <2>3, <3>3
    <3>5. dead' \subseteq 1..lastId'
      <4>1. 1..lastId \subseteq 1..lastId'
        BY <1>3
      <4> QED BY <1>3, <2>3, <3>2, <4>1
    <3> QED BY <1>1, <2>1, <3>4, <3>5 DEF OneUnused, DeadUnused, Unused, Present
  <2> QED BY <2>2, <2>3 DEF Revoked
<1>10. CASE \E r \in Requests : RevokeToken(r)
  <2>1. \A t \in Ids : Ready(token'[t]) => Ready(token[t]) /\ token'[t].family = token[t].family
    BY <1>10, RevokeTokenFacts
  <2> QED BY <1>4, <1>10, <2>1 DEF RevokeToken
<1> QED BY <1>5, <1>6, <1>7, <1>8, <1>9, <1>10, TokenWriters, OtherWriters

-----------------------------------------------------------------------------
(* Why a client is refused. *)

(* Presentations are counted: who uses a token presented it, and of two    *)
(* handlers that have one token the later was the second to present it.    *)
LEMMA CountedStep ==
    ASSUME TypeOK, Rows, Known, Children, HeldUnused, OneHolder, Counted, [Next]_vars
    PROVE  Counted'
<1>1. \A t \in Ids : presented[t] \in Nat /\ presented[t] <= presented'[t]
                     /\ presented'[t] <= 2 /\ presented'[t] \in Nat
  BY PresentedGrows DEF TypeOK
<1>2. ASSUME NEW q \in Requests, req'[q].pc \in {"consume", "insert", "commit", "lookup"}
      PROVE  \/ req'[q].token = req[q].token /\ Asking(q)
             \/ \E t \in Ids : Refresh(q, t) /\ req'[q].token = t /\ req'[q].pc = "consume"
  <2>1. CASE req'[q] = req[q]
    BY <1>2, <2>1 DEF Asking
  <2>2. CASE Moves(q)
    BY <1>2, <2>2 DEF Moves, Asking, Consume, Lose, Insert
  <2> QED BY <2>1, <2>2, OneMoves
<1>3. ASSUME NEW q \in Requests, NEW t \in Ids, Refresh(q, t)
      PROVE  presented'[t] >= 1 /\ (presented[t] >= 1 => presented'[t] = 2) /\ token' = token
  BY <1>1, <1>3 DEF Refresh, TypeOK
<1>4. \A q \in Requests : req[q].token \in Ids
  BY DEF TypeOK, Request
<1>5. ASSUME NEW t \in Ids, token'[t].used
      PROVE  token[t].used \/ \E r \in Requests : Commit(r) /\ req[r].token = t
  <2>1. CASE token' = token
    BY <1>5, <2>1
  <2>2. CASE Login
    BY <1>5, <2>2, LoginFacts
  <2>3. CASE DeleteExpiredTokens
    BY <1>5, <2>3, SweepFacts
  <2>4. CASE \E r \in Requests : Commit(r)
    <3> PICK r \in Requests : Commit(r)
      BY <2>4
    <3>1. t = req[r].token \/ token'[t].used = token[t].used
      BY CommitFacts
    <3> QED BY <1>5, <3>1
  <2>5. CASE \E r \in Requests : Revoked(r) \/ RevokeToken(r)
    <3>1. token'[t].used = token[t].used
      BY <2>5, RevokedFacts, RevokeTokenFacts
    <3> QED BY <1>5, <3>1
  <2> QED BY <2>1, <2>2, <2>3, <2>4, <2>5, TokenWriters
<1>6. \A t \in Ids : token'[t].used => presented'[t] >= 1
  <2> SUFFICES ASSUME NEW t \in Ids, token'[t].used PROVE presented'[t] >= 1
    OBVIOUS
  <2>1. presented[t] >= 1
    BY <1>5 DEF Counted, Asking, Commit
  <2> QED BY <1>1, <2>1
<1>7. \A q \in Requests : req'[q].pc \in {"consume", "insert", "commit", "lookup"} =>
          presented'[req'[q].token] >= 1
  <2> SUFFICES ASSUME NEW q \in Requests, req'[q].pc \in {"consume", "insert", "commit", "lookup"}
               PROVE  presented'[req'[q].token] >= 1
    OBVIOUS
  <2>1. CASE req'[q].token = req[q].token /\ Asking(q)
    <3>1. presented[req[q].token] >= 1
      BY <2>1 DEF Counted
    <3> QED BY <1>1, <1>4, <2>1, <3>1
  <2> QED BY <1>2, <1>3, <2>1
<1>8. ASSUME NEW r \in Requests, NEW q \in Requests, r # q,
             req'[r].pc \in {"consume", "insert", "commit", "lookup"},
             req'[q].pc \in {"consume", "insert", "commit", "lookup"},
             req'[r].token = req'[q].token
      PROVE  presented'[req'[r].token] = 2
  <2>1. CASE /\ req'[r].token = req[r].token /\ Asking(r)
             /\ req'[q].token = req[q].token /\ Asking(q)
    <3>1. presented[req[r].token] = 2
      BY <1>8, <2>1 DEF Counted
    <3> QED BY <1>1, <1>4, <2>1, <3>1
  <2>2. ASSUME NEW a \in Requests, NEW b \in Requests, NEW t \in Ids, a # b,
               Refresh(a, t), req'[a].token = t, req'[b].token = t,
               req'[b].token = req[b].token, Asking(b)
        PROVE  presented'[t] = 2
    <3>1. presented[t] >= 1
      BY <2>2 DEF Counted
    <3> QED BY <1>3, <2>2, <3>1
  <2>3. ASSUME NEW a \in Requests, NEW b \in Requests, NEW t \in Ids, NEW u \in Ids, a # b,
               Refresh(a, t), Refresh(b, u)
        PROVE  FALSE
    <3>1. req'[a].pc = "consume" /\ req'[b] = req[b]
      BY <2>3, RefreshFacts
    <3>2. req'[b].pc = "consume" /\ req[b].pc \in Answers
      BY <2>3, RefreshFacts DEF Refresh, Free
    <3> QED BY <3>1, <3>2 DEF Answers
  <2> QED BY <1>2, <1>8, <2>1, <2>2, <2>3
<1>9. ASSUME NEW q \in Requests, req'[q].pc \in {"consume", "lookup"}, token'[req'[q].token].used
      PROVE  presented'[req'[q].token] = 2
  <2>1. CASE \E t \in Ids : Refresh(q, t) /\ req'[q].token = t
    <3> PICK t \in Ids : Refresh(q, t) /\ req'[q].token = t
      BY <2>1
    <3>1. presented[t] >= 1
      BY <1>3, <1>9 DEF Counted
    <3> QED BY <1>3, <3>1
  <2>2. CASE req'[q].token = req[q].token /\ Asking(q)
    <3> DEFINE t == req[q].token
    <3>1. req[q].pc \in {"consume", "lookup"}
      <4>1. CASE req'[q] = req[q]
        BY <1>9, <4>1
      <4>2. CASE Moves(q)
        BY <1>9, <2>2, <4>2 DEF Moves, Asking, Lose, Refresh, Free, Answers
      <4> QED BY <4>1, <4>2, OneMoves
    <3>2. CASE token[t].used
      <4>1. presented[t] = 2
        BY <3>1, <3>2 DEF Counted
      <4> QED BY <1>1, <1>4, <2>2, <4>1
    <3>3. CASE ~token[t].used
      <4>1. PICK r \in Requests : Commit(r) /\ req[r].token = t
        BY <1>4, <1>5, <1>9, <2>2, <3>3
      <4>2. presented[t] = 2
        BY <3>1, <4>1 DEF Counted, Asking, Commit
      <4> QED BY <1>1, <1>4, <2>2, <4>2
    <3> QED BY <3>2, <3>3
  <2> QED BY <1>2, <1>9, <2>1, <2>2
<1> QED BY <1>6, <1>7, <1>8, <1>9 DEF Counted, Asking

(* A replay stays on record under the family of every token it concerns.   *)
LEMMA CauseStays ==
    ASSUME TypeOK, Rows, Children, HeldUnused, [Next]_vars, NEW t \in Ids, Issued(t)
    PROVE  /\ token'[t].family = token[t].family
           /\ token'[t].expires = token[t].expires
           /\ now <= now' /\ now \in Int /\ now' \in Int /\ token[t].expires \in Int
           /\ t \in loggedOut => t \in loggedOut'
           /\ Replayed(token[t].family) =>
                \E u \in Ids : token'[u].family = token'[t].family /\ presented'[u] = 2
<1>1. token'[t].family = token[t].family /\ token'[t].expires = token[t].expires
  BY RowsGrow
<1>2. now <= now' /\ now \in Int /\ now' \in Int /\ token[t].expires \in Int
  BY OtherWriters, ConstantsAssumption DEF TypeOK, Times, Tick, Token
<1>3. t \in loggedOut => t \in loggedOut'
  BY OtherWriters DEF Logout
<1>4. ASSUME Replayed(token[t].family)
      PROVE  \E u \in Ids : token'[u].family = token'[t].family /\ presented'[u] = 2
  <2>1. PICK u \in Ids : token[u].family = token[t].family /\ presented[u] = 2
    BY <1>4 DEF Replayed
  <2>2. token'[u].family = token[u].family
    BY <2>1, RowsGrow DEF Rows
  <2>3. presented'[u] = 2
    BY <2>1, PresentedGrows
  <2> QED BY <1>1, <2>1, <2>2, <2>3
<1> QED BY <1>1, <1>2, <1>3, <1>4

(* Nothing is revoked without a logout or a replay, no client is told of a *)
(* reuse that was none, and an UPDATE that finds no row has its reason.    *)
LEMMA CausesStep ==
    ASSUME TypeOK, Rows, Known, Children, HeldUnused, Counted, Causes, [Next]_vars
    PROVE  Causes'
<1> DEFINE Again(f) == \E u \in Ids : token'[u].family = f /\ presented'[u] = 2
           Tokens == \A q \in Requests : req[q].token \in Ids
<1>1. Tokens /\ \A q \in Requests : req[q].pc # "answered" => Issued(req[q].token)
  BY DEF TypeOK, Request, Known
<1>2. \A t \in Ids : Issued(t) =>
          /\ token'[t].family = token[t].family /\ token'[t].expires = token[t].expires
          /\ t \in loggedOut => t \in loggedOut'
          /\ Replayed(token[t].family) => Again(token'[t].family)
  BY CauseStays
<1>3. now <= now' /\ now \in Int /\ now' \in Int /\ \A t \in Ids : token[t].expires \in Int
  BY OtherWriters, ConstantsAssumption DEF TypeOK, Times, Tick, Token
<1> HIDE DEF Again
<1>4. \A t \in Ids : token'[t].revoked => t \in loggedOut' \/ Again(token'[t].family)
  <2> SUFFICES ASSUME NEW t \in Ids, token'[t].revoked
               PROVE  Issued(t) /\ (t \in loggedOut \/ Replayed(token[t].family))
    BY <1>2
  <2>1. CASE token[t].revoked
    BY <2>1 DEF Rows, Causes
  <2>2. CASE ~token[t].revoked
    <3>1. CASE token' = token
      BY <2>2, <3>1
    <3>2. CASE Login
      BY <2>2, <3>2, LoginFacts
    <3>3. CASE DeleteExpiredTokens
      BY <2>2, <3>3, SweepFacts
    <3>4. CASE \E r \in Requests : Commit(r)
      <4> PICK r \in Requests : Commit(r)
        BY <3>4
      <4>1. token'[t].revoked = token[t].revoked
        BY CommitFacts
      <4> QED BY <2>2, <4>1
    <3>5. CASE \E r \in Requests : Revoked(r)
      <4> PICK r \in Requests : Revoked(r)
        BY <3>5
      <4>1. t \in req[r].rows /\ req[r].pc = "revoking"
        BY <2>2, RevokedFacts DEF Revoked
      <4>2. Issued(t) /\ token[t].family = token[req[r].token].family
        BY <4>1 DEF Causes
      <4> QED BY <4>1, <4>2 DEF Causes
    <3>6. CASE \E r \in Requests : RevokeToken(r)
      <4> PICK r \in Requests : RevokeToken(r)
        BY <3>6
      <4>1. t = req[r].token /\ Present(t)
        BY <2>2, RevokeTokenFacts
      <4> QED BY <4>1 DEF RevokeToken, Causes, Issued, Present
    <3> QED BY <3>1, <3>2, <3>3, <3>4, <3>5, <3>6, TokenWriters
  <2> QED BY <2>1, <2>2
<1>5. \A q \in Requests : req'[q].pc \in {"reuse", "revoke", "revoking", "reused"} =>
          Again(token'[req'[q].token].family)
  <2> SUFFICES ASSUME NEW q \in Requests, req'[q].pc \in {"reuse", "revoke", "revoking", "reused"}
               PROVE  /\ req'[q].token = req[q].token /\ Issued(req[q].token)
                      /\ Replayed(token[req[q].token].family)
    BY <1>1, <1>2
  <2>1. CASE req'[q] = req[q]
    BY <1>1, <2>1 DEF Causes
  <2>2. CASE Moves(q)
    <3>1. CASE req[q].pc \in {"reuse", "revoke", "revoking"} /\ req'[q].token = req[q].token
      BY <1>1, <3>1 DEF Causes
    <3>2. CASE Lookup(q) \/ LookupFails(q)
      <4>1. req[q].pc = "lookup" /\ token[req[q].token].used /\ req'[q].token = req[q].token
        BY <2>2, <3>2, KeepFacts DEF Lookup, LookupFails, Moves, Refresh, Logout, Free, Answers,
           Consume, Lose, Insert, Commit, RevokeFamily
      <4>2. presented[req[q].token] = 2
        BY <4>1 DEF Counted
      <4> QED BY <1>1, <4>1, <4>2 DEF Replayed
    <3> QED BY <2>2, <3>1, <3>2 DEF Moves, RevokeFamily
  <2> QED BY <2>1, <2>2, OneMoves
<1>6. \A q \in Requests : req'[q].pc = "lookup" =>
          LET t == req'[q].token IN
          token'[t].expires <= now' \/ token'[t].used \/ token'[t].revoked
  <2> SUFFICES ASSUME NEW q \in Requests, req'[q].pc = "lookup"
               PROVE  LET t == req[q].token IN
                      /\ req'[q].token = t /\ Issued(t)
                      /\ token[t].expires <= now \/ token[t].used \/ token[t].revoked
    BY <1>1, <1>2, <1>3, RowsGrow, CauseStays
  <2>1. CASE req'[q] = req[q]
    BY <1>1, <2>1 DEF Causes
  <2>2. CASE Moves(q)
    <3>1. Lose(q) /\ req'[q].token = req[q].token
      BY <2>2 DEF Moves
    <3>2. req[q].pc = "consume" /\ ~Consumable(q) /\ req[q].at \in Int
      BY <3>1 DEF Lose, TypeOK, Request, Times
    <3>3. req[q].at <= now /\ Issued(req[q].token) /\ token[req[q].token].expires \in Int
      BY <1>1, <1>3, <3>2 DEF Causes
    <3>4. CASE Unused(req[q].token)
      BY <1>3, <3>1, <3>2, <3>3, <3>4 DEF Consumable
    <3>5. CASE ~Present(req[q].token)
      <4>1. token[req[q].token].row = "swept"
        BY <1>1, <3>3, <3>5 DEF Present, Issued, TypeOK, Token
      <4> QED BY <1>1, <3>1, <3>3, <4>1 DEF Rows
    <3> QED BY <3>1, <3>3, <3>4, <3>5 DEF Unused
  <2> QED BY <2>1, <2>2, OneMoves
<1>7. \A q \in Requests : req'[q].pc = "revoking" =>
          \A t \in req'[q].rows : token'[t].row # "absent"
                                  /\ token'[t].family = token'[req'[q].token].family
  <2> SUFFICES ASSUME NEW q \in Requests, req'[q].pc = "revoking", NEW t \in req'[q].rows
               PROVE  /\ t \in Ids /\ Issued(t) /\ token[t].family = token[req[q].token].family
                      /\ req'[q].token = req[q].token /\ Issued(req[q].token)
    BY <1>1, <1>2, RowsGrow DEF Issued
  <2>1. CASE req'[q] = req[q]
    BY <1>1, <2>1 DEF Causes, TypeOK, Request
  <2>2. CASE Moves(q)
    <3>1. /\ RevokeFamily(q) /\ req'[q].rows = Chain(req[q].token)
          /\ req'[q].token = req[q].token
      BY <2>2 DEF Moves
    <3> QED BY <1>1, <3>1 DEF Chain, Present, Issued, RevokeFamily
  <2> QED BY <2>1, <2>2, OneMoves
<1>8. \A q \in Requests : req'[q].pc = "consume" => req'[q].at <= now'
  <2> SUFFICES ASSUME NEW q \in Requests, req'[q].pc = "consume" PROVE req'[q].at <= now'
    OBVIOUS
  <2>1. CASE req'[q] = req[q]
    BY <1>3, <2>1 DEF Causes, TypeOK, Request, Times
  <2>2. CASE Moves(q)
    BY <1>3, <2>2 DEF Moves
  <2> QED BY <2>1, <2>2, OneMoves
<1>9. \A q \in Requests : req'[q].pc = "logout" => req'[q].token \in loggedOut'
  <2> SUFFICES ASSUME NEW q \in Requests, req'[q].pc = "logout"
               PROVE  req'[q].token \in loggedOut'
    OBVIOUS
  <2>1. CASE req'[q] = req[q]
    BY <1>1, <1>2, <2>1 DEF Causes
  <2>2. CASE Moves(q)
    BY <2>2 DEF Moves, Logout
  <2> QED BY <2>1, <2>2, OneMoves
<1> QED BY <1>4, <1>5, <1>6, <1>7, <1>8, <1>9 DEF Causes, Issued, Replayed, Again

(* A client that is refused has its reason, and keeps it.                  *)
LEMMA RefusedStep ==
    ASSUME TypeOK, Rows, Known, Children, HeldUnused, Counted, Causes, RefusedForCause, [Next]_vars
    PROVE  RefusedForCause'
<1> DEFINE Again(f) == \E u \in Ids : token'[u].family = f /\ presented'[u] = 2
           Cause(t) == token[t].expires <= now \/ t \in loggedOut \/ Replayed(token[t].family)
<1>1. \A q \in Requests : req[q].token \in Ids /\ (req[q].pc # "answered" => Issued(req[q].token))
  BY DEF TypeOK, Request, Known
<1>2. ASSUME NEW t \in Ids, Issued(t), Cause(t)
      PROVE  token'[t].expires <= now' \/ t \in loggedOut' \/ Again(token'[t].family)
  BY <1>2, CauseStays
<1>3. ASSUME NEW q \in Requests, req[q].pc = "lookup"
      PROVE  Cause(req[q].token)
  <2>1. CASE token[req[q].token].used
    <3>1. presented[req[q].token] = 2
      BY <1>3, <2>1 DEF Counted
    <3> QED BY <1>1, <3>1 DEF Replayed
  <2>2. CASE ~token[req[q].token].used
    BY <1>1, <1>3, <2>2 DEF Causes
  <2> QED BY <2>1, <2>2
<1>4. ASSUME NEW q \in Requests, req'[q].pc \in {"reused", "invalid"}
      PROVE  req'[q].token = req[q].token /\ Issued(req[q].token) /\ Cause(req[q].token)
  <2>1. CASE req'[q] = req[q]
    BY <1>1, <1>4, <2>1 DEF RefusedForCause
  <2>2. CASE Moves(q)
    <3>1. CASE req[q].pc = "lookup" /\ req'[q].token = req[q].token
      BY <1>1, <1>3, <3>1
    <3>2. CASE req[q].pc \in {"reuse", "revoke", "revoking"} /\ req'[q].token = req[q].token
      BY <1>1, <3>2 DEF Causes
    <3> QED BY <1>4, <2>2, <3>1, <3>2 DEF Moves, Lookup, LookupFails
  <2> QED BY <2>1, <2>2, OneMoves
<1> HIDE DEF Again, Cause
<1>5. \A q \in Requests : req'[q].pc \in {"reused", "invalid"} =>
          LET t == req'[q].token IN
          token'[t].expires <= now' \/ t \in loggedOut' \/ Again(token'[t].family)
  BY <1>1, <1>2, <1>4
<1> QED BY <1>5 DEF RefusedForCause, Replayed, Again

-----------------------------------------------------------------------------
(* The invariant, and what it says. *)

(* At the start there is no token, and no handler at work.                 *)
LEMMA InitInvariant == Init => IInv
<1> SUFFICES ASSUME Init PROVE IInv
  OBVIOUS
<1>1. /\ \A t \in Ids : /\ token[t].row = "absent" /\ token[t].family = t
                        /\ token[t].parent = NoToken /\ ~token[t].used /\ ~token[t].revoked
      /\ \A r \in Requests : req[r] = Handler("answered", 1)
      /\ lastId = 0 /\ dead = {} /\ \A t \in Ids : presented[t] = 0
  BY DEF Init
<1>2. \A r \in Requests : req[r].pc = "answered"
  BY <1>1 DEF Handler
<1>3. TypeOK
  <2>1. Handler("answered", 1) \in Request
    BY HandlerType, ConstantsAssumption DEF Ids, Phases, Answers
  <2>2. token \in [Ids -> Token]
    BY DEF Init, Token, Ids
  <2> QED BY <2>1, <2>2, ConstantsAssumption DEF Init, TypeOK, Times
<1>4. Rows /\ OneUnused /\ DeadUnused /\ ParentUsed /\ OneSuccessor
  BY <1>1 DEF Rows, OneUnused, DeadUnused, ParentUsed, OneSuccessor, Unused, Present, Issued
<1>5. Known /\ HeldUnused /\ OneHolder /\ Children /\ RefusedForCause
  BY <1>2 DEF Known, HeldUnused, OneHolder, Children, RefusedForCause, Rotating
<1>6. Counted /\ Causes
  BY <1>1, <1>2 DEF Counted, Causes, Asking
<1> QED BY <1>3, <1>4, <1>5, <1>6 DEF IInv

(* The inductive invariant of the rotation protocol: it holds in every     *)
(* reachable state, whatever overlaps and whatever fails.                  *)
THEOREM Invariant == Spec => []IInv
<1>1. IInv /\ [Next]_vars => IInv'
  <2> SUFFICES ASSUME IInv, [Next]_vars PROVE IInv'
    OBVIOUS
  <2> USE DEF IInv
  <2>1. TypeOK' /\ Rows' /\ Known'
    BY TypeStep, RowsStep, KnownStep
  <2>2. HeldUnused' /\ OneHolder' /\ Children'
    BY HeldStep, ChildrenStep
  <2>3. ParentUsed' /\ OneSuccessor' /\ OneUnused' /\ DeadUnused'
    BY SuccessorStep, UnusedStep
  <2>4. Counted' /\ Causes' /\ RefusedForCause'
    BY CountedStep, CausesStep, RefusedStep
  <2> QED BY <2>1, <2>2, <2>3, <2>4
<1> QED BY <1>1, InitInvariant, PTL DEF Spec

(* The variables keep their types.                                         *)
THEOREM Typed == Spec => []TypeOK
<1>1. IInv => TypeOK
  BY DEF IInv
<1> QED BY <1>1, Invariant, PTL

(* RotateRefreshToken: a token is exchanged at most once.                  *)
THEOREM SuccessorIsUnique == Spec => []OneSuccessor
<1>1. IInv => OneSuccessor
  BY DEF IInv
<1> QED BY <1>1, Invariant, PTL

(* RotateRefreshToken: a session never has two tokens to exchange.         *)
THEOREM OneTokenPerSession == Spec => []OneActivePerFamily
<1>1. IInv => OneActivePerFamily
  BY DEF IInv, OneUnused, OneActivePerFamily, Active
<1> QED BY <1>1, Invariant, PTL

(* handleRefresh: who is refused was expired, logged out or replayed.      *)
THEOREM RefusalsHaveCause == Spec => []RefusedForCause
<1>1. IInv => RefusedForCause
  BY DEF IInv
<1> QED BY <1>1, Invariant, PTL

(* RotateRefreshToken against RevokeFamily and RevokeToken: a token that   *)
(* was revoked before its use is never used.                               *)
THEOREM RevokedStaysUnused == Spec => RevokedNeverUsed
<1> DEFINE Kept == \A t \in Ids : token[t].revoked /\ ~token[t].used => ~token'[t].used
<1>1. IInv /\ [Next]_vars => Kept
  <2> SUFFICES ASSUME IInv, [Next]_vars, NEW t \in Ids, token[t].revoked, ~token[t].used
               PROVE  ~token'[t].used
    OBVIOUS
  <2> USE DEF IInv
  <2>1. CASE token' = token
    BY <2>1
  <2>2. CASE Login \/ DeleteExpiredTokens
    BY <2>2, LoginFacts, SweepFacts
  <2>3. CASE \E r \in Requests : Commit(r)
    <3> PICK r \in Requests : Commit(r)
      BY <2>3
    <3>1. t # req[r].token
      BY CommitFacts DEF Unused
    <3>2. token'[t].used = token[t].used
      BY <3>1, CommitFacts
    <3> QED BY <3>2
  <2>4. CASE \E r \in Requests : Revoked(r) \/ RevokeToken(r)
    <3>1. token'[t].used = token[t].used
      BY <2>4, RevokedFacts, RevokeTokenFacts
    <3> QED BY <3>1
  <2> QED BY <2>1, <2>2, <2>3, <2>4, TokenWriters
<1>2. IInv /\ [Next]_vars => [Kept]_vars
  BY <1>1
<1> QED BY <1>2, Invariant, PTL DEF Spec, RevokedNeverUsed

(* RevokeFamily: a family revoked while none of its tokens was being       *)
(* exchanged has nothing to exchange any more.                             *)
THEOREM DeadFamiliesStayDead == Spec => []DeadStaysDead
<1>1. IInv => DeadStaysDead
  BY DEF IInv, DeadUnused, DeadStaysDead, Active
<1> QED BY <1>1, Invariant, PTL

(* Rotation and revocation together.                                       *)
THEOREM SessionsStaySingle == Spec => []SessionsHaveOneToken
<1>1. OneSuccessor /\ OneActivePerFamily /\ DeadStaysDead => SessionsHaveOneToken
  BY DEF SessionsHaveOneToken
<1> QED BY <1>1, SuccessorIsUnique, OneTokenPerSession, DeadFamiliesStayDead, PTL
=============================================================================
