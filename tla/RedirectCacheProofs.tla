------------------------ MODULE RedirectCacheProofs ------------------------
(***************************************************************************)
(* How long the cache can be stale, for any slugs, processes, requests,     *)
(* lifetimes and time-outs.  The argument: a fetch that has read a row (or   *)
(* no row) is due at a time that lies at most its time-outs after the write  *)
(* that ended what it read, so the entry that it stores ends within Lag and   *)
(* one TTL of that write, and so does whoever reads the entry.               *)
(***************************************************************************)
EXTENDS RedirectCache, TLAPS

Keys == Procs \X Slugs

-----------------------------------------------------------------------------
(* The inductive invariant, by parts. *)

(* What is remembered anywhere is the id of a row that was inserted. *)
Known ==
    /\ \A s \in Slugs : rows[s] <= lastId /\ cache[s].entry <= lastId
    /\ \A f \in Keys : flights[f].entry <= lastId
    /\ \A r \in Requests : reqs[r].entry <= lastId

(* An id has one row at most, and is deleted with it, once. *)
RowsLive ==
    /\ \A s, t \in Slugs : rows[s] # Missing /\ rows[s] = rows[t] => s = t
    /\ \A s \in Slugs : rows[s] # Missing => deletedAt[rows[s]] = Never
    /\ \A i \in Ids : lastId < i => deletedAt[i] = Never

(* A fetch ends within its time-out, and the SET within its own. *)
FlightDue(f) ==
    LET g == flights[f] IN
    g.stage # "none" => now <= g.by /\ g.by <= now + (IF g.stage = "set" THEN PutTimeout ELSE LoadTimeout)

(* What a fetch carries was so a short while before it is due. *)
FlightFresh(f) ==
    LET g == flights[f]
        slack == IF g.stage = "set" THEN Lag ELSE LoadTimeout
    IN  g.stage \in {"put", "set"} =>
            /\ g.entry \in Ids => g.by <= deletedAt[g.entry] + slack
            /\ g.entry = Missing /\ rows[f[2]] # Missing => g.by <= createdAt[f[2]] + slack

(* The TTL of a SET: one TTL at most, and not past the expiry of the link. *)
FlightTTL(f) ==
    LET g == flights[f] IN
    g.stage = "set" =>
        /\ g.entry \in Ids => g.ttl <= TTL
        /\ g.entry = Missing => g.ttl <= NegativeTTL
        /\ g.entry \in Ids /\ expiresAt[g.entry] # Never => g.by + g.ttl <= expiresAt[g.entry] + PutTimeout

EntryOfLink(s) ==
    cache[s].entry \in Ids =>
        /\ cache[s].until <= now + TTL
        /\ cache[s].until <= deletedAt[cache[s].entry] + Lag + TTL
        /\ expiresAt[cache[s].entry] # Never => cache[s].until <= expiresAt[cache[s].entry] + PutTimeout

EntryOfNone(s) ==
    cache[s].entry = Missing =>
        /\ cache[s].until <= now + NegativeTTL
        /\ rows[s] # Missing => cache[s].until <= createdAt[s] + Lag + NegativeTTL

Reader(r) ==
    LET q == reqs[r] IN
    /\ q.started <= now
    /\ q.pc = "wait" => flights[q.at].stage # "none"
    /\ q.pc = "decide" /\ q.entry \in Ids => q.started < deletedAt[q.entry] + Lag + TTL
    /\ q.pc = "decide" /\ q.entry = Missing /\ rows[q.at[2]] # Missing =>
           q.started < createdAt[q.at[2]] + Lag + NegativeTTL

IInv ==
    /\ TypeOK /\ Known /\ RowsLive
    /\ \A f \in Keys : FlightDue(f) /\ FlightFresh(f) /\ FlightTTL(f)
    /\ \A s \in Slugs : EntryOfLink(s) /\ EntryOfNone(s)
    /\ \A r \in Requests : Reader(r)

-----------------------------------------------------------------------------
(* What the types say of one flight, one entry and one request. *)
LEMMA TypesOf ==
    ASSUME TypeOK
    PROVE  /\ now \in Int /\ 0 <= now /\ now <= MaxTime /\ lastId \in Int /\ 0 <= lastId /\ lastId <= MaxId
           /\ \A s \in Slugs : rows[s] \in Int /\ 0 <= rows[s] /\ rows[s] <= MaxId /\ createdAt[s] \in Int /\ 0 <= createdAt[s]
           /\ \A s \in Slugs : cache[s].entry \in Int /\ cache[s].until \in Int
           /\ \A i \in Ids : deletedAt[i] \in Int /\ 0 <= deletedAt[i] /\ expiresAt[i] \in Int
           /\ \A f \in Keys : /\ f[2] \in Slugs /\ flights[f] \in Flight
                              /\ flights[f].entry \in Entries /\ flights[f].by \in Int /\ flights[f].ttl \in Int
           /\ \A r \in Requests : /\ reqs[r] \in Request /\ reqs[r].at \in Keys /\ reqs[r].at[2] \in Slugs
                                  /\ reqs[r].entry \in Int /\ reqs[r].started \in Int
<1> USE ConstantsAssumption DEF TypeOK, Keys, Entries, Ids, Times, Never, Missing, Garbled, Failed
<1>1. now \in Int /\ 0 <= now /\ now <= MaxTime /\ lastId \in Int /\ 0 <= lastId /\ lastId <= MaxId
  OBVIOUS
<1>2. \A s \in Slugs : rows[s] \in Int /\ 0 <= rows[s] /\ rows[s] <= MaxId /\ createdAt[s] \in Int /\ 0 <= createdAt[s]
  OBVIOUS
<1>3. \A s \in Slugs : cache[s].entry \in Int /\ cache[s].until \in Int
  OBVIOUS
<1>4. \A i \in Ids : deletedAt[i] \in Int /\ 0 <= deletedAt[i] /\ expiresAt[i] \in Int
  OBVIOUS
<1>5. \A f \in Keys : /\ f[2] \in Slugs /\ flights[f] \in Flight
                      /\ flights[f].entry \in Entries /\ flights[f].by \in Int /\ flights[f].ttl \in Int
  BY DEF Flight
<1>6. \A r \in Requests : /\ reqs[r] \in Request /\ reqs[r].at \in Keys /\ reqs[r].at[2] \in Slugs
                          /\ reqs[r].entry \in Int /\ reqs[r].started \in Int
  BY DEF Request
<1> QED BY <1>1, <1>2, <1>3, <1>4, <1>5, <1>6

LEMMA Initially == Init => IInv
<1> SUFFICES ASSUME Init PROVE IInv
  OBVIOUS
<1> USE ConstantsAssumption DEF Init, Ids, Entries, Missing, Garbled, Failed, Times, Never, Absent, NoFlight, Blank, Keys
<1>1. TypeOK
  BY DEF TypeOK, Flight, Stages, Request, Phases, Answers, Writes
<1>2. Known /\ RowsLive
  BY DEF Known, RowsLive
<1>3. \A f \in Keys : FlightDue(f) /\ FlightFresh(f) /\ FlightTTL(f)
  BY DEF FlightDue, FlightFresh, FlightTTL
<1>4. \A s \in Slugs : EntryOfLink(s) /\ EntryOfNone(s)
  BY DEF EntryOfLink, EntryOfNone
<1>5. \A r \in Requests : Reader(r)
  BY DEF Reader
<1> QED BY <1>1, <1>2, <1>3, <1>4, <1>5 DEF IInv

-----------------------------------------------------------------------------
(* A new row: what was cached or fetched of none is recent. *)
LEMMA CreateStep ==
    ASSUME IInv, NEW s \in Slugs, NEW at \in 0..Never, Create(s, at)
    PROVE  IInv'
<1> USE ConstantsAssumption DEF IInv
<1>0. TypeOK /\ Create(s, at)
  OBVIOUS
<1>1. TypeOK'
  BY <1>0 DEF Create, TypeOK, Ids, Entries, Missing, Times, Never, Writes, Ops
<1> DEFINE new == lastId + 1
<1>2. new \in Ids /\ lastId' = new /\ now' = now /\ deletedAt' = deletedAt /\ cache' = cache
      /\ flights' = flights /\ reqs' = reqs
  BY <1>0, TypesOf DEF Create, Ids
<1>3. /\ rows[s] = Missing
      /\ \A t \in Slugs : rows'[t] = IF t = s THEN new ELSE rows[t]
      /\ \A t \in Slugs : createdAt'[t] = IF t = s THEN now ELSE createdAt[t]
      /\ \A i \in Ids : i # new => expiresAt'[i] = expiresAt[i]
  BY <1>0, <1>2 DEF Create, TypeOK
<1> HIDE DEF new
<1>4. new = lastId + 1
  BY DEF new
<1>5. Known'
  BY <1>2, <1>3, <1>4, TypesOf DEF Known, Entries, Ids, Missing
<1>6. RowsLive'
  BY <1>2, <1>3, <1>4, TypesOf DEF RowsLive, Known, Ids, Missing
<1>7. ASSUME NEW f \in Keys PROVE (FlightDue(f) /\ FlightFresh(f) /\ FlightTTL(f))'
  <2>1. flights[f].entry # new /\ f[2] \in Slugs
    BY <1>4, TypesOf DEF Known, Entries, Ids, Missing
  <2>2. FlightDue(f)'
    BY <1>2 DEF FlightDue
  <2>3. FlightFresh(f)'
    BY <1>2, <1>3, <2>1, TypesOf DEF FlightDue, FlightFresh, Lag, Ids, Missing
  <2>4. FlightTTL(f)'
    BY <1>2, <1>3, <2>1 DEF FlightTTL
  <2> QED BY <2>2, <2>3, <2>4
<1>8. ASSUME NEW t \in Slugs PROVE (EntryOfLink(t) /\ EntryOfNone(t))'
  <2>1. cache[t].entry # new
    BY <1>4, TypesOf DEF Known
  <2> QED BY <1>2, <1>3, <2>1, TypesOf DEF EntryOfLink, EntryOfNone, Lag
<1>9. ASSUME NEW r \in Requests PROVE Reader(r)'
  BY <1>2, <1>3, TypesOf DEF Reader, Lag
<1> QED BY <1>1, <1>5, <1>6, <1>7, <1>8, <1>9

(* Rows that go, of the owner or of the sweep: what was read of them is recent. *)
LEMMA Removal ==
    ASSUME IInv, TypeOK', NEW S \in SUBSET Slugs, \A s \in S : rows[s] # Missing,
           \A s \in Slugs : rows'[s] = IF s \in S THEN Missing ELSE rows[s],
           \A s \in Slugs : createdAt'[s] = IF s \in S THEN 0 ELSE createdAt[s],
           \A i \in Ids : deletedAt'[i] = IF \E s \in S : rows[s] = i THEN now ELSE deletedAt[i],
           UNCHANGED <<now, lastId, expiresAt, cache, flights, reqs>>
    PROVE  IInv'
<1> USE ConstantsAssumption DEF IInv
<1>1. Known'
  BY TypesOf DEF Known, Missing
<1>2. \A s \in S : rows[s] \in Ids /\ rows[s] <= lastId /\ deletedAt[rows[s]] = Never
  BY TypesOf DEF RowsLive, Known, Missing, Ids
<1>3. RowsLive'
  <2>1. ASSUME NEW s \in Slugs, rows'[s] # Missing PROVE deletedAt'[rows'[s]] = Never
    <3>1. s \notin S /\ rows'[s] = rows[s] /\ rows[s] \in Ids
      BY <2>1, TypesOf DEF Missing, Ids
    <3>2. ~\E t \in S : rows[t] = rows[s]
      BY <3>1 DEF RowsLive, Missing
    <3> QED BY <3>1, <3>2, <2>1 DEF RowsLive
  <2>2. \A i \in Ids : lastId < i => deletedAt'[i] = Never
    BY <1>2, TypesOf DEF RowsLive
  <2> QED BY <2>1, <2>2 DEF RowsLive
<1>4. \A i \in Ids : deletedAt'[i] = now \/ deletedAt'[i] = deletedAt[i]
  OBVIOUS
<1>5. ASSUME NEW f \in Keys PROVE (FlightDue(f) /\ FlightFresh(f) /\ FlightTTL(f))'
  BY <1>4, TypesOf DEF FlightDue, FlightFresh, FlightTTL, Lag
<1>6. ASSUME NEW t \in Slugs PROVE (EntryOfLink(t) /\ EntryOfNone(t))'
  BY <1>4, TypesOf DEF EntryOfLink, EntryOfNone, Lag
<1>7. ASSUME NEW r \in Requests PROVE Reader(r)'
  BY <1>4, TypesOf DEF Reader, Lag
<1> QED BY <1>1, <1>3, <1>5, <1>6, <1>7

LEMMA DeleteStep ==
    ASSUME IInv, DeleteExpired \/ \E s \in Slugs : DeleteURL(s)
    PROVE  IInv'
<1>0. TypeOK
  BY DEF IInv
<1>1. CASE \E s \in Slugs : DeleteURL(s)
  <2>1. PICK s \in Slugs : DeleteURL(s)
    BY <1>1
  <2>2. rows[s] \in Ids /\ now \in 0..Never /\ now \in Times
    BY <1>0, <2>1, ConstantsAssumption DEF DeleteURL, TypeOK, Entries, Missing, Times, Never
  <2>3. TypeOK'
    BY <1>0, <2>1, <2>2, ConstantsAssumption DEF DeleteURL, TypeOK, Entries, Times, Writes, Ops
  <2>4. /\ \A t \in Slugs : rows'[t] = IF t \in {s} THEN Missing ELSE rows[t]
        /\ \A t \in Slugs : createdAt'[t] = IF t \in {s} THEN 0 ELSE createdAt[t]
        /\ \A i \in Ids : deletedAt'[i] = IF \E t \in {s} : rows[t] = i THEN now ELSE deletedAt[i]
        /\ \A t \in {s} : rows[t] # Missing
        /\ UNCHANGED <<now, lastId, expiresAt, cache, flights, reqs>>
    BY <1>0, <2>1, <2>2 DEF DeleteURL, TypeOK
  <2> QED BY <2>3, <2>4, Removal
<1>2. CASE DeleteExpired
  <2> DEFINE swept == {s \in Slugs : rows[s] # Missing /\ Expired(rows[s])}
  <2>1. now \in 0..Never /\ 0 \in Times
    BY <1>0, ConstantsAssumption DEF TypeOK, Times, Never
  <2>2. TypeOK'
    BY <1>0, <1>2, <2>1 DEF DeleteExpired, TypeOK, Entries
  <2>3. /\ \A t \in Slugs : rows'[t] = IF t \in swept THEN Missing ELSE rows[t]
        /\ \A t \in Slugs : createdAt'[t] = IF t \in swept THEN 0 ELSE createdAt[t]
        /\ \A i \in Ids : deletedAt'[i] = IF \E t \in swept : rows[t] = i THEN now ELSE deletedAt[i]
        /\ \A t \in swept : rows[t] # Missing
        /\ UNCHANGED <<now, lastId, expiresAt, cache, flights, reqs>>
    BY <1>2 DEF DeleteExpired
  <2> HIDE DEF swept
  <2>4. swept \in SUBSET Slugs
    BY DEF swept
  <2> QED BY <2>2, <2>3, <2>4, Removal
<1> QED BY <1>1, <1>2

(* A key that goes, and a value that does not decode: less is cached. *)
LEMMA ClearStep ==
    ASSUME IInv, NEW w \in pending, ClearKey(w) \/ ClearKeyFails(w)
    PROVE  IInv'
<1> USE ConstantsAssumption DEF IInv
<1>1. w.slug \in Slugs
  BY DEF TypeOK, Writes
<1>2. TypeOK'
  BY <1>1 DEF ClearKey, ClearKeyFails, dbVars, TypeOK, Absent, Entries, Missing
<1>3. \A s \in Slugs : cache'[s] = cache[s] \/ cache'[s] = Absent
  BY <1>1 DEF ClearKey, ClearKeyFails, TypeOK
<1>4. UNCHANGED <<now, rows, lastId, expiresAt, createdAt, deletedAt, flights, reqs>>
  BY DEF ClearKey, ClearKeyFails, dbVars
<1>5. Known' /\ RowsLive'
  BY <1>3, <1>4, TypesOf DEF Known, RowsLive, Absent, Missing
<1>6. \A f \in Keys : (FlightDue(f) /\ FlightFresh(f) /\ FlightTTL(f))'
  BY <1>4 DEF FlightDue, FlightFresh, FlightTTL
<1>7. ASSUME NEW s \in Slugs PROVE (EntryOfLink(s) /\ EntryOfNone(s))'
  BY <1>3, <1>4, TypesOf DEF EntryOfLink, EntryOfNone, Absent, Missing, Ids, Lag
<1>8. \A r \in Requests : Reader(r)'
  BY <1>4 DEF Reader
<1> QED BY <1>2, <1>5, <1>6, <1>7, <1>8

-----------------------------------------------------------------------------
(* The handler: steps that change one request. *)
LEMMA RequestStep ==
    ASSUME IInv, TypeOK', NEW r \in Requests,
           \A o \in Requests : o # r => reqs'[o] = reqs[o],
           reqs'[r].entry <= lastId, Reader(r)',
           UNCHANGED <<now, rows, lastId, expiresAt, createdAt, deletedAt, cache, flights>>
    PROVE  IInv'
<1>1. Known' /\ RowsLive'
  BY DEF IInv, Known, RowsLive
<1>2. \A f \in Keys : (FlightDue(f) /\ FlightFresh(f) /\ FlightTTL(f))'
  BY DEF IInv, FlightDue, FlightFresh, FlightTTL
<1>3. \A s \in Slugs : (EntryOfLink(s) /\ EntryOfNone(s))'
  BY DEF IInv, EntryOfLink, EntryOfNone
<1>4. ASSUME NEW o \in Requests, o # r PROVE Reader(o)'
  BY <1>4 DEF IInv, Reader
<1> QED BY <1>1, <1>2, <1>3, <1>4 DEF IInv

LEMMA StartStep ==
    ASSUME IInv, NEW r \in Requests, NEW f \in Keys, Start(r, f)
    PROVE  IInv'
<1>0. TypeOK /\ now \in Times
  BY DEF IInv, TypeOK
<1> DEFINE q == [pc |-> "get", at |-> f, started |-> now, entry |-> Missing]
<1>1. q \in Request
  BY <1>0 DEF Request, Phases, Keys, Entries
<1>2. reqs' = [reqs EXCEPT ![r] = q] /\ UNCHANGED <<now, rows, lastId, expiresAt, createdAt, deletedAt, cache, flights, pending>>
  BY DEF Start, dbVars
<1> HIDE DEF q
<1>3. reqs' \in [Requests -> Request] /\ reqs'[r] = q /\ \A o \in Requests : o # r => reqs'[o] = reqs[o]
  BY <1>0, <1>1, <1>2 DEF TypeOK
<1>4. TypeOK'
  BY <1>0, <1>2, <1>3 DEF TypeOK
<1>5. Reader(r)' /\ reqs'[r].entry <= lastId
  BY <1>0, <1>2, <1>3, TypesOf DEF Reader, Missing, q
<1> QED BY <1>2, <1>3, <1>4, <1>5, RequestStep

(* A request that is over keeps its key and its outcome. *)
LEMMA ReturnStep ==
    ASSUME IInv, NEW r \in Requests, Leave(r) \/ Answer(r)
    PROVE  IInv'
<1>0. TypeOK /\ ConstantsAssumption
  BY ConstantsAssumption DEF IInv
<1>1. PICK a \in Answers : /\ Return(r, a)
                           /\ UNCHANGED <<now, rows, lastId, expiresAt, createdAt, deletedAt, cache, flights, pending>>
  <2>1. CASE Leave(r)
    BY <2>1 DEF Leave, Answers, dbVars
  <2>2. CASE Answer(r)
    <3>1. reqs[r].entry \in Entries \cup {Failed}
      BY <1>0 DEF TypeOK, Request
    <3>2. reqs[r].entry = Failed \/ reqs[r].entry = Missing \/ reqs[r].entry \in Ids
      BY <3>1 DEF Entries
    <3>3. \E a \in Answers : Return(r, a)
      <4> DEFINE e == reqs[r].entry
                 a == CASE e = Failed  -> "error"
                        [] e = Missing -> "notFound"
                        [] e \in Ids   -> IF Expired(e) THEN "gone" ELSE "redirect"
      <4>1. a \in Answers
        BY <3>2 DEF Answers, Failed, Missing, Ids
      <4>2. Return(r, a)
        BY <2>2 DEF Answer
      <4> QED BY <4>1, <4>2
    <3> QED BY <2>2, <3>3 DEF Answer, dbVars
  <2> QED BY <2>1, <2>2
<1> DEFINE q == Blank(a, reqs[r].at)
<1>2. /\ q \in Request
      /\ q.pc \notin {"wait", "decide"} /\ q.started = 0 /\ q.entry = Missing /\ q.at = reqs[r].at
  BY <1>0 DEF TypeOK, Blank, Request, Phases, Answers, Entries, Times
<1>3. reqs' = [reqs EXCEPT ![r] = q]
  BY <1>1 DEF Return
<1> HIDE DEF q
<1>4. reqs' \in [Requests -> Request] /\ reqs'[r] = q /\ \A o \in Requests : o # r => reqs'[o] = reqs[o]
  BY <1>0, <1>2, <1>3 DEF TypeOK
<1>5. TypeOK'
  BY <1>0, <1>1, <1>4 DEF TypeOK
<1>6. Reader(r)' /\ reqs'[r].entry <= lastId
  BY <1>0, <1>1, <1>2, <1>4, TypesOf DEF Reader, Missing
<1> QED BY <1>1, <1>4, <1>5, <1>6, RequestStep

(* What a reader finds is present, and so not over. *)
LEMMA GetStep ==
    ASSUME IInv, NEW r \in Requests, Get(r)
    PROVE  IInv'
<1>0. TypeOK /\ ConstantsAssumption
  BY ConstantsAssumption DEF IInv
<1> DEFINE s == reqs[r].at[2]
<1>1. s \in Slugs /\ reqs[r] \in Request /\ reqs[r].at \in Keys
  BY <1>0, TypesOf
<1>2. UNCHANGED <<now, rows, lastId, expiresAt, createdAt, deletedAt, cache, flights, pending>>
  BY DEF Get, dbVars
<1>3. CASE Present(s) /\ cache[s].entry # Garbled
           /\ reqs' = [reqs EXCEPT ![r].pc = "decide", ![r].entry = cache[s].entry]
  <2>1. cache[s].entry \in Entries
    BY <1>0, <1>1, <1>3 DEF TypeOK
  <2>2. /\ reqs'[r] = [pc |-> "decide", at |-> reqs[r].at, started |-> reqs[r].started, entry |-> cache[s].entry]
        /\ \A o \in Requests : o # r => reqs'[o] = reqs[o]
        /\ DOMAIN reqs' = Requests /\ reqs' = [o \in Requests |-> reqs'[o]]
    BY <1>0, <1>1, <1>3 DEF TypeOK, Request
  <2>3. reqs'[r] \in Request
    BY <1>1, <2>1, <2>2 DEF Request, Phases
  <2>4. TypeOK'
    BY <1>0, <1>2, <2>2, <2>3 DEF TypeOK
  <2>5. reqs'[r].entry <= lastId
    BY <1>1, <2>2 DEF IInv, Known
  <2>6. EntryOfLink(s) /\ EntryOfNone(s) /\ now < cache[s].until /\ reqs[r].started <= now
    BY <1>1, <1>3 DEF IInv, Present, Reader
  <2>7. Reader(r)'
    <3>1. reqs[r].started <= now /\ reqs[r].started \in Int /\ cache[s].until \in Int /\ now \in Int /\ Lag \in Int
      BY <1>0, <1>1, <2>6, TypesOf DEF Lag
    <3>2. ASSUME cache[s].entry \in Ids PROVE reqs[r].started < deletedAt[cache[s].entry] + Lag + TTL
      BY <1>0, <2>6, <3>1, <3>2, TypesOf DEF EntryOfLink
    <3>3. ASSUME cache[s].entry = Missing, rows[s] # Missing PROVE reqs[r].started < createdAt[s] + Lag + NegativeTTL
      BY <1>0, <1>1, <2>6, <3>1, <3>3, TypesOf DEF EntryOfNone
    <3> QED BY <1>2, <2>2, <3>1, <3>2, <3>3 DEF Reader, Lag
  <2> QED BY <1>2, <2>2, <2>4, <2>5, <2>7, RequestStep
<1>4. CASE Goto(r, "drop") \/ Goto(r, "join")
  <2>1. PICK pc \in {"drop", "join"} : reqs' = [reqs EXCEPT ![r].pc = pc]
    BY <1>4 DEF Goto
  <2>2. /\ reqs'[r] = [pc |-> pc, at |-> reqs[r].at, started |-> reqs[r].started, entry |-> reqs[r].entry]
        /\ \A o \in Requests : o # r => reqs'[o] = reqs[o]
        /\ reqs' = [o \in Requests |-> reqs'[o]]
    BY <1>0, <1>1, <2>1 DEF TypeOK, Request
  <2>3. reqs'[r] \in Request
    BY <1>1, <2>2 DEF Request, Phases
  <2>4. TypeOK'
    BY <1>0, <1>2, <2>2, <2>3 DEF TypeOK
  <2>5. reqs'[r].entry <= lastId /\ Reader(r)'
    BY <1>2, <2>2 DEF IInv, Known, Reader
  <2> QED BY <1>2, <2>2, <2>4, <2>5, RequestStep
<1> QED BY <1>3, <1>4 DEF Get

(* The Del of a value that does not decode. *)
LEMMA DropStep ==
    ASSUME IInv, NEW r \in Requests, DropGarbled(r)
    PROVE  IInv'
<1>0. TypeOK /\ ConstantsAssumption
  BY ConstantsAssumption DEF IInv
<1>1. reqs[r] \in Request /\ reqs[r].at[2] \in Slugs
  BY <1>0, TypesOf
<1>2. UNCHANGED <<now, rows, lastId, expiresAt, createdAt, deletedAt, flights, pending>>
  BY DEF DropGarbled, dbVars
<1>3. /\ reqs'[r] = [pc |-> "join", at |-> reqs[r].at, started |-> reqs[r].started, entry |-> reqs[r].entry]
      /\ \A o \in Requests : o # r => reqs'[o] = reqs[o]
      /\ reqs' = [o \in Requests |-> reqs'[o]]
  BY <1>0, <1>1 DEF DropGarbled, Goto, TypeOK, Request
<1>4. /\ \A s \in Slugs : cache'[s] = cache[s] \/ cache'[s] = Absent
      /\ cache' \in [Slugs -> [entry : Entries \cup {Garbled}, until : Nat]]
  <2>1. Absent \in [entry : Entries \cup {Garbled}, until : Nat]
    BY DEF Absent, Entries
  <2>2. cache' = [cache EXCEPT ![reqs[r].at[2]] = Absent] \/ cache' = cache
    BY DEF DropGarbled
  <2>3. cache \in [Slugs -> [entry : Entries \cup {Garbled}, until : Nat]]
    BY <1>0 DEF TypeOK
  <2> QED BY <1>1, <2>1, <2>2, <2>3
<1>5. reqs'[r] \in Request
  BY <1>1, <1>3 DEF Request, Phases
<1>6. TypeOK'
  BY <1>0, <1>2, <1>3, <1>4, <1>5 DEF TypeOK
<1>7. Known' /\ RowsLive'
  BY <1>0, <1>2, <1>3, <1>4, TypesOf DEF IInv, Known, RowsLive, Absent, Missing
<1>8. \A f \in Keys : (FlightDue(f) /\ FlightFresh(f) /\ FlightTTL(f))'
  BY <1>2 DEF IInv, FlightDue, FlightFresh, FlightTTL
<1>9. ASSUME NEW s \in Slugs PROVE (EntryOfLink(s) /\ EntryOfNone(s))'
  BY <1>0, <1>2, <1>4, TypesOf DEF IInv, EntryOfLink, EntryOfNone, Absent, Missing, Ids, Lag
<1>10. ASSUME NEW o \in Requests PROVE Reader(o)'
  BY <1>2, <1>3 DEF IInv, Reader
<1> QED BY <1>6, <1>7, <1>8, <1>9, <1>10 DEF IInv

-----------------------------------------------------------------------------
(* The shared fetch. *)

(* DoChan: whoever waits has a fetch, and a new one has its time-out before it. *)
LEMMA JoinStep ==
    ASSUME IInv, NEW r \in Requests, Join(r)
    PROVE  IInv'
<1>0. TypeOK /\ ConstantsAssumption
  BY ConstantsAssumption DEF IInv
<1> DEFINE f == reqs[r].at
           fresh == [stage |-> "fetch", entry |-> Missing, ttl |-> 0, by |-> now + LoadTimeout]
<1>1. reqs[r] \in Request /\ f \in Keys /\ now \in Nat /\ 0 <= lastId
  BY <1>0, TypesOf DEF TypeOK, Times
<1>2. UNCHANGED <<now, rows, lastId, expiresAt, createdAt, deletedAt, cache, pending>>
  BY DEF Join, dbVars
<1>3. /\ reqs'[r] = [pc |-> "wait", at |-> f, started |-> reqs[r].started, entry |-> reqs[r].entry]
      /\ \A o \in Requests : o # r => reqs'[o] = reqs[o]
      /\ reqs' = [o \in Requests |-> reqs'[o]]
  BY <1>0, <1>1 DEF Join, Goto, TypeOK, Request
<1>4. fresh \in Flight
  BY <1>0, <1>1 DEF Flight, Stages, Entries
<1>5. /\ \A g \in Keys : flights'[g] = flights[g] \/ (flights[g].stage = "none" /\ flights'[g] = fresh)
      /\ flights'[f].stage # "none"
      /\ flights' = [g \in Keys |-> flights'[g]]
  BY <1>0, <1>1 DEF Join, TypeOK, Keys, NoFlight
<1> HIDE DEF fresh
<1>6. fresh.stage = "fetch" /\ fresh.entry = Missing /\ fresh.by = now + LoadTimeout
  BY DEF fresh
<1>7. reqs'[r] \in Request /\ flights' \in [Keys -> Flight]
  <2>1. reqs'[r] \in Request
    BY <1>1, <1>3 DEF Request, Phases
  <2>2. \A g \in Keys : flights'[g] \in Flight
    BY <1>0, <1>4, <1>5 DEF TypeOK, Keys
  <2> QED BY <1>5, <2>1, <2>2
<1>8. TypeOK'
  BY <1>0, <1>2, <1>3, <1>7 DEF TypeOK, Keys
<1>9. Known' /\ RowsLive'
  BY <1>1, <1>2, <1>3, <1>5, <1>6 DEF IInv, Known, RowsLive, Missing
<1>10. ASSUME NEW g \in Keys PROVE (FlightDue(g) /\ FlightFresh(g) /\ FlightTTL(g))'
  <2>1. CASE flights'[g] = flights[g]
    BY <1>2, <2>1 DEF IInv, FlightDue, FlightFresh, FlightTTL
  <2>2. CASE flights'[g] = fresh
    BY <1>0, <1>1, <1>2, <1>6, <2>2 DEF FlightDue, FlightFresh, FlightTTL
  <2> QED BY <1>5, <2>1, <2>2
<1>11. \A s \in Slugs : (EntryOfLink(s) /\ EntryOfNone(s))'
  BY <1>2 DEF IInv, EntryOfLink, EntryOfNone
<1>12. ASSUME NEW o \in Requests PROVE Reader(o)'
  <2>1. reqs[o].at \in Keys /\ Reader(o)
    BY <1>0, TypesOf DEF IInv
  <2>2. CASE o = r
    BY <1>2, <1>3, <1>5, <2>1, <2>2 DEF Reader
  <2>3. CASE o # r
    BY <1>2, <1>3, <1>5, <1>6, <2>1, <2>3 DEF Reader
  <2> QED BY <2>2, <2>3
<1> QED BY <1>8, <1>9, <1>10, <1>11, <1>12 DEF IInv

(* A fetch that ends: the key is free, and who waited has an entry that is fresh. *)
LEMMA FinishStep ==
    ASSUME IInv, NEW f \in Keys, NEW e \in Entries \cup {Failed}, Finish(f, e),
           e <= lastId,
           e \in Ids => now < deletedAt[e] + Lag + TTL,
           e = Missing /\ rows[f[2]] # Missing => now < createdAt[f[2]] + Lag + NegativeTTL,
           UNCHANGED <<now, rows, lastId, expiresAt, createdAt, deletedAt, pending>>
    PROVE  /\ flights' \in [Procs \X Slugs -> Flight] /\ reqs' \in [Requests -> Request]
           /\ \A g \in Keys : flights'[g].entry <= lastId
           /\ \A g \in Keys : (FlightDue(g) /\ FlightFresh(g) /\ FlightTTL(g))'
           /\ \A r \in Requests : reqs'[r].entry <= lastId /\ Reader(r)'
<1>0. TypeOK /\ ConstantsAssumption
  BY ConstantsAssumption DEF IInv
<1>1. NoFlight \in Flight /\ NoFlight.stage = "none" /\ NoFlight.entry = Missing
  BY DEF NoFlight, Flight, Stages, Entries
<1>2. /\ flights' \in [Keys -> Flight]
      /\ flights'[f] = NoFlight
      /\ \A g \in Keys : g # f => flights'[g] = flights[g]
  BY <1>0, <1>1 DEF Finish, TypeOK, Keys
<1>3. \A g \in Keys : flights'[g].entry <= lastId
  BY <1>0, <1>1, <1>2, TypesOf DEF IInv, Known, Missing
<1>4. ASSUME NEW g \in Keys PROVE (FlightDue(g) /\ FlightFresh(g) /\ FlightTTL(g))'
  BY <1>1, <1>2 DEF IInv, FlightDue, FlightFresh, FlightTTL
<1>5. ASSUME NEW r \in Requests PROVE reqs'[r] \in Request /\ reqs'[r].entry <= lastId /\ Reader(r)'
  <2>0. reqs[r] \in Request /\ reqs[r].entry <= lastId /\ Reader(r) /\ reqs[r].at \in Keys
    BY <1>0, TypesOf DEF IInv, Known
  <2>1. CASE r \in Waiters(f)
    <3>1. reqs'[r] = [pc |-> "decide", at |-> f, started |-> reqs[r].started, entry |-> e]
      BY <2>0, <2>1 DEF Finish, Waiters, Request
    <3>2. reqs'[r] \in Request
      BY <2>0, <3>1 DEF Request, Phases, Keys
    <3>3. reqs[r].started <= now /\ reqs[r].started \in Int /\ now \in Int /\ Lag \in Int
      BY <1>0, <2>0, TypesOf DEF Reader, Lag
    <3>4. ASSUME e \in Ids PROVE reqs[r].started < deletedAt[e] + Lag + TTL
      BY <1>0, <3>3, <3>4, TypesOf
    <3>5. ASSUME e = Missing, rows[f[2]] # Missing PROVE reqs[r].started < createdAt[f[2]] + Lag + NegativeTTL
      BY <1>0, <3>3, <3>5, TypesOf
    <3> QED BY <3>1, <3>2, <3>3, <3>4, <3>5 DEF Reader, Lag
  <2>2. CASE r \notin Waiters(f)
    <3>1. reqs'[r] = reqs[r]
      BY <2>2 DEF Finish
    <3>2. reqs[r].pc = "wait" => reqs[r].at # f
      BY <2>2 DEF Waiters
    <3> QED BY <1>2, <2>0, <3>1, <3>2 DEF Reader
  <2> QED BY <2>1, <2>2
<1>6. reqs' = [r \in Requests |-> reqs'[r]]
  BY DEF Finish
<1> QED BY <1>2, <1>3, <1>4, <1>5, <1>6 DEF Keys

(* Of a flight that has read its row: what it says of now. *)
LEMMA StillFresh ==
    ASSUME IInv, NEW f \in Keys, flights[f].stage \in {"put", "set"}
    PROVE  /\ flights[f].entry \in Ids => now <= deletedAt[flights[f].entry] + Lag
           /\ flights[f].entry = Missing /\ rows[f[2]] # Missing => now <= createdAt[f[2]] + Lag
           /\ flights[f].stage = "put" => /\ flights[f].entry \in Ids => now <= deletedAt[flights[f].entry] + LoadTimeout
                                          /\ flights[f].entry = Missing /\ rows[f[2]] # Missing =>
                                                 now <= createdAt[f[2]] + LoadTimeout
           /\ Lag \in Int
<1>0. TypeOK /\ FlightDue(f) /\ FlightFresh(f)
  BY DEF IInv
<1>1. now <= flights[f].by /\ flights[f].by \in Int /\ now \in Int /\ f[2] \in Slugs
  BY <1>0, TypesOf DEF FlightDue
<1>2. Lag \in Int /\ LoadTimeout <= Lag /\ LoadTimeout \in Int
  BY ConstantsAssumption DEF Lag
<1>3. ASSUME flights[f].entry \in Ids
      PROVE  /\ now <= deletedAt[flights[f].entry] + Lag
             /\ flights[f].stage = "put" => now <= deletedAt[flights[f].entry] + LoadTimeout
  BY <1>0, <1>1, <1>2, <1>3, TypesOf DEF FlightFresh
<1>4. ASSUME flights[f].entry = Missing, rows[f[2]] # Missing
      PROVE  /\ now <= createdAt[f[2]] + Lag
             /\ flights[f].stage = "put" => now <= createdAt[f[2]] + LoadTimeout
  BY <1>0, <1>1, <1>2, <1>4, TypesOf DEF FlightFresh
<1> QED BY <1>2, <1>3, <1>4

(* A result that everybody gets and nobody caches. *)
LEMMA FinishOnly ==
    ASSUME IInv, NEW f \in Keys, NEW e \in Entries \cup {Failed}, Finish(f, e),
           e = Failed \/ (flights[f].stage = "put" /\ e = flights[f].entry),
           UNCHANGED <<now, rows, lastId, expiresAt, createdAt, deletedAt, cache, pending>>
    PROVE  IInv'
<1>0. TypeOK /\ ConstantsAssumption /\ f[2] \in Slugs
  BY ConstantsAssumption, TypesOf DEF IInv
<1>1. e <= lastId
  BY <1>0, TypesOf DEF IInv, Known, Failed
<1>2. e \in Ids => now < deletedAt[e] + Lag + TTL
  BY <1>0, StillFresh, TypesOf DEF Failed, Ids
<1>3. e = Missing /\ rows[f[2]] # Missing => now < createdAt[f[2]] + Lag + NegativeTTL
  BY <1>0, StillFresh, TypesOf DEF Failed, Missing
<1>4. /\ flights' \in [Procs \X Slugs -> Flight] /\ reqs' \in [Requests -> Request]
      /\ \A g \in Keys : flights'[g].entry <= lastId
      /\ \A g \in Keys : (FlightDue(g) /\ FlightFresh(g) /\ FlightTTL(g))'
      /\ \A r \in Requests : reqs'[r].entry <= lastId /\ Reader(r)'
  BY <1>1, <1>2, <1>3, FinishStep
<1>5. TypeOK'
  BY <1>0, <1>4 DEF TypeOK
<1>6. Known' /\ RowsLive'
  BY <1>4 DEF IInv, Known, RowsLive
<1>7. \A s \in Slugs : (EntryOfLink(s) /\ EntryOfNone(s))'
  BY DEF IInv, EntryOfLink, EntryOfNone
<1> QED BY <1>4, <1>5, <1>6, <1>7 DEF IInv

(* A flight goes on: what it says of itself afterwards is all that is asked. *)
LEMMA FlightStep ==
    ASSUME IInv, NEW f \in Keys, NEW g \in Flight,
           flights' = [flights EXCEPT ![f] = g], g.stage # "none", g.entry <= lastId,
           (FlightDue(f) /\ FlightFresh(f) /\ FlightTTL(f))',
           UNCHANGED <<now, rows, lastId, expiresAt, createdAt, deletedAt, cache, reqs, pending>>
    PROVE  IInv'
<1>0. TypeOK
  BY DEF IInv
<1>1. /\ flights' \in [Keys -> Flight] /\ flights'[f] = g
      /\ \A h \in Keys : h # f => flights'[h] = flights[h]
  BY <1>0 DEF TypeOK, Keys
<1>2. TypeOK'
  BY <1>0, <1>1 DEF TypeOK, Keys
<1>3. Known' /\ RowsLive'
  BY <1>1 DEF IInv, Known, RowsLive
<1>4. ASSUME NEW h \in Keys PROVE (FlightDue(h) /\ FlightFresh(h) /\ FlightTTL(h))'
  BY <1>1 DEF IInv, FlightDue, FlightFresh, FlightTTL
<1>5. \A s \in Slugs : (EntryOfLink(s) /\ EntryOfNone(s))'
  BY DEF IInv, EntryOfLink, EntryOfNone
<1>6. ASSUME NEW r \in Requests PROVE Reader(r)'
  BY <1>0, <1>1, TypesOf DEF IInv, Reader
<1> QED BY <1>2, <1>3, <1>4, <1>5, <1>6 DEF IInv

(* The row is read: nobody has deleted it, or nobody has created it yet. *)
LEMMA FetchStep ==
    ASSUME IInv, NEW f \in Keys, Fetch(f)
    PROVE  IInv'
<1>0. TypeOK /\ ConstantsAssumption
  BY ConstantsAssumption DEF IInv
<1>1. flights[f] \in Flight /\ f[2] \in Slugs /\ flights[f].by \in Int /\ now \in Int
  BY <1>0, TypesOf
<1> DEFINE g == [stage |-> "put", entry |-> rows[f[2]], ttl |-> flights[f].ttl, by |-> flights[f].by]
<1>2. flights' = [flights EXCEPT ![f] = g]
  <2>1. \A e : flights' = [flights EXCEPT ![f].stage = "put", ![f].entry = e] =>
               flights' = [flights EXCEPT ![f] = [stage |-> "put", entry |-> e,
                                                  ttl |-> flights[f].ttl, by |-> flights[f].by]]
    BY <1>0, <1>1 DEF TypeOK, Flight, Keys
  <2> QED BY <2>1 DEF Fetch
<1>3. g \in Flight
  BY <1>0, <1>1 DEF Flight, Stages, TypeOK
<1>4. UNCHANGED <<now, rows, lastId, expiresAt, createdAt, deletedAt, cache, reqs, pending>>
  BY DEF Fetch, dbVars
<1>5. now <= flights[f].by /\ flights[f].by <= now + LoadTimeout
  BY DEF IInv, FlightDue, Fetch
<1>6. flights'[f] = g
  BY <1>0, <1>2 DEF TypeOK, Keys
<1>7. rows[f[2]] # Missing => rows[f[2]] \in Ids /\ deletedAt[rows[f[2]]] = Never
  BY <1>0, <1>1 DEF IInv, RowsLive, TypeOK, Entries
<1>8. FlightDue(f)' /\ FlightTTL(f)'
  BY <1>4, <1>5, <1>6 DEF FlightDue, FlightTTL
<1>9. FlightFresh(f)'
  <2>1. rows[f[2]] \in Ids => rows[f[2]] # Missing
    BY DEF Ids, Missing
  <2>2. now <= Never /\ Never \in Int
    BY <1>0, TypesOf DEF Never
  <2>3. rows[f[2]] \in Ids => flights[f].by <= deletedAt[rows[f[2]]] + LoadTimeout
    BY <1>0, <1>1, <1>5, <1>7, <2>1, <2>2
  <2> QED BY <1>4, <1>6, <2>1, <2>3 DEF FlightFresh
<1>10. g.stage # "none" /\ g.entry <= lastId
  BY <1>1 DEF IInv, Known
<1> HIDE DEF g
<1> QED BY <1>2, <1>3, <1>4, <1>8, <1>9, <1>10, FlightStep

(* The TTL is positive, fits its kind of entry and ends with the link. *)
LEMMA PutStep ==
    ASSUME IInv, NEW f \in Keys, Put(f)
    PROVE  IInv'
<1>0. TypeOK /\ ConstantsAssumption
  BY ConstantsAssumption DEF IInv
<1> DEFINE e == flights[f].entry
           ttl == PutTTL(e)
           g == [stage |-> "set", entry |-> e, ttl |-> ttl, by |-> now + PutTimeout]
<1>1. flights[f] \in Flight /\ f[2] \in Slugs /\ e \in Entries /\ now \in Nat /\ flights[f].stage = "put"
  BY <1>0, TypesOf DEF Put, TypeOK, Times
<1>2. UNCHANGED <<now, rows, lastId, expiresAt, createdAt, deletedAt, cache, pending>>
  BY DEF Put, dbVars
<1>3. CASE ttl <= 0
  <2>1. Finish(f, e)
    BY <1>3 DEF Put
  <2> QED BY <1>1, <1>2, <2>1, FinishOnly
<1>4. CASE ~(ttl <= 0)
  <2>1. flights' = [flights EXCEPT ![f] = g] /\ reqs' = reqs
    BY <1>0, <1>1, <1>4 DEF Put, TypeOK, Flight, Keys
  <2>2. /\ ttl \in Int
        /\ e = Missing => ttl <= NegativeTTL
        /\ e \in Ids => /\ ttl <= TTL
                        /\ expiresAt[e] # Never => ttl <= expiresAt[e] - now
    <3>1. e \in Ids => expiresAt[e] \in Int
      BY <1>0, TypesOf
    <3>2. e = Missing \/ (e \in Ids /\ e # Missing)
      BY <1>1 DEF Entries, Missing, Ids
    <3> QED BY <1>0, <1>1, <3>1, <3>2 DEF PutTTL, Missing, Ids
  <2> HIDE DEF ttl
  <2>3. g \in Flight
    BY <1>0, <1>1, <1>4, <2>2 DEF Flight, Stages
  <2>4. flights'[f] = g
    BY <1>0, <2>1 DEF TypeOK, Keys
  <2>5. FlightDue(f)'
    BY <1>0, <1>1, <1>2, <2>4 DEF FlightDue
  <2>6. FlightFresh(f)'
    <3>1. e \in Ids => now + PutTimeout <= deletedAt[e] + Lag
      BY <1>0, <1>1, StillFresh, TypesOf DEF Lag
    <3>2. e = Missing /\ rows[f[2]] # Missing => now + PutTimeout <= createdAt[f[2]] + Lag
      BY <1>0, <1>1, StillFresh, TypesOf DEF Lag
    <3> QED BY <1>2, <2>4, <3>1, <3>2 DEF FlightFresh, Lag
  <2>7. FlightTTL(f)'
    <3>1. e \in Ids /\ expiresAt[e] # Never => now + PutTimeout + ttl <= expiresAt[e] + PutTimeout
      BY <1>0, <1>1, <2>2, TypesOf
    <3> QED BY <1>2, <2>2, <2>4, <3>1 DEF FlightTTL, Never
  <2>8. g.stage # "none" /\ g.entry <= lastId
    BY DEF IInv, Known
  <2> HIDE DEF g
  <2> QED BY <1>2, <2>1, <2>3, <2>5, <2>6, <2>7, <2>8, FlightStep
<1> QED BY <1>3, <1>4

(* What is stored ends within one TTL of a time at which it was fresh. *)
LEMMA SetStep ==
    ASSUME IInv, NEW f \in Keys, Set(f)
    PROVE  IInv'
<1>0. TypeOK /\ ConstantsAssumption
  BY ConstantsAssumption DEF IInv
<1> DEFINE e == flights[f].entry
           ttl == flights[f].ttl
           stored == [entry |-> e, until |-> now + ttl]
<1>1. flights[f] \in Flight /\ f[2] \in Slugs /\ e \in Entries /\ now \in Nat /\ ttl \in Nat /\ flights[f].stage = "set"
  BY <1>0, TypesOf DEF Set, TypeOK, Times, Flight
<1>2. UNCHANGED <<now, rows, lastId, expiresAt, createdAt, deletedAt, pending>> /\ Finish(f, e)
  BY DEF Set, dbVars
<1>3. e \in Ids => now <= deletedAt[e] + Lag
  BY <1>1, StillFresh
<1>4. e = Missing /\ rows[f[2]] # Missing => now <= createdAt[f[2]] + Lag
  BY <1>1, StillFresh
<1>5. e <= lastId
  BY DEF IInv, Known
<1>6. Lag \in Int
  BY <1>0 DEF Lag
<1>7. /\ flights' \in [Procs \X Slugs -> Flight] /\ reqs' \in [Requests -> Request]
      /\ \A g \in Keys : flights'[g].entry <= lastId
      /\ \A g \in Keys : (FlightDue(g) /\ FlightFresh(g) /\ FlightTTL(g))'
      /\ \A r \in Requests : reqs'[r].entry <= lastId /\ Reader(r)'
  <2>1. e \in Ids => now < deletedAt[e] + Lag + TTL
    BY <1>0, <1>3, <1>6, TypesOf
  <2>2. e = Missing /\ rows[f[2]] # Missing => now < createdAt[f[2]] + Lag + NegativeTTL
    BY <1>0, <1>1, <1>4, <1>6, TypesOf
  <2>3. e \in Entries \cup {Failed}
    BY <1>1
  <2> HIDE DEF e
  <2> QED BY <1>2, <1>5, <2>1, <2>2, <2>3, FinishStep
<1>8. stored \in [entry : Entries \cup {Garbled}, until : Nat]
  BY <1>1
<1>9. cache' = [cache EXCEPT ![f[2]] = stored] \/ cache' = cache
  BY DEF Set
<1>10. stored.entry = e /\ stored.until = now + ttl
  OBVIOUS
<1> HIDE DEF stored
<1>11. /\ cache' \in [Slugs -> [entry : Entries \cup {Garbled}, until : Nat]]
       /\ \A s \in Slugs : cache'[s] = cache[s] \/ (s = f[2] /\ cache'[s] = stored)
  BY <1>0, <1>1, <1>8, <1>9 DEF TypeOK
<1>12. TypeOK'
  BY <1>0, <1>2, <1>7, <1>11 DEF TypeOK
<1>13. Known' /\ RowsLive'
  BY <1>2, <1>5, <1>7, <1>10, <1>11 DEF IInv, Known, RowsLive
<1>14. ASSUME NEW s \in Slugs PROVE (EntryOfLink(s) /\ EntryOfNone(s))'
  <2>1. CASE cache'[s] = cache[s]
    BY <1>2, <2>1 DEF IInv, EntryOfLink, EntryOfNone
  <2>2. CASE s = f[2] /\ cache'[s] = stored
    <3>1. FlightDue(f) /\ FlightTTL(f) /\ flights[f].by \in Int
      BY <1>0, TypesOf DEF IInv
    <3>2. ASSUME e \in Ids
          PROVE  /\ now + ttl <= now + TTL
                 /\ now + ttl <= deletedAt[e] + Lag + TTL
                 /\ expiresAt[e] # Never => now + ttl <= expiresAt[e] + PutTimeout
      <4>1. ttl <= TTL /\ now <= flights[f].by
        BY <1>1, <3>1, <3>2 DEF FlightTTL, FlightDue
      <4>2. expiresAt[e] # Never => flights[f].by + ttl <= expiresAt[e] + PutTimeout
        BY <1>1, <3>1, <3>2 DEF FlightTTL
      <4> QED BY <1>0, <1>1, <1>3, <1>6, <3>1, <3>2, <4>1, <4>2, TypesOf
    <3>3. ASSUME e = Missing
          PROVE  /\ now + ttl <= now + NegativeTTL
                 /\ rows[s] # Missing => now + ttl <= createdAt[s] + Lag + NegativeTTL
      <4>1. ttl <= NegativeTTL
        BY <1>1, <3>1, <3>3 DEF FlightTTL
      <4> QED BY <1>0, <1>1, <1>4, <1>6, <2>2, <3>3, <4>1, TypesOf
    <3> QED BY <1>2, <1>10, <2>2, <3>2, <3>3 DEF EntryOfLink, EntryOfNone, Lag, Never
  <2> QED BY <1>11, <2>1, <2>2
<1> QED BY <1>7, <1>12, <1>13, <1>14 DEF IInv

(* No deadline is passed over, and what Redis drops is no longer there. *)
LEMMA TickStep ==
    ASSUME IInv, Tick
    PROVE  IInv'
<1>0. TypeOK /\ ConstantsAssumption /\ now \in Nat /\ now' = now + 1
  BY ConstantsAssumption DEF IInv, TypeOK, Times, Tick
<1>1. UNCHANGED <<rows, lastId, expiresAt, createdAt, deletedAt, flights, reqs, pending>>
  BY DEF Tick, dbVars
<1>2. /\ cache' \in [Slugs -> [entry : Entries \cup {Garbled}, until : Nat]]
      /\ \A s \in Slugs : cache'[s] = cache[s] \/ cache'[s] = Absent
  <2>1. Absent \in [entry : Entries \cup {Garbled}, until : Nat]
    BY DEF Absent, Entries
  <2> QED BY <1>0, <2>1 DEF TypeOK, Tick
<1>3. now' \in Times
  BY <1>0 DEF Tick, Times
<1>4. TypeOK'
  BY <1>0, <1>1, <1>2, <1>3 DEF TypeOK
<1>5. Known' /\ RowsLive'
  BY <1>0, <1>1, <1>2, TypesOf DEF IInv, Known, RowsLive, Absent, Missing
<1>6. ASSUME NEW f \in Keys PROVE (FlightDue(f) /\ FlightFresh(f) /\ FlightTTL(f))'
  <2>1. flights[f].stage # "none" => now < flights[f].by
    BY DEF Tick, Keys
  <2>2. FlightDue(f)'
    BY <1>0, <1>1, <2>1, TypesOf DEF IInv, FlightDue
  <2>3. FlightFresh(f)' /\ FlightTTL(f)'
    BY <1>1 DEF IInv, FlightFresh, FlightTTL
  <2> QED BY <2>2, <2>3
<1>7. ASSUME NEW s \in Slugs PROVE (EntryOfLink(s) /\ EntryOfNone(s))'
  <2>1. CASE cache'[s] = Absent
    BY <1>0, <1>1, <2>1, TypesOf DEF EntryOfLink, EntryOfNone, Absent, Missing, Ids, Lag
  <2>2. CASE cache'[s] = cache[s]
    BY <1>0, <1>1, <2>2, TypesOf DEF IInv, EntryOfLink, EntryOfNone
  <2> QED BY <1>2, <2>1, <2>2
<1>8. ASSUME NEW r \in Requests PROVE Reader(r)'
  BY <1>0, <1>1, TypesOf DEF IInv, Reader
<1> QED BY <1>4, <1>5, <1>6, <1>7, <1>8 DEF IInv

-----------------------------------------------------------------------------
LEMMA Inductive ==
    ASSUME IInv, [Next]_vars
    PROVE  IInv'
<1>1. CASE UNCHANGED vars
  BY <1>1 DEF vars, IInv, TypeOK, Known, RowsLive, FlightDue, FlightFresh, FlightTTL, EntryOfLink, EntryOfNone, Reader
<1>2. ASSUME NEW s \in Slugs, NEW at \in 0..Never, Create(s, at) PROVE IInv'
  BY <1>2, CreateStep
<1>3. ASSUME NEW s \in Slugs, DeleteURL(s) PROVE IInv'
  BY <1>3, DeleteStep
<1>4. ASSUME NEW w \in pending, ClearKey(w) \/ ClearKeyFails(w) PROVE IInv'
  BY <1>4, ClearStep
<1>5. CASE DeleteExpired
  BY <1>5, DeleteStep
<1>6. ASSUME NEW r \in Requests, NEW f \in Procs \X Slugs, Start(r, f) PROVE IInv'
  BY <1>6, StartStep DEF Keys
<1>7. ASSUME NEW r \in Requests, Get(r) \/ DropGarbled(r) \/ Join(r) \/ Leave(r) \/ Answer(r) PROVE IInv'
  BY <1>7, GetStep, DropStep, JoinStep, ReturnStep
<1>8. ASSUME NEW f \in Procs \X Slugs, Fetch(f) \/ Put(f) \/ Set(f) PROVE IInv'
  BY <1>8, FetchStep, PutStep, SetStep DEF Keys
<1>9. ASSUME NEW f \in Procs \X Slugs, FetchFails(f) PROVE IInv'
  <2>1. Failed \in Entries \cup {Failed} /\ f \in Keys
    BY DEF Keys
  <2>2. Finish(f, Failed) /\ UNCHANGED <<now, rows, lastId, expiresAt, createdAt, deletedAt, cache, pending>>
    BY <1>9 DEF FetchFails, dbVars
  <2> QED BY <2>1, <2>2, FinishOnly
<1>10. CASE Tick
  BY <1>10, TickStep
<1> QED BY <1>1, <1>2, <1>3, <1>4, <1>5, <1>6, <1>7, <1>8, <1>9, <1>10 DEF Next

(* The invariant says what the property asks: an entry that is present is   *)
(* not over.                                                                *)
LEMMA EntriesEnd ==
    ASSUME IInv
    PROVE  StaleEntriesEnd
<1>1. DeadLinkEnds /\ NegativeEnds /\ WaiterHasFlight
  BY DEF IInv, Reader, DeadLinkEnds, NegativeEnds, WaiterHasFlight
<1>2. EntryEndsWithLink
  BY DEF IInv, EntryOfLink, EntryEndsWithLink
<1> QED BY <1>1, <1>2 DEF StaleEntriesEnd

LEMMA Invariant == Spec => []IInv
<1>1. Init => IInv
  BY Initially
<1>2. IInv /\ [Next]_vars => IInv'
  BY Inductive
<1> QED BY <1>1, <1>2, PTL DEF Spec

(* Redirects, fetches and writes keep to their states, at any size (cache.go and api.go as modelled). *)
THEOREM Typed == Spec => []TypeOK
<1>1. IInv => TypeOK
  BY DEF IInv
<1> QED BY <1>1, Invariant, PTL

(* However many readers, processes and writers: a deleted link is followed  *)
(* for at most one TTL and the time of one fetch, a new one is denied for    *)
(* at most NegativeTTL and that time, no entry outlives its link but for a   *)
(* SET's own time-out, and whoever waits has a fetch (Lookup, Put, Delete).   *)
THEOREM StaleEntriesEndAlways == Spec => []StaleEntriesEnd
<1>1. IInv => StaleEntriesEnd
  BY EntriesEnd
<1> QED BY <1>1, Invariant, PTL
=============================================================================
