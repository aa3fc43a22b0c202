--------------------------- MODULE ScheduleProofs ---------------------------
(***************************************************************************)
(* What must not be cut short.  A token verifies in every process until it *)
(* expires, the lock of a sweep outlasts every clock that could enqueue it *)
(* again, and what a call uses is closed after the call.  Each of the      *)
(* three arguments dates or orders what ends: the key its signer left, the *)
(* lock and the last firing that it must meet, the things that run has     *)
(* opened.  The last section puts these services and those of              *)
(* LimiterProofs and StoreProofs together.                                 *)
(***************************************************************************)
EXTENDS MCServices, LimiterProofs, StoreProofs, FiniteSetTheorems, SequenceTheorems, TLAPS

-----------------------------------------------------------------------------
(* Keys. Whoever signed with a key still does, or left it TTL before expiry. *)

(* The inductive invariant, by parts. *)
Claim == [by : Issuers, exp : Nat, kid : Kids \cup {None}, key : Kids \cup {None}]

KeyTypeOK ==
    /\ verifyKeys \in [Issuers -> SUBSET Kids]
    /\ activeKID \in [Issuers -> Kids] /\ signKey \in [Issuers -> Kids]
    /\ leftAt \in [Kids -> Nat \cup {None}]
    /\ mint \in Claim \cup {None} /\ token \in Claim \cup {None}
    /\ mintTime \in Nat

(* A process signs with the key that it names, and every process knows it. *)
ActiveIsKnown == \A p, q \in Issuers : signKey[p] = activeKID[p] /\ activeKID[p] \in verifyKeys[q]

(* The signer has not left the key, or has for less than the token lives. *)
NotLeftBefore(m) == activeKID[m.by] = m.kid \/ (leftAt[m.kid] # None /\ m.exp <= leftAt[m.kid] + TTL)

(* The name is that of the key, which stays in every map while the token   *)
(* lives.                                                                  *)
Safe(m) ==
    /\ m.key = m.kid /\ NotLeftBefore(m)
    /\ m.exp > mintTime => \A q \in Issuers : m.kid \in verifyKeys[q]

MintKept == mint # None => mint.exp <= mintTime + TTL /\ (mint.kid # None => Safe(mint))
TokenKept == token # None => token.kid # None /\ token.exp > mintTime /\ token.exp <= mintTime + TTL /\ Safe(token)

KeyInv == KeyTypeOK /\ ActiveIsKnown /\ MintKept /\ TokenKept

-----------------------------------------------------------------------------
(* Mint's three steps keep the invariant. *)
LEMMA MintSteps ==
    ASSUME KeyInv, ReadKey \/ Sign \/ \E p \in Issuers : BeginMint(p)
    PROVE  KeyInv'
<1> USE KeyAssumption DEF KeyInv
<1>1. CASE \E p \in Issuers : BeginMint(p)
  <2>1. PICK p \in Issuers : BeginMint(p)
    BY <1>1
  <2>2. [by |-> p, exp |-> mintTime + TTL, kid |-> None, key |-> None] \in Claim
    BY DEF Claim, KeyTypeOK
  <2>3. KeyTypeOK' /\ ActiveIsKnown' /\ TokenKept'
    BY <2>1, <2>2 DEF BeginMint, KeyTypeOK, ActiveIsKnown, TokenKept
  <2>4. MintKept'
    BY <2>1 DEF BeginMint, MintKept, KeyTypeOK
  <2> QED BY <2>3, <2>4
<1>2. CASE ReadKey
  <2>1. mint \in Claim /\ mint.by \in Issuers
    BY <1>2 DEF ReadKey, KeyTypeOK, Claim
  <2> DEFINE m == [mint EXCEPT !.kid = activeKID[mint.by], !.key = signKey[mint.by]]
  <2>2. m \in Claim /\ m.by = mint.by /\ m.exp = mint.exp /\ m.kid = activeKID[mint.by] /\ m.key = signKey[mint.by]
    BY <2>1 DEF Claim, KeyTypeOK
  <2>3. mint' = m
    BY <1>2 DEF ReadKey
  <2>4. KeyTypeOK' /\ ActiveIsKnown' /\ TokenKept'
    BY <1>2, <2>2, <2>3 DEF ReadKey, KeyTypeOK, ActiveIsKnown, TokenKept, Safe, NotLeftBefore
  <2>5. m.key = m.kid /\ activeKID[m.by] = m.kid /\ \A q \in Issuers : m.kid \in verifyKeys[q]
    BY <2>1, <2>2 DEF ActiveIsKnown
  <2>6. m.exp <= mintTime + TTL
    BY <1>2, <2>2 DEF ReadKey, MintKept
  <2> HIDE DEF m
  <2>7. MintKept'
    BY <1>2, <2>3, <2>5, <2>6 DEF ReadKey, MintKept, Safe, NotLeftBefore
  <2> QED BY <2>4, <2>7
<1>3. CASE Sign
  <2>1. mint \in Claim
    BY <1>3 DEF Sign, KeyTypeOK
  <2>2. [mint EXCEPT !.exp = ExpiryOf(mint)] = mint
    BY <2>1 DEF Claim, ExpiryOf
  <2>3. token' = (IF mint.exp > mintTime THEN mint ELSE None) /\ mint' = None
    BY <1>3, <2>2 DEF Sign, ExpiryOf
  <2>4. KeyTypeOK' /\ ActiveIsKnown' /\ MintKept'
    BY <1>3, <2>1, <2>3 DEF Sign, KeyTypeOK, ActiveIsKnown, MintKept
  <2>5. TokenKept'
    BY <1>3, <2>3 DEF Sign, MintKept, TokenKept, Safe, NotLeftBefore
  <2> QED BY <2>4, <2>5
<1> QED BY <1>1, <1>2, <1>3

-----------------------------------------------------------------------------
(* A rotation: what was signed before stays verifiable, the new key is     *)
(* known everywhere before anything is signed with it.                     *)
LEMMA RotateKeeps ==
    ASSUME KeyInv, NEW p \in Issuers, NEW k \in Kids, Rotate(p, k), NEW m \in Claim,
           m.kid # None, m.exp <= mintTime + TTL, Safe(m)
    PROVE  Safe(m)'
<1> USE KeyAssumption DEF KeyInv
<1>1. m.kid \in Kids /\ m.by \in Issuers /\ m.exp \in Nat
  BY DEF Claim
<1>2. \A q \in Issuers : verifyKeys[q] \subseteq verifyKeys'[q]
  BY DEF Rotate, KeyTypeOK
<1>3. mintTime' = mintTime /\ mintTime \in Nat
  BY DEF Rotate, KeyTypeOK
<1>4. NotLeftBefore(m)'
  <2>1. CASE activeKID[p] = m.kid
    <3>1. leftAt'[m.kid] = mintTime
      BY <1>1, <2>1 DEF Rotate, KeyTypeOK
    <3> QED BY <1>1, <1>3, <3>1 DEF NotLeftBefore
  <2>2. CASE activeKID[p] # m.kid
    <3>1. leftAt'[m.kid] = leftAt[m.kid]
      BY <1>1, <2>2 DEF Rotate, KeyTypeOK
    <3>2. activeKID[m.by] = m.kid => activeKID'[m.by] = m.kid
      BY <1>1, <2>2 DEF Rotate, KeyTypeOK
    <3> QED BY <3>1, <3>2 DEF NotLeftBefore, Safe
  <2> QED BY <2>1, <2>2
<1> QED BY <1>2, <1>3, <1>4 DEF Safe

(* What a removal takes away is no longer needed. *)
LEMMA RemoveKeeps ==
    ASSUME KeyInv, NEW p \in Issuers, NEW k \in Kids, RemoveVerifyKey(p, k), NEW m \in Claim,
           m.kid # None, Safe(m)
    PROVE  Safe(m)'
<1> USE KeyAssumption DEF KeyInv
<1>1. m.kid \in Kids /\ m.by \in Issuers /\ m.exp \in Nat
  BY DEF Claim
<1>2. mintTime' = mintTime /\ mintTime \in Nat /\ activeKID' = activeKID /\ leftAt' = leftAt
  BY DEF RemoveVerifyKey, KeyTypeOK
<1>3. m.kid = k => m.exp <= mintTime
  <2> SUFFICES ASSUME m.kid = k PROVE m.exp <= mintTime
    OBVIOUS
  <2>1. activeKID[m.by] # k
    BY <1>1 DEF RemoveVerifyKey, Unused, KeyTypeOK
  <2>2. leftAt[k] # None /\ leftAt[k] \in Nat /\ m.exp <= leftAt[k] + TTL
    BY <2>1 DEF Safe, NotLeftBefore, KeyTypeOK
  <2>3. mintTime >= leftAt[k] + TTL
    BY DEF RemoveVerifyKey, Unused
  <2> QED BY <1>1, <1>2, <2>2, <2>3
<1>4. m.kid # k => \A q \in Issuers : m.kid \in verifyKeys[q] => m.kid \in verifyKeys'[q]
  BY DEF RemoveVerifyKey, KeyTypeOK
<1>5. NotLeftBefore(m)'
  BY <1>2 DEF Safe, NotLeftBefore
<1> QED BY <1>1, <1>2, <1>3, <1>4, <1>5 DEF Safe

-----------------------------------------------------------------------------
(* The operator's three calls keep the invariant. *)
LEMMA OperatorSteps ==
    ASSUME KeyInv, NEW p \in Issuers, NEW k \in Kids,
           AddVerifyKey(p, k) \/ Rotate(p, k) \/ RemoveVerifyKey(p, k)
    PROVE  KeyInv'
<1> USE KeyAssumption DEF KeyInv
<1>1. CASE AddVerifyKey(p, k)
  <2>1. KeyTypeOK'
    BY <1>1 DEF AddVerifyKey, KeyTypeOK
  <2>2. \A q \in Issuers : verifyKeys[q] \subseteq verifyKeys'[q]
    BY <1>1 DEF AddVerifyKey, KeyTypeOK
  <2>3. ActiveIsKnown'
    BY <1>1, <2>2 DEF AddVerifyKey, ActiveIsKnown
  <2>4. MintKept' /\ TokenKept'
    BY <1>1, <2>2 DEF AddVerifyKey, MintKept, TokenKept, Safe, NotLeftBefore
  <2> QED BY <2>1, <2>3, <2>4
<1>2. CASE Rotate(p, k)
  <2>1. activeKID[p] \in Kids /\ mintTime \in Nat
    BY DEF KeyTypeOK
  <2>2. KeyTypeOK'
    BY <1>2, <2>1 DEF Rotate, KeyTypeOK
  <2>3. \A q \in Issuers : verifyKeys[q] \subseteq verifyKeys'[q] /\ k \in verifyKeys'[q]
    BY <1>2 DEF Rotate, KeyTypeOK
  <2>4. ActiveIsKnown'
    BY <1>2, <2>3 DEF Rotate, ActiveIsKnown, KeyTypeOK
  <2>5. MintKept'
    <3> SUFFICES ASSUME mint # None, mint.kid # None PROVE Safe(mint)'
      BY <1>2 DEF Rotate, MintKept, Safe, NotLeftBefore
    <3>1. mint \in Claim /\ mint.exp <= mintTime + TTL /\ Safe(mint)
      BY DEF KeyTypeOK, MintKept
    <3> DEFINE m == mint
    <3>2. mint' = m
      BY <1>2 DEF Rotate
    <3> HIDE DEF m
    <3> QED BY <1>2, <3>1, <3>2, RotateKeeps DEF Safe, NotLeftBefore, m
  <2>6. TokenKept'
    BY <1>2, RotateKeeps DEF Rotate, TokenKept, KeyTypeOK, Safe, NotLeftBefore
  <2> QED BY <2>2, <2>4, <2>5, <2>6
<1>3. CASE RemoveVerifyKey(p, k)
  <2>1. KeyTypeOK'
    BY <1>3 DEF RemoveVerifyKey, KeyTypeOK
  <2>2. \A q \in Issuers : activeKID[q] # k
    BY <1>3 DEF RemoveVerifyKey, Unused, KeyTypeOK
  <2>3. ActiveIsKnown'
    BY <1>3, <2>2 DEF RemoveVerifyKey, ActiveIsKnown, KeyTypeOK
  <2>4. MintKept'
    BY <1>3, RemoveKeeps DEF RemoveVerifyKey, MintKept, KeyTypeOK, Safe, NotLeftBefore
  <2>5. TokenKept'
    BY <1>3, RemoveKeeps DEF RemoveVerifyKey, TokenKept, KeyTypeOK, Safe, NotLeftBefore
  <2> QED BY <2>1, <2>3, <2>4, <2>5
<1> QED BY <1>1, <1>2, <1>3

(* Every step keeps the invariant; a passing second only ends tokens. *)
LEMMA KeyStep == KeyInv /\ [KeyNext]_keyVars => KeyInv'
<1> SUFFICES ASSUME KeyInv, [KeyNext]_keyVars PROVE KeyInv'
  OBVIOUS
<1>1. CASE ReadKey \/ Sign \/ \E p \in Issuers : BeginMint(p)
  BY <1>1, MintSteps
<1>2. CASE \E p \in Issuers, k \in Kids : AddVerifyKey(p, k) \/ Rotate(p, k) \/ RemoveVerifyKey(p, k)
  BY <1>2, OperatorSteps
<1>3. CASE PassMintTime
  <2> USE KeyAssumption DEF KeyInv
  <2>1. KeyTypeOK' /\ ActiveIsKnown'
    BY <1>3 DEF PassMintTime, KeyTypeOK, ActiveIsKnown
  <2>2. mint # None => mint.exp \in Nat
    BY DEF KeyTypeOK, Claim
  <2>3. MintKept'
    BY <1>3, <2>2 DEF PassMintTime, MintKept, Safe, NotLeftBefore, KeyTypeOK
  <2>4. token # None => token.exp \in Nat
    BY DEF KeyTypeOK, Claim
  <2>5. TokenKept'
    BY <1>3, <2>4 DEF PassMintTime, TokenKept, Safe, NotLeftBefore, KeyTypeOK
  <2> QED BY <2>1, <2>3, <2>5
<1>4. CASE UNCHANGED keyVars
  BY <1>4 DEF keyVars, KeyInv, KeyTypeOK, ActiveIsKnown, MintKept, TokenKept, Safe, NotLeftBefore
<1> QED BY <1>1, <1>2, <1>3, <1>4 DEF KeyNext

(* A minted token verifies in every process until it expires (Mint,        *)
(* Rotate, RemoveVerifyKey), for any number of processes and rotations and *)
(* any TTL.                                                                *)
THEOREM TokensStayValid == KeySpec => []TokensVerify
<1>1. KeyInit => KeyInv
  BY KeyAssumption DEF KeyInit, KeyInv, KeyTypeOK, ActiveIsKnown, MintKept, TokenKept
<1>2. KeyInv => TokensVerify
  BY DEF KeyInv, TokenKept, Safe, TokensVerify, Verifies
<1> QED BY <1>1, <1>2, KeyStep, PTL DEF KeySpec

-----------------------------------------------------------------------------
(* Sweeps, one a night. *)

(* No two unfinished sweeps have one number. *)
NumbersDiffer == \A s, t \in sweeps : s.no = t.no => s = t

(* One fresh sweep; while entries may still fire, it holds the lock, which *)
(* lives on past the last of them.                                         *)
OneFresh == \A s, t \in sweeps : s.fresh /\ t.fresh => s = t
FreshHoldsLock ==
    hour <= ClockSkew => \A s \in sweeps : s.fresh => lockOf = s.no /\ lockLeft >= UniqueTTL - hour

SweepInv == SweepTypeOK /\ NumbersDiffer /\ OneFresh /\ FreshHoldsLock

(* The fields of a sweep that a server or a stopped replica changes. *)
LEMMA SweepFields ==
    ASSUME NEW s \in Sweep
    PROVE  /\ s.no \in {1, 2} /\ s.tries \in 0..MaxSweepRetry /\ s.by \in SUBSET Replicas /\ s.fresh \in BOOLEAN
           /\ \A b \in SUBSET Replicas : [s EXCEPT !.by = b] \in Sweep
           /\ s.tries # MaxSweepRetry => [s EXCEPT !.tries = s.tries + 1, !.by = {}] \in Sweep
           /\ [s EXCEPT !.fresh = FALSE] \in Sweep
<1> USE SweepAssumption DEF Sweep
<1>1. s.no \in {1, 2} /\ s.tries \in 0..MaxSweepRetry /\ s.by \in SUBSET Replicas /\ s.fresh \in BOOLEAN
  OBVIOUS
<1>2. s.tries # MaxSweepRetry => s.tries + 1 \in 0..MaxSweepRetry
  BY <1>1
<1> QED BY <1>1, <1>2

(* Sweeps that are moved one for one, keeping number and night. *)
LEMMA MovedSweeps ==
    ASSUME SweepInv, UNCHANGED <<hour, lockLeft, lockOf>>,
           \A t \in sweeps' : t \in Sweep /\ \E s \in sweeps : t.no = s.no /\ t.fresh = s.fresh,
           \A t, u \in sweeps' : t.no = u.no => t = u
    PROVE  NumbersDiffer' /\ OneFresh' /\ FreshHoldsLock'
<1> USE DEF SweepInv
<1>1. NumbersDiffer'
  BY DEF NumbersDiffer
<1>2. OneFresh'
  BY DEF OneFresh
<1>3. FreshHoldsLock'
  BY DEF FreshHoldsLock
<1> QED BY <1>1, <1>2, <1>3

(* One sweep is replaced by what a server made of it, or is gone. *)
LEMMA ReplacedSweep ==
    ASSUME SweepInv, NEW s \in sweeps, NEW t \in Sweep, t.no = s.no, t.fresh = s.fresh,
           sweeps' = (sweeps \ {s}) \cup {t} \/ sweeps' = sweeps \ {s},
           UNCHANGED <<hour, lockLeft, lockOf>>
    PROVE  NumbersDiffer' /\ OneFresh' /\ FreshHoldsLock' /\ sweeps' \in SUBSET Sweep
<1>1. sweeps \in SUBSET Sweep /\ NumbersDiffer
  BY DEF SweepInv, SweepTypeOK
<1>2. sweeps' \in SUBSET Sweep
  BY <1>1
<1>3. \A u \in sweeps' : \E v \in sweeps : u.no = v.no /\ u.fresh = v.fresh
  OBVIOUS
<1>4. \A u, v \in sweeps' : u.no = v.no => u = v
  BY <1>1 DEF NumbersDiffer
<1> QED BY <1>2, <1>3, <1>4, MovedSweeps

(* A scheduler that fires: the enqueue is refused while a fresh sweep is   *)
(* unfinished, as it holds the lock.                                       *)
LEMMA FireKeeps ==
    ASSUME SweepInv, NEW r \in Replicas, Fire(r)
    PROVE  SweepInv'
<1> USE SweepAssumption DEF SweepInv
<1>1. SweepTypeOK /\ NumbersDiffer /\ OneFresh /\ FreshHoldsLock /\ hour <= ClockSkew /\ hour' = hour
      /\ hour \in 0..(Day - 1)
  BY DEF Fire, SweepTypeOK
<1>2. CASE Refused
  <2>1. SweepTypeOK'
    BY <1>1, <1>2 DEF Fire, Refused, SweepTypeOK
  <2>2. NumbersDiffer' /\ OneFresh' /\ FreshHoldsLock'
    BY <1>1, <1>2 DEF Refused, NumbersDiffer, OneFresh, FreshHoldsLock
  <2> QED BY <2>1, <2>2
<1>3. CASE lockLeft = 0 /\ Enqueue
  <2>1. PICK n \in FreeNo : sweeps' = sweeps \cup {[no |-> n, tries |-> 0, by |-> Queued, fresh |-> TRUE]}
                            /\ lockLeft' = UniqueTTL /\ lockOf' = n
    BY <1>3 DEF Enqueue
  <2> DEFINE new == [no |-> n, tries |-> 0, by |-> Queued, fresh |-> TRUE]
  <2>2. n \in {1, 2} /\ \A s \in sweeps : s.no # n
    BY DEF FreeNo
  <2>3. new \in Sweep /\ new.no = n /\ new.fresh
    BY <2>2 DEF Sweep, Queued
  <2>4. \A s \in sweeps : ~s.fresh
    BY <1>1, <1>3 DEF FreshHoldsLock
  <2>5. sweeps' = sweeps \cup {new}
    BY <2>1
  <2> HIDE DEF new
  <2>6. SweepTypeOK'
    BY <1>1, <2>1, <2>2, <2>3, <2>5 DEF Fire, SweepTypeOK
  <2>7. NumbersDiffer' /\ OneFresh'
    BY <1>1, <2>2, <2>3, <2>4, <2>5 DEF NumbersDiffer, OneFresh
  <2>8. FreshHoldsLock'
    BY <1>1, <2>1, <2>3, <2>4, <2>5 DEF FreshHoldsLock
  <2> QED BY <2>6, <2>7, <2>8
<1> QED BY <1>2, <1>3 DEF Fire, NewSweepExpired

(* A server's step: only the sweep that ends frees the lock, if it is its  *)
(* own.                                                                    *)
LEMMA ServerKeeps ==
    ASSUME SweepInv, NEW s \in sweeps,
           HandleSweepExpired(s) \/ HandleSweepFails(s) \/ \E r \in Replicas : Take(r, s)
    PROVE  SweepInv'
<1> USE SweepAssumption DEF SweepInv
<1>0. s \in Sweep /\ SweepTypeOK /\ NumbersDiffer /\ OneFresh /\ FreshHoldsLock
  BY DEF SweepTypeOK
<1>1. CASE \E r \in Replicas : Take(r, s)
  <2>1. PICK r \in Replicas : Take(r, s)
    BY <1>1
  <2> DEFINE t == [s EXCEPT !.by = {r}]
  <2>2. t \in Sweep /\ t.no = s.no /\ t.fresh = s.fresh
    BY <1>0, SweepFields DEF Sweep
  <2>3. sweeps' = (sweeps \ {s}) \cup {t} /\ UNCHANGED <<hour, running, fired, lockLeft, lockOf, expiry, outages, errors>>
    BY <2>1 DEF Take
  <2> HIDE DEF t
  <2>4. NumbersDiffer' /\ OneFresh' /\ FreshHoldsLock' /\ sweeps' \in SUBSET Sweep
    BY <2>2, <2>3, ReplacedSweep
  <2> QED BY <1>0, <2>3, <2>4 DEF SweepTypeOK
<1>2. CASE HandleSweepFails(s)
  <2> DEFINE t == IF s.tries = MaxSweepRetry THEN s ELSE [s EXCEPT !.tries = @ + 1, !.by = Queued]
  <2>1. t \in Sweep /\ t.no = s.no /\ t.fresh = s.fresh
    BY <1>0, SweepFields DEF Sweep, Queued
  <2>2. sweeps' = (sweeps \ {s}) \cup {t} \/ sweeps' = sweeps \ {s}
    BY <1>2 DEF HandleSweepFails
  <2>3. UNCHANGED <<hour, running, fired, lockLeft, lockOf, expiry, outages>> /\ errors' = errors + 1 /\ errors < MaxErrors
    BY <1>2 DEF HandleSweepFails
  <2> HIDE DEF t
  <2>4. NumbersDiffer' /\ OneFresh' /\ FreshHoldsLock' /\ sweeps' \in SUBSET Sweep
    BY <2>1, <2>2, <2>3, ReplacedSweep
  <2> QED BY <1>0, <2>3, <2>4 DEF SweepTypeOK
<1>3. CASE HandleSweepExpired(s)
  <2>1. sweeps' = sweeps \ {s} /\ UNCHANGED <<hour, running, fired, outages, errors>> /\ Unlock(s) /\ DeleteExpiredLinks
    BY <1>3 DEF HandleSweepExpired
  <2>2. SweepTypeOK'
    <3>1. lockLeft' \in 0..UniqueTTL /\ lockOf' \in 0..2
      BY <1>0, <2>1 DEF Unlock, SweepTypeOK
    <3>2. expiry' \in [Links -> {"live", "expired", "gone"}]
      BY <1>0, <2>1 DEF DeleteExpiredLinks, SweepTypeOK
    <3> QED BY <1>0, <2>1, <3>1, <3>2 DEF SweepTypeOK
  <2>3. NumbersDiffer' /\ OneFresh'
    BY <1>0, <2>1 DEF NumbersDiffer, OneFresh
  <2>4. FreshHoldsLock'
    BY <1>0, <2>1 DEF FreshHoldsLock, NumbersDiffer, Unlock
  <2> QED BY <2>2, <2>3, <2>4
<1> QED BY <1>1, <1>2, <1>3

(* A replica that stops takes its name off the sweeps it was running. *)
LEMMA StopKeeps ==
    ASSUME SweepInv, NEW r \in Replicas, StopReplica(r)
    PROVE  SweepInv'
<1> USE SweepAssumption DEF SweepInv
<1>0. SweepTypeOK /\ NumbersDiffer /\ sweeps \in SUBSET Sweep
  BY DEF SweepTypeOK
<1>1. sweeps' = {[s EXCEPT !.by = @ \ {r}] : s \in sweeps}
      /\ UNCHANGED <<hour, fired, lockLeft, lockOf, expiry, errors>>
      /\ running' = running \ {r} /\ outages' = outages + 1 /\ outages < MaxOutages
  BY DEF StopReplica
<1>2. \A s \in sweeps : /\ [s EXCEPT !.by = @ \ {r}] \in Sweep
                        /\ [s EXCEPT !.by = @ \ {r}].no = s.no
                        /\ [s EXCEPT !.by = @ \ {r}].fresh = s.fresh
  BY <1>0, SweepFields DEF Sweep
<1>3. \A t \in sweeps' : t \in Sweep /\ \E s \in sweeps : t.no = s.no /\ t.fresh = s.fresh
  BY <1>1, <1>2
<1>4. \A t, u \in sweeps' : t.no = u.no => t = u
  <2> TAKE t, u \in sweeps'
  <2>1. PICK s \in sweeps : t = [s EXCEPT !.by = @ \ {r}]
    BY <1>1
  <2>2. PICK v \in sweeps : u = [v EXCEPT !.by = @ \ {r}]
    BY <1>1
  <2>3. t.no = s.no /\ u.no = v.no
    BY <1>2, <2>1, <2>2
  <2> QED BY <1>0, <2>1, <2>2, <2>3 DEF NumbersDiffer
<1>5. NumbersDiffer' /\ OneFresh' /\ FreshHoldsLock'
  BY <1>1, <1>3, <1>4, MovedSweeps
<1>6. SweepTypeOK'
  BY <1>0, <1>1, <1>3 DEF SweepTypeOK
<1> QED BY <1>5, <1>6

(* Time: until the last entry has fired the lock has not run out; with the *)
(* new day, nothing is fresh.                                              *)
LEMMA HourKeeps ==
    ASSUME SweepInv, PassHour
    PROVE  SweepInv'
<1> USE SweepAssumption DEF SweepInv
<1>0. SweepTypeOK /\ NumbersDiffer /\ OneFresh /\ FreshHoldsLock /\ sweeps \in SUBSET Sweep /\ hour \in 0..(Day - 1)
      /\ lockLeft \in 0..UniqueTTL
  BY DEF SweepTypeOK
<1>1. UNCHANGED <<running, expiry, outages, errors>> /\ fired' \in {{}, fired}
      /\ LockAges /\ hour' = (hour + 1) % Day
  BY DEF PassHour
<1>2. lockLeft' \in 0..UniqueTTL /\ lockOf' \in 0..2
  BY <1>0, <1>1 DEF LockAges, SweepTypeOK
<1>3. CASE hour < Day - 1
  <2>1. hour' = hour + 1 /\ hour' \in 0..(Day - 1)
    BY <1>0, <1>1, <1>3
  <2>2. sweeps' = sweeps
    BY <1>3 DEF PassHour
  <2>3. SweepTypeOK'
    BY <1>0, <1>1, <1>2, <2>1, <2>2 DEF SweepTypeOK
  <2>4. FreshHoldsLock'
    <3> SUFFICES ASSUME hour' <= ClockSkew, NEW s \in sweeps, s.fresh
                 PROVE  lockOf' = s.no /\ lockLeft' >= UniqueTTL - hour'
      BY <2>2 DEF FreshHoldsLock
    <3>1. lockOf = s.no /\ lockLeft >= UniqueTTL - hour
      BY <1>0, <2>1 DEF FreshHoldsLock
    <3>2. lockLeft > 1
      BY <1>0, <2>1, <3>1
    <3> QED BY <1>0, <1>1, <2>1, <3>1, <3>2 DEF LockAges
  <2> QED BY <1>0, <2>2, <2>3, <2>4 DEF NumbersDiffer, OneFresh
<1>4. CASE hour = Day - 1
  <2>1. hour' \in 0..(Day - 1)
    BY <1>0, <1>1, <1>4
  <2>2. sweeps' = {[s EXCEPT !.fresh = FALSE] : s \in sweeps}
    BY <1>0, <1>4 DEF PassHour
  <2>3. \A s \in sweeps : /\ [s EXCEPT !.fresh = FALSE] \in Sweep
                          /\ [s EXCEPT !.fresh = FALSE].no = s.no
                          /\ ~[s EXCEPT !.fresh = FALSE].fresh
    BY <1>0, SweepFields DEF Sweep
  <2>4. \A t \in sweeps' : ~t.fresh
    BY <2>2, <2>3
  <2>5. NumbersDiffer'
    <3> SUFFICES ASSUME NEW t \in sweeps', NEW u \in sweeps', t.no = u.no PROVE t = u
      BY DEF NumbersDiffer
    <3>1. PICK s \in sweeps : t = [s EXCEPT !.fresh = FALSE]
      BY <2>2
    <3>2. PICK v \in sweeps : u = [v EXCEPT !.fresh = FALSE]
      BY <2>2
    <3>3. t.no = s.no /\ u.no = v.no
      BY <2>3, <3>1, <3>2
    <3> QED BY <1>0, <3>1, <3>2, <3>3 DEF NumbersDiffer
  <2>6. OneFresh' /\ FreshHoldsLock'
    BY <2>4 DEF OneFresh, FreshHoldsLock
  <2>7. SweepTypeOK'
    BY <1>0, <1>1, <1>2, <2>1, <2>2, <2>3 DEF SweepTypeOK
  <2> QED BY <2>5, <2>6, <2>7
<1> QED BY <1>0, <1>3, <1>4

(* Every step keeps it. *)
LEMMA SweepStep == SweepInv /\ [SweepNext]_sweepVars => SweepInv'
<1> SUFFICES ASSUME SweepInv, [SweepNext]_sweepVars PROVE SweepInv'
  OBVIOUS
<1> USE SweepAssumption
<1>1. CASE WorkerStep \/ \E s \in sweeps : HandleSweepFails(s)
  BY <1>1, ServerKeeps DEF WorkerStep
<1>2. CASE PassHour
  BY <1>2, HourKeeps
<1>3. CASE \E r \in Replicas : Fire(r) \/ StopReplica(r)
  BY <1>3, FireKeeps, StopKeeps
<1>4. CASE \E r \in Replicas : StartReplica(r)
  BY <1>4 DEF StartReplica, SweepInv, SweepTypeOK, NumbersDiffer, OneFresh, FreshHoldsLock
<1>5. CASE \E l \in Links : Expire(l)
  BY <1>5 DEF Expire, SweepInv, SweepTypeOK, NumbersDiffer, OneFresh, FreshHoldsLock
<1>6. CASE UNCHANGED sweepVars
  BY <1>6 DEF sweepVars, SweepInv, SweepTypeOK, NumbersDiffer, OneFresh, FreshHoldsLock
<1> QED BY <1>1, <1>2, <1>3, <1>4, <1>5, <1>6 DEF SweepNext

(* The sweep schedule is well typed: the lock never outlives its TTL, and  *)
(* a sweep has retries left as long as it is tried.                        *)
THEOREM SweepTyped == SweepSpec => []SweepTypeOK
<1>1. SweepInit => SweepInv
  BY SweepAssumption DEF SweepInit, SweepInv, SweepTypeOK, NumbersDiffer, OneFresh, FreshHoldsLock
<1>2. SweepInv => SweepTypeOK
  BY DEF SweepInv
<1> QED BY <1>1, <1>2, SweepStep, PTL DEF SweepSpec

(* SweepEnqueuer: one firing of the schedule sweeps once, for any number   *)
(* of replicas, as long as the lock outlives the replicas' clock skew.     *)
THEOREM SweepsStaySingle == SweepSpec => []OneSweepPerNight
<1>1. SweepInit => SweepInv
  BY SweepAssumption DEF SweepInit, SweepInv, SweepTypeOK, NumbersDiffer, OneFresh, FreshHoldsLock
<1>2. SweepInv => OneSweepPerNight
  <2> SUFFICES ASSUME SweepInv PROVE Cardinality({s \in sweeps : s.fresh}) <= 1
    BY DEF OneSweepPerNight
  <2> DEFINE F == {s \in sweeps : s.fresh}
  <2>1. F = {} \/ \E s \in F : F = {s}
    BY DEF SweepInv, OneFresh
  <2> HIDE DEF F
  <2>2. Cardinality(F) <= 1
    BY <2>1, FS_EmptySet, FS_Singleton
  <2> QED BY <2>2 DEF F
<1> QED BY <1>1, <1>2, SweepStep, PTL DEF SweepSpec

-----------------------------------------------------------------------------
(* Starting and stopping. *)

Things == {"signals", "pool", "redis", "sweeper", "enqueuer", "scheduler", "server"}
Order  == OpenOrder(program)

RunTypeOK ==
    /\ program \in Programs
    /\ runStage \in {"starting", "serving", "draining", "returning", "ended"}
    /\ open \in Seq(Things)
    /\ listener \in {"no", "yes", "failed"} /\ poolClosing \in BOOLEAN /\ timedOut \in BOOLEAN
    /\ sweeper \in {"none", "idle", "due", "sweeping", "ended"}
    /\ call \in [Calls -> {"none", "running", "querying", "answering", "done"}]

(* What is open was opened in order and is closed in the reverse order;    *)
(* run serves once everything is open.                                     *)
OpenIsPrefix ==
    /\ Len(open) <= Len(Order) /\ \A i \in 1..Len(open) : open[i] = Order[i]
    /\ runStage = "starting" => Len(open) < Len(Order)
    /\ runStage \in {"serving", "draining"} => Len(open) = Len(Order)

(* The sweeper runs only while it is open, and so with an open pool. *)
SweeperIsOpen == sweeper \notin {"none", "ended"} => program = "bookmarks" /\ Len(open) >= 4
PoolLater     == poolClosing => runStage \in {"returning", "ended"} /\ Len(open) <= 2

(* Calls begin when run serves; what is busy later has had its time. *)
NoneYet  == runStage = "starting" => listener = "no" /\ cut = {} /\ \A c \in Calls : call[c] = "none"
BusyLate == runStage \in {"returning", "ended"} /\ Busy # {} => timedOut \/ listener = "failed"

RunInv == RunTypeOK /\ OpenIsPrefix /\ SweeperIsOpen /\ PoolLater /\ NoneYet /\ BusyLate /\ NoCallCut

-----------------------------------------------------------------------------
(* What run opens: signals first, then the pool, and the server last. *)
LEMMA Orders ==
    ASSUME NEW p \in Programs
    PROVE  /\ OpenOrder(p) \in Seq(Things) /\ Len(OpenOrder(p)) \in {4, 5}
           /\ OpenOrder(p)[1] = "signals" /\ OpenOrder(p)[2] = "pool"
           /\ \A i \in 1..Len(OpenOrder(p)) :
                  /\ OpenOrder(p)[i] \in Things
                  /\ OpenOrder(p)[i] = "sweeper" <=> p = "bookmarks" /\ i = 4
                  /\ OpenOrder(p)[i] = "pool" <=> i = 2
                  /\ OpenOrder(p)[i] = "signals" <=> i = 1
                  /\ OpenOrder(p)[i] = "server" <=> i = Len(OpenOrder(p))
<1>1. p = "bookmarks" \/ p = "shortener" \/ p = "worker"
  BY RunAssumption
<1>2. CASE p = "bookmarks"
  BY <1>2 DEF OpenOrder, Things
<1>3. CASE p = "shortener"
  BY <1>3 DEF OpenOrder, Things
<1>4. CASE p = "worker"
  BY <1>4 DEF OpenOrder, Things
<1> QED BY <1>1, <1>2, <1>3, <1>4

(* Closing what was opened last. *)
LEMMA FrontFacts ==
    ASSUME NEW s \in Seq(Things), s # <<>>
    PROVE  /\ Front(s) \in Seq(Things) /\ Len(Front(s)) = Len(s) - 1
           /\ \A i \in 1..(Len(s) - 1) : Front(s)[i] = s[i]
           /\ Len(s) \in Nat \ {0} /\ Last(s) = s[Len(s)]
<1>1. Len(s) \in Nat \ {0}
  BY EmptySeq
<1>2. \A i \in 1..(Len(s) - 1) : s[i] \in Things
  BY <1>1, ElementOfSeq
<1>3. /\ SubSeq(s, 1, Len(s) - 1) \in Seq(Things)
      /\ Len(SubSeq(s, 1, Len(s) - 1)) = IF 1 <= Len(s) - 1 THEN Len(s) - 1 - 1 + 1 ELSE 0
      /\ \A i \in 1..(Len(s) - 1 - 1 + 1) : SubSeq(s, 1, Len(s) - 1)[i] = s[1 + i - 1]
  BY <1>1, <1>2, SubSeqProperties
<1>4. \A i \in 1..(Len(s) - 1) : i \in 1..(Len(s) - 1 - 1 + 1) /\ 1 + i - 1 = i
  BY <1>1
<1>5. Len(SubSeq(s, 1, Len(s) - 1)) = Len(s) - 1
  <2> DEFINE n == Len(s) m == Len(SubSeq(s, 1, Len(s) - 1))
  <2>1. n \in Nat \ {0} /\ m = IF 1 <= n - 1 THEN n - 1 - 1 + 1 ELSE 0
    BY <1>1, <1>3
  <2> HIDE DEF n, m
  <2>2. m = n - 1
    BY <2>1
  <2> QED BY <2>2 DEF n, m
<1> QED BY <1>1, <1>3, <1>4, <1>5 DEF Front, Last

(* A step that closes one thing keeps the order, if it is not one that is  *)
(* used.                                                                   *)
LEMMA Closing ==
    ASSUME RunInv, open # <<>>, open' = Front(open), runStage' = "returning", UNCHANGED <<program, poolClosing, sweeper>>,
           Last(open) = "sweeper" => sweeper = "ended", poolClosing => runStage = "returning"
    PROVE  open' \in Seq(Things) /\ OpenIsPrefix' /\ SweeperIsOpen' /\ PoolLater' /\ NoneYet'
<1> USE DEF RunInv
<1>1. /\ open' \in Seq(Things) /\ Len(open') = Len(open) - 1 /\ Len(open) \in Nat \ {0}
      /\ Last(open) = open[Len(open)] /\ \A i \in 1..Len(open') : open'[i] = open[i]
  BY FrontFacts DEF RunTypeOK
<1>2. /\ Len(Order) \in {4, 5}
      /\ \A i \in 1..Len(Order) : Order[i] = "sweeper" <=> program = "bookmarks" /\ i = 4
  BY Orders DEF RunTypeOK, Order
<1>3. Order' = Order
  BY DEF Order
<1>4. OpenIsPrefix'
  BY <1>1, <1>2, <1>3 DEF OpenIsPrefix
<1>5. SweeperIsOpen'
  BY <1>1, <1>2 DEF SweeperIsOpen, OpenIsPrefix
<1>6. PoolLater' /\ NoneYet'
  BY <1>1 DEF PoolLater, NoneYet
<1> QED BY <1>1, <1>4, <1>5, <1>6

(* While run serves, everything is open. *)
LEMMA AllServed ==
    ASSUME RunInv, runStage \in {"serving", "draining"}
    PROVE  \A x \in Range(OpenOrder(program)) : IsOpen(x)
<1>1. /\ program \in Programs /\ Len(open) = Len(Order) /\ \A i \in 1..Len(open) : open[i] = Order[i]
      /\ Order \in Seq(Things)
  BY Orders DEF RunInv, RunTypeOK, OpenIsPrefix, Order
<1>2. DOMAIN Order = 1..Len(Order)
  BY <1>1, LenProperties
<1> QED BY <1>1, <1>2 DEF IsOpen, Contains, Range, Order

(* While run serves, the signals are caught. *)
LEMMA ServedSignals ==
    ASSUME RunInv, runStage \in {"serving", "draining"}
    PROVE  IsOpen("signals")
<1>1. program \in Programs
  BY DEF RunInv, RunTypeOK
<1>2. OpenOrder(program)[1] = "signals" /\ 1 \in DOMAIN OpenOrder(program)
  BY <1>1, Orders, LenProperties
<1> QED BY <1>2, AllServed DEF Range

(* And the server is what was opened last. *)
LEMMA Served ==
    ASSUME RunInv, runStage \in {"serving", "draining"}
    PROVE  open # <<>> /\ Last(open) = "server"
<1>1. /\ program \in Programs /\ Len(open) = Len(Order) /\ \A i \in 1..Len(open) : open[i] = Order[i]
  BY DEF RunInv, RunTypeOK, OpenIsPrefix
<1>2. Len(Order) \in {4, 5}
  BY <1>1, Orders DEF Order
<1>4. Len(Order) \in 1..Len(Order)
  BY <1>2
<1>3. Order[Len(Order)] = "server"
  BY <1>1, <1>4, Orders DEF Order
<1> QED BY <1>1, <1>2, <1>3, EmptySeq DEF Last

-----------------------------------------------------------------------------
(* run. *)

(* The next thing is opened, or fails to open. *)
LEMMA OpenKeeps == ASSUME RunInv, OpenNext PROVE RunInv'
<1> USE DEF RunInv
<1> DEFINE x == Order[Len(open) + 1]
<1>1. /\ program \in Programs /\ runStage = "starting" /\ open \in Seq(Things) /\ Len(open) \in Nat
      /\ Len(open) < Len(Order) /\ open' = Append(open, x)
      /\ UNCHANGED <<program, signals, cancelled, poolClosing, call, timedOut, cut>>
  BY LenProperties DEF OpenNext, RunTypeOK, OpenIsPrefix, Order
<1>2. /\ Len(Order) \in {4, 5}
      /\ x \in Things
      /\ x = "sweeper" <=> program = "bookmarks" /\ Len(open) + 1 = 4
      /\ x = "server" <=> Len(open) + 1 = Len(Order)
  BY <1>1, Orders DEF Order
<1>3. /\ open' \in Seq(Things) /\ Len(open') = Len(open) + 1
      /\ \A i \in 1..Len(open) : open'[i] = open[i]
      /\ open'[Len(open) + 1] = x
  BY <1>1, <1>2, AppendProperties
<1>4. /\ sweeper' = (IF x = "sweeper" THEN "idle" ELSE sweeper)
      /\ listener' = (IF x = "server" THEN "yes" ELSE listener)
      /\ runStage' = (IF x = "server" THEN "serving" ELSE "starting")
  BY DEF OpenNext, Order
<1>5. Order' = Order
  BY <1>1 DEF Order
<1> HIDE DEF x
<1>6. RunTypeOK'
  BY <1>1, <1>3, <1>4 DEF RunTypeOK
<1>7. OpenIsPrefix'
  <2>1. \A i \in 1..Len(open') : open'[i] = Order'[i]
    BY <1>1, <1>3, <1>5 DEF OpenIsPrefix, x
  <2> QED BY <2>1, <1>1, <1>2, <1>3, <1>4, <1>5
      DEF OpenIsPrefix
<1>8. SweeperIsOpen' /\ PoolLater'
  BY <1>1, <1>2, <1>3, <1>4 DEF SweeperIsOpen, PoolLater
<1>9. NoneYet' /\ BusyLate' /\ NoCallCut'
  <2>1. ~poolClosing /\ Busy = {}
    BY <1>1 DEF PoolLater, NoneYet, Busy
  <2>2. cut' = {} /\ runStage' \in {"starting", "serving"}
    BY <1>1, <1>4 DEF NoneYet
  <2>3. NoneYet'
    BY <1>1, <1>4 DEF NoneYet
  <2> QED BY <2>2, <2>3 DEF BusyLate, NoCallCut
<1> QED BY <1>6, <1>7, <1>8, <1>9

(* The other ways on from starting and serving. *)
LEMMA StageKeeps ==
    ASSUME RunInv, StartFails \/ ListenFails \/ HearFailure \/ HearSignal
    PROVE  RunInv'
<1> USE DEF RunInv
<1>1. CASE StartFails
  <2>1. Busy = {} /\ cut = {}
    BY <1>1 DEF StartFails, NoneYet, Busy
  <2>2. UNCHANGED <<program, open, listener, poolClosing, sweeper, call, timedOut, cut>> /\ runStage' = "returning"
        /\ runStage = "starting" /\ Order' = Order /\ Busy' = Busy
    BY <1>1 DEF StartFails, Order, Busy
  <2>3. RunTypeOK' /\ SweeperIsOpen'
    BY <2>2 DEF RunTypeOK, SweeperIsOpen
  <2>4. OpenIsPrefix'
    BY <2>2 DEF OpenIsPrefix
  <2> QED BY <2>1, <2>2, <2>3, <2>4 DEF PoolLater, NoneYet, BusyLate, NoCallCut
<1>2. CASE ListenFails
  <2>1. UNCHANGED <<program, runStage, open, poolClosing, sweeper, call, timedOut, cut>> /\ listener' = "failed"
        /\ runStage = "serving" /\ Order' = Order
    BY <1>2 DEF ListenFails, Order
  <2>2. RunTypeOK' /\ SweeperIsOpen' /\ PoolLater' /\ NoneYet'
    BY <2>1 DEF RunTypeOK, SweeperIsOpen, PoolLater, NoneYet
  <2> QED BY <2>1, <2>2 DEF OpenIsPrefix, BusyLate, NoCallCut
<1>3. CASE HearSignal
  <2>1. UNCHANGED <<program, open, poolClosing, sweeper, call, timedOut, cut>> /\ runStage = "serving"
        /\ runStage' = "draining" /\ listener' \in {"no", listener} /\ (listener = "failed" => listener' = "failed")
        /\ Order' = Order
    BY <1>3 DEF HearSignal, Order
  <2>2. RunTypeOK' /\ SweeperIsOpen' /\ PoolLater' /\ NoneYet'
    BY <2>1 DEF RunTypeOK, SweeperIsOpen, PoolLater, NoneYet
  <2> QED BY <2>1, <2>2 DEF OpenIsPrefix, BusyLate, NoCallCut
<1>4. CASE HearFailure
  <2>1. UNCHANGED <<program, listener, poolClosing, sweeper, call, timedOut, cut>> /\ runStage = "serving"
        /\ runStage' = "returning" /\ listener = "failed" /\ open' = Front(open)
    BY <1>4 DEF HearFailure
  <2>2. open # <<>> /\ Last(open) = "server"
    BY <2>1, Served
  <2>3. open' \in Seq(Things) /\ OpenIsPrefix' /\ SweeperIsOpen' /\ PoolLater' /\ NoneYet'
    BY <2>1, <2>2, Closing DEF PoolLater
  <2>4. RunTypeOK'
    BY <2>1, <2>3 DEF RunTypeOK
  <2> QED BY <2>1, <2>3, <2>4 DEF BusyLate, NoCallCut
<1> QED BY <1>1, <1>2, <1>3, <1>4

(* The end of the drain, and the deferred calls. *)
LEMMA ReturnKeeps ==
    ASSUME RunInv, ShutdownReturns \/ ShutdownGivesUp \/ ClosePool \/ CloseLast \/ MainReturns
    PROVE  RunInv'
<1> USE DEF RunInv
<1>1. CASE ShutdownReturns \/ ShutdownGivesUp
  <2>1. UNCHANGED <<program, listener, poolClosing, sweeper, call, cut>> /\ runStage = "draining"
        /\ runStage' = "returning" /\ open' = Front(open) /\ timedOut' \in BOOLEAN
        /\ (timedOut => timedOut') /\ (timedOut' \/ Busy = {}) /\ Busy' = Busy
    BY <1>1 DEF ShutdownReturns, ShutdownGivesUp, ServerStopped, Drained, Busy, RunTypeOK
  <2>2. open # <<>> /\ Last(open) = "server"
    BY <2>1, Served
  <2>3. open' \in Seq(Things) /\ OpenIsPrefix' /\ SweeperIsOpen' /\ PoolLater' /\ NoneYet'
    BY <2>1, <2>2, Closing DEF PoolLater
  <2>4. RunTypeOK'
    BY <2>1, <2>3 DEF RunTypeOK
  <2> QED BY <2>1, <2>3, <2>4 DEF BusyLate, NoCallCut
<1>2. CASE ClosePool
  <2>1. UNCHANGED <<program, runStage, open, listener, sweeper, call, timedOut, cut>> /\ poolClosing' = TRUE
        /\ runStage = "returning" /\ open # <<>> /\ Last(open) = "pool" /\ Order' = Order /\ Busy' = Busy
    BY <1>2 DEF ClosePool, Order, Busy
  <2>2. Len(open) = 2
    <3>1. Len(open) \in Nat \ {0} /\ open[Len(open)] = "pool"
      BY <2>1, FrontFacts DEF RunTypeOK
    <3>2. Order[Len(open)] = "pool" /\ Len(open) \in 1..Len(Order)
      BY <3>1, Orders DEF OpenIsPrefix, Order, RunTypeOK
    <3> QED BY <3>2, Orders DEF Order, RunTypeOK
  <2>3. RunTypeOK' /\ SweeperIsOpen' /\ PoolLater'
    BY <2>1, <2>2 DEF RunTypeOK, SweeperIsOpen, PoolLater
  <2> QED BY <2>1, <2>3 DEF OpenIsPrefix, NoneYet, BusyLate, NoCallCut
<1>3. CASE CloseLast
  <2>1. UNCHANGED <<program, runStage, listener, poolClosing, sweeper, call, timedOut, cut>>
        /\ runStage = "returning" /\ open # <<>> /\ open' = Front(open) /\ Closed(Last(open)) /\ Busy' = Busy
    BY <1>3 DEF CloseLast, Busy
  <2>2. Last(open) = "sweeper" => sweeper = "ended"
    BY <2>1 DEF Closed
  <2>3. open' \in Seq(Things) /\ OpenIsPrefix' /\ SweeperIsOpen' /\ PoolLater' /\ NoneYet'
    BY <2>1, <2>2, Closing
  <2>4. RunTypeOK'
    BY <2>1, <2>3 DEF RunTypeOK
  <2> QED BY <2>1, <2>3, <2>4 DEF BusyLate, NoCallCut
<1>4. CASE MainReturns
  <2>1. UNCHANGED <<program, open, listener, poolClosing, sweeper, call, timedOut>> /\ runStage = "returning"
        /\ runStage' = "ended" /\ cut' = cut \cup Busy /\ Order' = Order /\ Busy' = Busy
    BY <1>4 DEF MainReturns, ProcessEnds, Order, Busy
  <2>2. RunTypeOK' /\ SweeperIsOpen' /\ PoolLater' /\ NoneYet'
    BY <2>1 DEF RunTypeOK, SweeperIsOpen, PoolLater, NoneYet
  <2>3. OpenIsPrefix'
    BY <2>1 DEF OpenIsPrefix
  <2>4. BusyLate' /\ NoCallCut'
    BY <2>1 DEF BusyLate, NoCallCut
  <2> QED BY <2>2, <2>3, <2>4
<1> QED BY <1>1, <1>2, <1>3, <1>4

(* A signal without a handler ends a process that serves nobody. *)
LEMMA SignalKeeps == ASSUME RunInv, Signal PROVE RunInv'
<1> USE DEF RunInv
<1>0. UNCHANGED <<program, open, listener, poolClosing, sweeper, call, timedOut>> /\ Order' = Order /\ Busy' = Busy
  BY DEF Signal, Order, Busy
<1>1. CASE UNCHANGED <<runStage, cut>>
  <2>1. RunTypeOK' /\ SweeperIsOpen' /\ PoolLater' /\ NoneYet'
    BY <1>0, <1>1 DEF RunTypeOK, SweeperIsOpen, PoolLater, NoneYet
  <2> QED BY <1>0, <1>1, <2>1 DEF OpenIsPrefix, BusyLate, NoCallCut
<1>2. CASE ~IsOpen("signals") /\ ProcessEnds
  <2>1. runStage' = "ended" /\ cut' = cut \cup Busy /\ runStage # "ended"
    BY <1>2 DEF Signal, ProcessEnds
  <2>2. runStage \in {"starting", "returning"}
    BY <1>2, <2>1, ServedSignals DEF RunTypeOK
  <2>3. RunTypeOK' /\ SweeperIsOpen' /\ NoneYet'
    BY <1>0, <2>1 DEF RunTypeOK, SweeperIsOpen, NoneYet
  <2>4. OpenIsPrefix'
    BY <1>0, <2>1 DEF OpenIsPrefix
  <2>5. PoolLater'
    BY <1>0, <2>1 DEF PoolLater
  <2>6. runStage = "starting" => Busy = {} /\ cut = {}
    BY DEF NoneYet, Busy
  <2>7. BusyLate' /\ NoCallCut'
    BY <1>0, <2>1, <2>2, <2>6 DEF BusyLate, NoCallCut
  <2> QED BY <2>3, <2>4, <2>5, <2>7
<1> QED BY <1>1, <1>2 DEF Signal

-----------------------------------------------------------------------------
(* What uses the things that are open. *)

(* A call: accepted, in the database, answered. *)
LEMMA CallKeeps ==
    ASSUME RunInv, NEW c \in Calls, Accept(c) \/ AskDatabase(c) \/ DatabaseAnswers(c) \/ Answer(c)
    PROVE  RunInv'
<1> USE DEF RunInv
<1>0. /\ UNCHANGED <<program, runStage, open, listener, poolClosing, sweeper, timedOut>>
      /\ Order' = Order /\ runStage # "ended"
      /\ \E s \in {"running", "querying", "answering", "done"} : call' = [call EXCEPT ![c] = s]
  BY DEF Accept, AskDatabase, DatabaseAnswers, Answer, CallGoes, Order
<1>1. RunTypeOK'
  BY <1>0 DEF RunTypeOK
<1>2. OpenIsPrefix' /\ SweeperIsOpen' /\ PoolLater'
  BY <1>0 DEF OpenIsPrefix, SweeperIsOpen, PoolLater
<1>3. runStage # "starting"
  BY DEF Accept, AskDatabase, DatabaseAnswers, Answer, NoneYet
<1>4. Accept(c) \/ (c \in Busy /\ Busy' \subseteq Busy)
  BY <1>0 DEF AskDatabase, DatabaseAnswers, Answer, Busy, RunTypeOK
<1>5. Accept(c) => runStage = "serving"
  BY DEF Accept
<1>6. BusyLate'
  BY <1>0, <1>4, <1>5 DEF BusyLate
<1>7. cut' # cut => runStage = "returning" /\ c \in Busy
  <2>1. CASE AskDatabase(c)
    <3>1. cut' # cut => poolClosing
      BY <2>1 DEF AskDatabase
    <3> QED BY <1>0, <1>4, <1>5, <2>1, <3>1 DEF PoolLater, AskDatabase, Busy, Accept
  <2>2. CASE Answer(c)
    <3>1. cut' # cut => \E x \in Clients : ~IsOpen(x)
      BY <2>2 DEF Answer
    <3>2. runStage \in {"serving", "draining"} => \A x \in Clients : IsOpen(x)
      BY AllServed DEF Clients
    <3> QED BY <1>0, <1>3, <2>2, <3>1, <3>2 DEF Answer, Busy, RunTypeOK
  <2>3. CASE Accept(c) \/ DatabaseAnswers(c)
    BY <2>3 DEF Accept, DatabaseAnswers
  <2> QED BY <2>1, <2>2, <2>3
<1>8. NoCallCut'
  BY <1>0, <1>7 DEF NoCallCut, BusyLate
<1>9. NoneYet'
  BY <1>0, <1>3 DEF NoneYet
<1> QED BY <1>1, <1>2, <1>6, <1>8, <1>9

(* The sweeper's loop. *)
LEMMA SweeperKeeps ==
    ASSUME RunInv, TickComes \/ StartSweep \/ SweepReturns \/ SweeperEnds
    PROVE  RunInv'
<1> USE DEF RunInv
<1>1. /\ UNCHANGED <<program, runStage, open, listener, poolClosing, call, timedOut, cut>>
      /\ sweeper \notin {"none", "ended"} /\ sweeper' \in {"idle", "due", "sweeping", "ended"}
      /\ Order' = Order /\ Busy' = Busy
  BY DEF TickComes, StartSweep, SweepReturns, SweeperEnds, SweeperGoes, Order, Busy
<1>2. RunTypeOK' /\ SweeperIsOpen'
  BY <1>1 DEF RunTypeOK, SweeperIsOpen
<1>3. OpenIsPrefix' /\ PoolLater' /\ NoneYet' /\ BusyLate' /\ NoCallCut'
  BY <1>1 DEF OpenIsPrefix, PoolLater, NoneYet, BusyLate, NoCallCut
<1> QED BY <1>2, <1>3

(* Every step keeps it. *)
LEMMA RunKeeps == RunInv /\ [RunNext]_runVars => RunInv'
<1> SUFFICES ASSUME RunInv, [RunNext]_runVars PROVE RunInv'
  OBVIOUS
<1>1. CASE UNCHANGED runVars
  <2>1. UNCHANGED <<program, runStage, open, listener, poolClosing, sweeper, call, timedOut, cut>>
        /\ Order' = Order /\ Busy' = Busy
    BY <1>1 DEF runVars, Order, Busy
  <2> QED BY <2>1 DEF RunInv, RunTypeOK, OpenIsPrefix, SweeperIsOpen, PoolLater, NoneYet, BusyLate, NoCallCut
<1>2. CASE RunNext
  BY <1>2, OpenKeeps, StageKeeps, ReturnKeeps, SignalKeeps, CallKeeps, SweeperKeeps DEF RunNext, RunStep
<1> QED BY <1>1, <1>2

(* run, in the three programs: what a call or a sweep uses is closed after *)
(* it ends, or after its time to end has run out.                          *)
THEOREM StopsStayOrdered == RunSpec => []StopsInOrder
<1>1. RunInit => RunInv
  <2> SUFFICES ASSUME RunInit PROVE RunInv
    OBVIOUS
  <2>1. open = <<>> /\ Len(open) = 0 /\ open \in Seq(Things)
    BY EmptySeq DEF RunInit
  <2>2. program \in Programs /\ Len(Order) \in {4, 5}
    BY Orders DEF RunInit, Order
  <2>3. RunTypeOK
    BY <2>1, <2>2 DEF RunInit, RunTypeOK
  <2>4. OpenIsPrefix
    <3>1. Len(open) < Len(Order) /\ ~\E i \in 1..Len(open) : TRUE
      BY <2>1, <2>2
    <3> QED BY <3>1, <2>1, <2>2 DEF RunInit, OpenIsPrefix
  <2>5. SweeperIsOpen /\ PoolLater /\ NoneYet /\ BusyLate /\ NoCallCut
    BY DEF RunInit, SweeperIsOpen, PoolLater, NoneYet, BusyLate, NoCallCut
  <2> QED BY <2>3, <2>4, <2>5 DEF RunInv
<1>2. RunInv => StopsInOrder
  <2>1. RunInv => SweepHasPool
    BY LenProperties DEF RunInv, RunTypeOK, SweeperIsOpen, PoolLater, SweepHasPool
  <2> QED BY <2>1 DEF RunInv, StopsInOrder
<1> QED BY <1>1, <1>2, RunKeeps, PTL DEF RunSpec

-----------------------------------------------------------------------------
(* The services together. *)

(* The services of a run are the parts that move in it: what moves one     *)
(* part leaves the others as they are.                                     *)
LEMMA PartsMove ==
    ASSUME [ServicesNext]_allVars
    PROVE  /\ [Next]_vars /\ [SlugNext]_slugVars /\ [GateNext]_gateVars
           /\ [TagNext]_tagVars /\ [PageNext]_pageVars /\ [SweepNext]_sweepVars
<1>1. CASE UNCHANGED allVars
  BY <1>1 DEF allVars
<1>2. CASE ServicesNext
  BY <1>2 DEF ServicesNext
<1> QED  BY <1>1, <1>2

(* Whatever the limiter, the creates, the credential gate, the bookmarks,  *)
(* the listings and the sweep do, their state is well typed, for every     *)
(* value of their constants.                                               *)
THEOREM ServicesTyped == ServicesSpec => []ServicesTypeOK
<1>1. ServicesInit => Init /\ SlugInit /\ GateInit /\ TagInit /\ PageInit /\ SweepInit
  BY DEF ServicesInit
<1>2. [ServicesNext]_allVars =>
        /\ [Next]_vars /\ [SlugNext]_slugVars /\ [GateNext]_gateVars
        /\ [TagNext]_tagVars /\ [PageNext]_pageVars /\ [SweepNext]_sweepVars
  BY PartsMove
<1>3. ServicesSpec => Spec /\ SlugSpec /\ GateSpec /\ TagSpec /\ PageSpec /\ SweepSpec
  BY <1>1, <1>2, PTL DEF ServicesSpec, Spec, SlugSpec, GateSpec, TagSpec, PageSpec, SweepSpec
<1> QED  BY <1>3, LimiterTyped, SlugTyped, GateTyped, TagsTyped, ListingTyped, SweepTyped, PTL DEF ServicesTypeOK
=============================================================================
