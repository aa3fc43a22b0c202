---------------------------- MODULE KeyRotation ----------------------------
(***************************************************************************)
(* Issuer of backend-concepts/jwtauth: Mint and Verify in request           *)
(* goroutines while an operator rotates the signing key.  The operator      *)
(* follows the comments: a key reaches every process before one signs with  *)
(* it (AddVerifyKey, Rotate), and is removed TTL after the last rotation    *)
(* away from it.  A key is named by the kid that it was made for.           *)
(***************************************************************************)
EXTENDS Naturals, NoValue

CONSTANTS
    Issuers,         \* the processes that mint and verify
    Kids,            \* 1..n, in the order of the rotations
    TTL,
    MaxMintTime      \* the bound of the clock

ASSUME KeyAssumption == Kids \subseteq Nat /\ 1 \in Kids /\ TTL \in Nat /\ None \notin Nat

VARIABLES
    verifyKeys,      \* per process: the kids of its map
    activeKID, signKey,
    leftAt,          \* per kid: when the last process rotated away from it
    mint,            \* None, or the locals of a Mint: its token so far
    token,           \* None, or one that has not expired: tokens do not meet, one stands for all
    mintTime

keyVars == <<verifyKeys, activeKID, signKey, leftAt, mint, token, mintTime>>

KeyInit ==
    /\ verifyKeys = [p \in Issuers |-> {1}]
    /\ activeKID = [p \in Issuers |-> 1] /\ signKey = [p \in Issuers |-> 1]
    /\ leftAt = [k \in Kids |-> None]
    /\ mint = None /\ token = None /\ mintTime = 0

-----------------------------------------------------------------------------
(* Mint reads the clock, then the kid and the key under one lock, then signs. *)
BeginMint(p) ==
    /\ mint = None /\ token = None
    /\ mint' = [by |-> p, exp |-> mintTime + TTL, kid |-> None, key |-> None]
    /\ UNCHANGED <<verifyKeys, activeKID, signKey, leftAt, token, mintTime>>

(* Mutant: the expiry is counted from the signature. *)
ExpiryAtSigning(m) == mintTime + TTL

(* The expiry of the claims, set before the lock. *)
ExpiryOf(m) == m.exp

ReadKey ==
    /\ mint # None /\ mint.kid = None
    /\ mint' = [mint EXCEPT !.kid = activeKID[mint.by], !.key = signKey[mint.by]]
    /\ UNCHANGED <<verifyKeys, activeKID, signKey, leftAt, token, mintTime>>

Sign ==
    /\ mint # None /\ mint.kid # None
    /\ token' = IF ExpiryOf(mint) > mintTime THEN [mint EXCEPT !.exp = ExpiryOf(mint)] ELSE None
    /\ mint' = None
    /\ UNCHANGED <<verifyKeys, activeKID, signKey, leftAt, mintTime>>

AddVerifyKey(p, k) ==
    /\ \A other \in Issuers : activeKID[other] < k
    /\ k \notin verifyKeys[p]
    /\ verifyKeys' = [verifyKeys EXCEPT ![p] = @ \cup {k}]
    /\ UNCHANGED <<activeKID, signKey, leftAt, mint, token, mintTime>>

(* Mutant, the SetActiveKID that its comment tells of: the label changes alone. *)
RotateLabel(p, k) ==
    /\ activeKID[p] < k /\ \A other \in Issuers \ {p} : k \in verifyKeys[other]
    /\ verifyKeys' = [verifyKeys EXCEPT ![p] = @ \cup {k}]
    /\ activeKID' = [activeKID EXCEPT ![p] = k]
    /\ leftAt' = [leftAt EXCEPT ![activeKID[p]] = mintTime]
    /\ UNCHANGED <<signKey, mint, token, mintTime>>

Rotate(p, k) ==
    /\ activeKID[p] < k /\ \A other \in Issuers \ {p} : k \in verifyKeys[other]
    /\ verifyKeys' = [verifyKeys EXCEPT ![p] = @ \cup {k}]
    /\ signKey' = [signKey EXCEPT ![p] = k]
    /\ activeKID' = [activeKID EXCEPT ![p] = k]
    /\ leftAt' = [leftAt EXCEPT ![activeKID[p]] = mintTime]
    /\ UNCHANGED <<mint, token, mintTime>>

(* The operator's schedule: every process is past k, and TTL has passed since. *)
Unused(k) == leftAt[k] # None /\ mintTime >= leftAt[k] + TTL /\ \A p \in Issuers : activeKID[p] > k

RemoveVerifyKey(p, k) ==
    /\ Unused(k)
    /\ k # activeKID[p] /\ k \in verifyKeys[p]
    /\ verifyKeys' = [verifyKeys EXCEPT ![p] = @ \ {k}]
    /\ UNCHANGED <<activeKID, signKey, leftAt, mint, token, mintTime>>

PassMintTime ==
    /\ mintTime < MaxMintTime /\ mintTime' = mintTime + 1
    /\ token' = IF token # None /\ token.exp > mintTime + 1 THEN token ELSE None
    /\ UNCHANGED <<verifyKeys, activeKID, signKey, leftAt, mint>>

KeyNext ==
    \/ PassMintTime
    \/ ReadKey \/ Sign \/ \E p \in Issuers : BeginMint(p)
    \/ \E p \in Issuers, k \in Kids : AddVerifyKey(p, k) \/ Rotate(p, k) \/ RemoveVerifyKey(p, k)
KeySpec == KeyInit /\ [][KeyNext]_keyVars

-----------------------------------------------------------------------------
(* keyFunc and the signature's check. *)
Verifies(p, t) == t.kid \in verifyKeys[p] /\ t.key = t.kid

(* A token that any process has minted verifies in every process until it   *)
(* expires, across rotations and the removal of keys, however long Mint was  *)
(* suspended between the clock, the key and the signature.                  *)
TokensVerify == token # None => \A p \in Issuers : Verifies(p, token)
=============================================================================
