--------------------------- MODULE CredentialGate ---------------------------
(***************************************************************************)
(* Register and login of both capstones behind their two limiters: the     *)
(* endpoint-wide bucket, then the account's, then bcrypt and the users     *)
(* table, then the reset of the account's bucket.  The limiters are those  *)
(* of SlidingWindow, their scripts run when the caller reads its clock;    *)
(* any call to Redis may fail.                                             *)
(***************************************************************************)
EXTENDS Integers, FiniteSets

CONSTANTS
    Visits,                    \* bound: requests, numbered in the order they arrive
    Accounts, Registered,      \* Registered: those registered before
    GateLimit, GateWindow,     \* the endpoint-wide limiter
    GuessLimit, GuessWindow,   \* the per-account limiter
    GateMaxTime                \* bound: the last instant

ASSUME GateAssumption ==
    /\ GateLimit \in Nat \ {0} /\ GateWindow \in Nat \ {0}
    /\ GuessLimit \in Nat \ {0} /\ GuessWindow \in Nat \ {0}
    /\ Registered \subseteq Accounts
    /\ Visits \in Nat /\ GateMaxTime \in Nat

VARIABLES
    clock,
    gate,       \* the endpoint-wide bucket
    guesses,    \* the bucket of each account
    at,         \* where each request is
    ask,        \* what it asks: [op, account, right]
    users,      \* accounts that are registered
    said,       \* the answer
    entered, allowed,   \* history: when each limiter was asked
    outcome,    \* history: what bcrypt was run for
    cleared     \* history: when the request reset the account's bucket

gateVars == <<clock, gate, guesses, at, ask, users, said, entered, allowed, outcome, cleared>>

CredentialsKey == "credentials"

Endpoint == INSTANCE SlidingWindow WITH
    Keys <- {CredentialsKey}, Limit <- GateLimit, Window <- GateWindow, bucket <- gate,
    Slack <- 1, MaxDelay <- 0, SkewBehind <- 0, SkewAhead <- 0, Second <- 1, RoundUp <- 0,
    MaxCalls <- Visits, MaxTime <- GateMaxTime, now <- clock, sent <- 0, calls <- {}, until <- <<>>, admitted <- <<>>

PerAccount == INSTANCE SlidingWindow WITH
    Keys <- Accounts, Limit <- GuessLimit, Window <- GuessWindow, bucket <- guesses,
    Slack <- 1, MaxDelay <- 0, SkewBehind <- 0, SkewAhead <- 0, Second <- 1, RoundUp <- 0,
    MaxCalls <- Visits, MaxTime <- GateMaxTime, now <- clock, sent <- 0, calls <- {}, until <- <<>>, admitted <- <<>>

Requests == 1..Visits
Asks     == [op : {"login"}, account : Accounts, right : BOOLEAN]
              \cup [op : {"register"}, account : Accounts]
NoAsk    == [op |-> "none"]
Never    == -(GateWindow + GuessWindow)
Times    == Never..GateMaxTime

GateTypeOK ==
    /\ clock \in 0..GateMaxTime
    /\ gate \in [{CredentialsKey} -> SUBSET [n : Requests, at : Times]]
    /\ guesses \in [Accounts -> SUBSET [n : Requests, at : Times]]
    /\ at \in [Requests -> {"new", "entered", "work", "clear", "done"}]
    /\ ask \in [Requests -> Asks \cup {NoAsk}]
    /\ users \subseteq Accounts
    /\ said \in [Requests -> {0, 200, 201, 401, 409, 429, 503}]
    /\ entered \in [Requests -> Times] /\ allowed \in [Requests -> Times] /\ cleared \in [Requests -> Times]
    /\ outcome \in [Requests -> {"none", "hashed", "wrong", "right"}]

GateInit ==
    /\ clock = 0
    /\ gate = [k \in {CredentialsKey} |-> {}]
    /\ guesses = [k \in Accounts |-> {}]
    /\ at = [r \in Requests |-> "new"]
    /\ ask = [r \in Requests |-> NoAsk]
    /\ users = Registered
    /\ said = [r \in Requests |-> 0]
    /\ entered = [r \in Requests |-> Never]
    /\ allowed = [r \in Requests |-> Never]
    /\ outcome = [r \in Requests |-> "none"]
    /\ cleared = [r \in Requests |-> Never]

-----------------------------------------------------------------------------
Goto(r, place) == at' = [at EXCEPT ![r] = place]
Say(r, status) == Goto(r, "done") /\ said' = [said EXCEPT ![r] = status]
On(r, place)   == Goto(r, place) /\ UNCHANGED said
Account(r)     == ask[r].account

(* rateLimited: register and login share one bucket.  Refused with 429, or with   *)
(* 503 when Redis cannot be reached; the mutant lets a request through then.      *)
EnterFailsOpen(r) ==
    /\ at[r] = "new" /\ \A q \in 1..(r - 1) : at[q] # "new"
    /\ \E a \in Asks : ask' = [ask EXCEPT ![r] = a]
    /\ entered' = [entered EXCEPT ![r] = clock]
    /\ \/ gate' = gate /\ On(r, "entered")
       \/ /\ Endpoint!Admits(CredentialsKey, clock)
          /\ gate' = [k \in {CredentialsKey} |-> Endpoint!Kept(k, clock) \cup {[n |-> r, at |-> clock]}]
          /\ On(r, "entered")
    /\ UNCHANGED <<clock, guesses, users, allowed, outcome, cleared>>

Enter(r) ==
    /\ at[r] = "new" /\ \A q \in 1..(r - 1) : at[q] # "new"
    /\ \E a \in Asks : ask' = [ask EXCEPT ![r] = a]
    /\ entered' = [entered EXCEPT ![r] = clock]
    /\ \/ /\ Endpoint!Admits(CredentialsKey, clock)
          /\ gate' = [k \in {CredentialsKey} |-> Endpoint!Kept(k, clock) \cup {[n |-> r, at |-> clock]}]
          /\ On(r, "entered")
       \/ /\ ~Endpoint!Admits(CredentialsKey, clock)
          /\ gate' = [k \in {CredentialsKey} |-> Endpoint!Kept(k, clock)]
          /\ Say(r, 429)
       \/ gate' = gate /\ Say(r, 503)
    /\ UNCHANGED <<clock, guesses, users, allowed, outcome, cleared>>

(* The mutant of limitAccount spends one bucket for all accounts. *)
LimitShared(r) ==
    /\ at[r] = "entered"
    /\ allowed' = [allowed EXCEPT ![r] = clock]
    /\ LET k == CHOOSE a \in Accounts : TRUE IN
       \/ /\ PerAccount!Admits(k, clock)
          /\ guesses' = [guesses EXCEPT ![k] = PerAccount!Kept(k, clock) \cup {[n |-> r, at |-> clock]}]
          /\ On(r, "work")
       \/ /\ ~PerAccount!Admits(k, clock)
          /\ guesses' = guesses
          /\ Say(r, 429)
    /\ UNCHANGED <<clock, gate, ask, users, entered, outcome, cleared>>

(* limitAccount, in front of everything the handlers do with the account. *)
LimitAccount(r) ==
    /\ at[r] = "entered"
    /\ allowed' = [allowed EXCEPT ![r] = clock]
    /\ LET k == Account(r) IN
       \/ /\ PerAccount!Admits(k, clock)
          /\ guesses' = [guesses EXCEPT ![k] = PerAccount!Kept(k, clock) \cup {[n |-> r, at |-> clock]}]
          /\ On(r, "work")
       \/ /\ ~PerAccount!Admits(k, clock)
          /\ guesses' = [guesses EXCEPT ![k] = PerAccount!Kept(k, clock)]
          /\ Say(r, 429)
       \/ guesses' = guesses /\ Say(r, 503)
    /\ UNCHANGED <<clock, gate, ask, users, entered, outcome, cleared>>

(* handleRegister hashes and inserts; the unique index on the email decides.  The *)
(* mutant trusts a SELECT it made before the hash.                                *)
RegisterUnguarded(r) ==
    /\ at[r] = "work" /\ ask[r].op = "register"
    /\ outcome' = [outcome EXCEPT ![r] = "hashed"]
    /\ users' = users \cup {Account(r)}
    /\ Say(r, 201)
    /\ UNCHANGED <<clock, gate, guesses, ask, entered, allowed, cleared>>

Register(r) ==
    /\ at[r] = "work" /\ ask[r].op = "register"
    /\ outcome' = [outcome EXCEPT ![r] = "hashed"]
    /\ users' = users \cup {Account(r)}
    /\ Say(r, IF Account(r) \in users THEN 409 ELSE 201)
    /\ UNCHANGED <<clock, gate, guesses, ask, entered, allowed, cleared>>

(* The mutant of handleLogin tells an unknown account from a wrong password. *)
VerifyNamesUnknown(r) ==
    /\ at[r] = "work" /\ ask[r].op = "login"
    /\ Say(r, IF Account(r) \notin users THEN 404 ELSE 401) /\ UNCHANGED outcome
    /\ UNCHANGED <<clock, gate, guesses, ask, users, entered, allowed, cleared>>

(* handleLogin: an account nobody registered costs no bcrypt; only a password     *)
(* that is right goes on to the reset.                                            *)
Verify(r) ==
    /\ at[r] = "work" /\ ask[r].op = "login"
    /\ IF Account(r) \notin users
       THEN Say(r, 401) /\ UNCHANGED outcome
       ELSE IF ask[r].right
       THEN On(r, "clear") /\ outcome' = [outcome EXCEPT ![r] = "right"]
       ELSE Say(r, 401) /\ outcome' = [outcome EXCEPT ![r] = "wrong"]
    /\ UNCHANGED <<clock, gate, guesses, ask, users, entered, allowed, cleared>>

(* clearAccount; its failure is logged and the login succeeds all the same.  The  *)
(* mutant, a DEL of the limiter's whole prefix, clears every account.             *)
ClearEveryAccount(r) ==
    /\ at[r] = "clear"
    /\ guesses' = [k \in Accounts |-> {}]
    /\ cleared' = [cleared EXCEPT ![r] = clock]
    /\ Say(r, 200)
    /\ UNCHANGED <<clock, gate, ask, users, entered, allowed, outcome>>

ClearAccount(r) ==
    /\ at[r] = "clear"
    /\ \/ /\ guesses' = [guesses EXCEPT ![Account(r)] = {}]
          /\ cleared' = [cleared EXCEPT ![r] = clock]
       \/ UNCHANGED <<guesses, cleared>>
    /\ Say(r, 200)
    /\ UNCHANGED <<clock, gate, ask, users, entered, allowed, outcome>>

(* A handler's work takes time. *)
GateTick ==
    /\ clock < GateMaxTime
    /\ clock' = clock + 1
    /\ UNCHANGED <<gate, guesses, at, ask, users, said, entered, allowed, outcome, cleared>>

GateNext ==
    \/ \E r \in Requests :
           Enter(r) \/ LimitAccount(r) \/ Register(r) \/ Verify(r) \/ ClearAccount(r)
    \/ GateTick

GateSpec == GateInit /\ [][GateNext]_gateVars

-----------------------------------------------------------------------------
(* Properties. *)

Within(t, end, length) == end - length < t /\ t <= end

(* bcrypt, which every user shares, runs at most GateLimit times for the   *)
(* requests of any window, register and login together, Redis up or down.  *)
BcryptWithinLimit ==
    \A t \in 0..GateMaxTime :
        Cardinality({r \in Requests : outcome[r] # "none" /\ Within(entered[r], t, GateWindow)})
            <= GateLimit

(* Somebody who does not know the password gets GuessLimit checks per      *)
(* window, and GuessLimit more for each login of that account's owner that *)
(* cleared the bucket in that window: nothing else clears it.              *)
GuessesWithinLimit ==
    \A k \in Accounts : \A t \in 0..GateMaxTime :
        LET tried  == {r \in Requests : /\ outcome[r] \in {"wrong", "hashed"} /\ Account(r) = k
                                        /\ Within(allowed[r], t, GuessWindow)}
            clears == {r \in Requests : /\ outcome[r] = "right" /\ Account(r) = k
                                        /\ Within(cleared[r], t, GuessWindow)}
        IN  Cardinality(tried) <= GuessLimit * (1 + Cardinality(clears))

(* An account is registered once: of two registrations that overlap one is *)
(* told 201, and none for an account that was there.                       *)
RegisteredOnce ==
    \A r, q \in Requests :
        /\ said[r] = 201 /\ said[q] = 201 /\ Account(r) = Account(q) => r = q
        /\ said[r] = 201 => Account(r) \notin Registered

(* Nobody is told 429 unless a limit was spent: GateLimit other requests   *)
(* in the endpoint's window, or GuessLimit for the same account in its.    *)
LimitedForCause ==
    \A r \in Requests : said[r] = 429 =>
        \/ Cardinality({q \in Requests \ {r} : Within(entered[q], entered[r], GateWindow)}) >= GateLimit
        \/ Cardinality({q \in Requests \ {r} : /\ Within(allowed[q], allowed[r], GuessWindow)
                                               /\ ask[q] # NoAsk /\ Account(q) = Account(r)}) >= GuessLimit

(* What the gate is for: bcrypt and the guesses at one account are bounded, *)
(* nobody is limited without cause, and accounts stay unique behind it.     *)
CredentialsAreGuarded == BcryptWithinLimit /\ GuessesWithinLimit /\ RegisteredOnce /\ LimitedForCause
=============================================================================
