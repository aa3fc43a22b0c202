--------------------------- MODULE SlugDirectory ---------------------------
(***************************************************************************)
(* What creating a short link promises, without ids, attempts or           *)
(* transactions: a slug has one owner at a time, a request gets at most    *)
(* one slug in its life, and what it is told agrees with what it got.      *)
(***************************************************************************)
CONSTANTS Creators, Slugs, None

VARIABLES
    owner,   \* the request each slug was given to
    given,   \* the slug each request was ever given
    reply    \* what each request was told

dirVars == <<owner, given, reply>>

DirInit ==
    /\ owner = [s \in Slugs |-> None]
    /\ given = [c \in Creators |-> None]
    /\ reply = [c \in Creators |-> None]

(* A free slug goes to a request that has none and was told nothing. *)
Claim(c, s) ==
    /\ owner[s] = None /\ given[c] = None /\ reply[c] = None
    /\ owner' = [owner EXCEPT ![s] = c]
    /\ given' = [given EXCEPT ![c] = s]
    /\ UNCHANGED reply

Release(s) ==
    /\ owner[s] # None
    /\ owner' = [owner EXCEPT ![s] = None]
    /\ UNCHANGED <<given, reply>>

(* 201 to whom got a slug, 409 to whom got none, an error to either. *)
Reply(c) ==
    /\ reply[c] = None
    /\ \E r \in {"created", "conflict", "error"} :
           /\ r = "created" => given[c] # None
           /\ r = "conflict" => given[c] = None
           /\ reply' = [reply EXCEPT ![c] = r]
    /\ UNCHANGED <<owner, given>>

DirNext ==
    \/ \E c \in Creators : Reply(c) \/ \E s \in Slugs : Claim(c, s)
    \/ \E s \in Slugs : Release(s)

DirSpec == DirInit /\ [][DirNext]_dirVars
=============================================================================
