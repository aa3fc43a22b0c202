------------------------------ MODULE ReadOnce ------------------------------
(***************************************************************************)
(* What a loader promises its callers, without batches and timers: within  *)
(* a request every key is settled at most once, and whoever asked for it   *)
(* gets that outcome or gives up.                                          *)
(***************************************************************************)
CONSTANTS Callers, Keys, Outcomes, None, Cancelled

VARIABLES
    asked,   \* the key each caller asked for
    memo,    \* the outcome of each key, once it has one
    got      \* what each caller got

vars == <<asked, memo, got>>

Init ==
    /\ asked = [c \in Callers |-> None]
    /\ memo = [k \in Keys |-> None]
    /\ got = [c \in Callers |-> None]

(* Callers that have not asked yet do, several at once if they like. *)
Ask ==
    /\ asked' \in [Callers -> Keys \cup {None}]
    /\ \A c \in Callers : asked[c] # None => asked'[c] = asked[c]
    /\ UNCHANGED <<memo, got>>

(* A key without an outcome gets one. *)
Settle(k, o) ==
    /\ memo[k] = None
    /\ memo' = [memo EXCEPT ![k] = o]
    /\ UNCHANGED <<asked, got>>

(* A caller gets the outcome of the key it asked for. *)
Answer(c) ==
    /\ asked[c] # None /\ got[c] = None
    /\ memo[asked[c]] # None
    /\ got' = [got EXCEPT ![c] = memo[asked[c]]]
    /\ UNCHANGED <<asked, memo>>

GiveUp(c) ==
    /\ asked[c] # None /\ got[c] = None
    /\ got' = [got EXCEPT ![c] = Cancelled]
    /\ UNCHANGED <<asked, memo>>

Next ==
    \/ Ask
    \/ \E k \in Keys, o \in Outcomes : Settle(k, o)
    \/ \E c \in Callers : Answer(c) \/ GiveUp(c)

Spec == Init /\ [][Next]_vars
=============================================================================
