------------------------------ MODULE Transfers ------------------------------
(***************************************************************************)
(* The transfers of database-concepts/transactions/transactions.go inside   *)
(* Retry and WithTx, at READ COMMITTED.  Postgres is modelled as far as they *)
(* rely on it: a row is locked from its first UPDATE or FOR UPDATE to the   *)
(* end of the transaction, a statement sees what is committed when it gets  *)
(* the lock, and of the transactions on a cycle of waits one is aborted.    *)
(***************************************************************************)
EXTENDS Naturals, FiniteSets, FiniteSetsExt, NoValue

CONSTANTS
    Accounts,       \* numbers, their ids
    Opening,        \* the balance each begins with
    MoneyMoves,     \* transfers, as <<from, to, cents>>
    Styles,         \* update, for update, ordered
    MaxAttempts

From(t) == t[1]
To(t)   == t[2]
Cents(t) == t[3]

ASSUME MoneyAssumption ==
    /\ Accounts \subseteq Nat /\ Opening \in Nat /\ MaxAttempts \in Nat
    /\ IsFiniteSet(MoneyMoves)
    /\ \A t \in MoneyMoves : From(t) \in Accounts /\ To(t) \in Accounts /\ Cents(t) \in Nat
    /\ Styles \subseteq {"update", "for update", "ordered"}
    /\ None \notin Nat \cup MoneyMoves

VARIABLES
    style,       \* Transfer, TransferSelectForUpdate, or LockOrdered and Transfer
    balance,     \* what is committed
    own,         \* what each transfer has written and not committed
    holder,      \* who has the row lock of each account
    step,        \* the statement each transfer is at, or its result
    read,        \* what FOR UPDATE read
    attempts     \* begun so far

moneyVars == <<style, balance, own, holder, step, read, attempts>>

MoneyInit ==
    /\ style \in [MoneyMoves -> Styles]
    /\ balance = [a \in Accounts |-> Opening]
    /\ own = [t \in MoneyMoves |-> [a \in Accounts |-> None]]
    /\ holder = [a \in Accounts |-> None]
    /\ step = [t \in MoneyMoves |-> "begin"]
    /\ read = [t \in MoneyMoves |-> None]
    /\ attempts = [t \in MoneyMoves |-> 0]

-----------------------------------------------------------------------------
(* The rows LockOrdered locks one after the other: in the order of the ids. *)
Lower(t)  == IF From(t) < To(t) THEN From(t) ELSE To(t)
Higher(t) == IF From(t) < To(t) THEN To(t) ELSE From(t)

(* Mutant: the rows are locked in the order they are given. *)
FirstGiven(t)  == From(t)

LockFirst(t)  == Lower(t)
LockSecond(t) == IF LockFirst(t) = From(t) THEN To(t) ELSE From(t)

(* The row that the statement t is at must lock. *)
Needs(t) ==
    CASE step[t] = "lock first"               -> LockFirst(t)
      [] step[t] = "lock second"              -> LockSecond(t)
      [] step[t] \in {"select", "debit"}      -> From(t)
      [] step[t] = "credit"                   -> To(t)
      [] OTHER                              -> None

Waits(t, u) == t # u /\ Needs(t) # None /\ holder[Needs(t)] = u

(* A statement runs once no other transaction has its row, and has it then. *)
RunsAt(t, s) ==
    /\ step[t] = s /\ holder[Needs(t)] \in {None, t}
    /\ holder' = [holder EXCEPT ![Needs(t)] = t]

Sees(t, a) == IF own[t][a] # None THEN own[t][a] ELSE balance[a]
Writes(t, a, cents) == own' = [own EXCEPT ![t][a] = cents]
GoesTo(t, s) == step' = [step EXCEPT ![t] = s]

Begin(t) ==
    /\ step[t] = "begin"
    /\ attempts' = [attempts EXCEPT ![t] = @ + 1]
    /\ GoesTo(t, CASE style[t] = "update" -> "debit"
                   [] style[t] = "for update" -> "select"
                   [] style[t] = "ordered" -> "lock first")
    /\ UNCHANGED <<style, balance, own, holder, read>>

LockRow(t) ==
    /\ \/ RunsAt(t, "lock first") /\ GoesTo(t, "lock second")
       \/ RunsAt(t, "lock second") /\ GoesTo(t, "debit")
    /\ UNCHANGED <<style, balance, own, read, attempts>>

(* Mutant: the row is read without its lock (TransferLostUpdate). *)
SelectUnlocked(t) ==
    /\ step[t] = "select"
    /\ read' = [read EXCEPT ![t] = balance[From(t)]]
    /\ GoesTo(t, "debit")
    /\ UNCHANGED <<style, balance, own, holder, attempts>>

SelectForUpdate(t) ==
    /\ RunsAt(t, "select")
    /\ read' = [read EXCEPT ![t] = Sees(t, From(t))]
    /\ GoesTo(t, "debit")
    /\ UNCHANGED <<style, balance, own, attempts>>

(* Mutant: the transaction stays open. *)
KeepsLocks(t) ==
    /\ own' = [own EXCEPT ![t] = [a \in Accounts |-> None]]
    /\ read' = [read EXCEPT ![t] = None]
    /\ UNCHANGED holder

(* The end of a transaction: its locks are gone, and what it wrote. *)
Releases(t) ==
    /\ holder' = [a \in Accounts |-> IF holder[a] = t THEN None ELSE holder[a]]
    /\ own' = [own EXCEPT ![t] = [a \in Accounts |-> None]]
    /\ read' = [read EXCEPT ![t] = None]

Funds(t) == IF style[t] = "for update" THEN read[t] ELSE Sees(t, From(t))

Debit(t) ==
    /\ RunsAt(t, "debit")
    /\ Funds(t) >= Cents(t)
    /\ Writes(t, From(t), Funds(t) - Cents(t))
    /\ GoesTo(t, "credit")
    /\ UNCHANGED <<style, balance, read, attempts>>

(* No row matches, or the check in Go fails: rolled back, and not retried.  *)
Insufficient(t) ==
    /\ step[t] = "debit" /\ holder[From(t)] \in {None, t}
    /\ Funds(t) < Cents(t)
    /\ Releases(t)
    /\ GoesTo(t, "failed")
    /\ UNCHANGED <<style, balance, attempts>>

Credit(t) ==
    /\ RunsAt(t, "credit")
    /\ Writes(t, To(t), Sees(t, To(t)) + Cents(t))
    /\ GoesTo(t, "commit")
    /\ UNCHANGED <<style, balance, read, attempts>>

CommitMoney(t) ==
    /\ step[t] = "commit"
    /\ balance' = [a \in Accounts |-> Sees(t, a)]
    /\ Releases(t)
    /\ GoesTo(t, "ok")
    /\ UNCHANGED <<style, attempts>>

(* Each waits for the next. *)
OnCycle(t, S) == \E u \in S : Waits(t, u) /\ (Waits(u, t) \/ \E v \in S : Waits(u, v) /\ Waits(v, t))

MayRetry(t) == attempts[t] < MaxAttempts

(* Deadlock, 40P01: rolled back, and begun again after a backoff. *)
Victim(t) ==
    /\ OnCycle(t, MoneyMoves)
    /\ Releases(t)
    /\ GoesTo(t, IF MayRetry(t) THEN "begin" ELSE "failed")
    /\ UNCHANGED <<style, balance, attempts>>

(* Any other error ends the transfer; the deferred rollback undoes it.      *)
Breaks(t) ==
    /\ step[t] \notin {"begin", "ok", "failed"}
    /\ Releases(t)
    /\ GoesTo(t, "failed")
    /\ UNCHANGED <<style, balance, attempts>>

MoneyStep ==
    \E t \in MoneyMoves :
        \/ Begin(t) \/ LockRow(t) \/ SelectForUpdate(t) \/ Debit(t) \/ Insufficient(t)
        \/ Credit(t) \/ CommitMoney(t) \/ Victim(t)

MoneyNext == MoneyStep \/ \E t \in MoneyMoves : Breaks(t)

MoneySpec == MoneyInit /\ [][MoneyNext]_moneyVars

(* Postgres answers, and finds deadlocks; a transfer's caller waits. *)
MoneyFairness == WF_moneyVars(MoneyStep)

-----------------------------------------------------------------------------
(* Properties. *)

Moved(S) == MapThenSumSet(Cents, S)

(* Every balance is what the transfers that returned nil made of it: none   *)
(* was lost under another, none counted twice after a retry, none that      *)
(* failed left a half of it; and none is overdrawn.                        *)
BalancesAddUp ==
    LET applied == {t \in MoneyMoves : step[t] = "ok"} IN
    \A a \in Accounts :
        balance[a] + Moved({t \in applied : From(t) = a}) = Opening + Moved({t \in applied : To(t) = a})

(* Transfers that lock in the order of the ids never wait in a circle. *)
OrderedNeverDeadlock ==
    LET ordered == {t \in MoneyMoves : style[t] = "ordered"}
    IN \A t \in ordered : ~OnCycle(t, ordered)

(* Every transfer ends, deadlocks and retries included. *)
TransfersOver == \A t \in MoneyMoves : step[t] \in {"ok", "failed"}

(* The transfers lose and invent no money, and those that take their locks  *)
(* in one order never deadlock.                                             *)
MoneyIsKept == BalancesAddUp /\ OrderedNeverDeadlock
=============================================================================
