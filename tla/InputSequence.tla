---------------------------- MODULE InputSequence ----------------------------
(***************************************************************************)
(* The argument that the algorithms of dsa/ are checked on: a sequence that *)
(* grows, so that a run meets every one up to its bounds.                  *)
(***************************************************************************)
EXTENDS Integers, Sequences, NoValue

CONSTANTS
    InputValues,    \* a few naturals, 0 among them
    MaxInput        \* the bound of the length

VARIABLE input      \* None until one is given

Given == input # None

InputInit == input = None
GiveEmpty == ~Given /\ input' = <<>>
GiveOneMore == Given /\ Len(input) < MaxInput /\ \E v \in InputValues : input' = Append(input, v)
InputNext == GiveEmpty \/ GiveOneMore

(* The elements as they are told apart by a stable sort: value and place. *)
Tagged == [i \in 1..Len(input) |-> <<input[i], i>>]
=============================================================================
