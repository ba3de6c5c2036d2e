----------------------------- MODULE MCBilling -----------------------------
(***************************************************************************)
(* Small instances of Billing for TLC: a small monthly offer and a large   *)
(* one with a longer cycle, for a tenant with two outlets.                 *)
(***************************************************************************)
EXTENDS Billing, TLC

CONSTANTS trial, small, large, o1, o2, k1, k2, k3

MCCapacity == [o \in Plans |-> IF o = large THEN 2 ELSE 1]
MCLength == [o \in Plans |-> IF o = large THEN 2 ELSE 1]
MCPrice == [o \in Offers |-> IF o = large THEN 4 ELSE 3]

\* Neither outlets nor keys are told apart.
Symmetry == Permutations({o1, o2}) \union Permutations({k1, k2})
=============================================================================
