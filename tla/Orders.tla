------------------------------- MODULE Orders -------------------------------
(***************************************************************************)
(* Numbers in ascending order, and the entries of a list that are in a set,  *)
(* in the order of the list.                                                *)
(***************************************************************************)
EXTENDS Integers, FiniteSets

Ascending(S) ==
  CHOOSE at \in [1..Cardinality(S) -> S] : \A k, l \in 1..Cardinality(S) : k < l => at[k] < at[l]

Those(list, set) ==
  LET at == Ascending({i \in DOMAIN list : list[i] \in set}) IN [k \in DOMAIN at |-> list[at[k]]]
=============================================================================
