-------------------------------- MODULE Lists --------------------------------
(***************************************************************************)
(* Lists that the code fills while it walks something in order: the rows   *)
(* of an index space (create_index), or a list of which it keeps the       *)
(* elements that pass a test (std::copy_if).                               *)
(***************************************************************************)
EXTENDS Integers, Sequences, FiniteSets

Ascending(s) == \A i, j \in DOMAIN s : i < j => s[i] < s[j]

\* A finite set of numbers as a list, in ascending order.
ListOf(S) ==
  [i \in 1 .. Cardinality(S) |->
     CHOOSE r \in S : Cardinality({q \in S : q < r}) = i - 1]

\* The elements of s at the places in P, in their order.
Kept(s, P) == LET places == ListOf(P) IN [i \in DOMAIN places |-> s[places[i]]]

=============================================================================
