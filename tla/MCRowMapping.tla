---------------------------- MODULE MCRowMapping ----------------------------
(***************************************************************************)
(* Tables that are indexed by ROW alone, with one or two new index columns,*)
(* and tables with one axis above ROW.                                     *)
(***************************************************************************)
EXTENDS RowMapping

Flat == <<<<0>>, <<1>>, <<2>>>>

\* create_index visits the points of a region with the first axis fastest.
Deep == <<<<0, 0>>, <<1, 0>>, <<0, 1>>, <<1, 1>>>>

MCShapes ==
  {[rows |-> Flat, columns |-> 2, allowRows |-> b] : b \in BOOLEAN}
  \cup {[rows |-> Deep, columns |-> 1, allowRows |-> FALSE]}

MCValue == {0, 1}

MCExtents == {1, 2}

ASSUME MCTablesAreReindexable == Reindexable /\ RowsFromZero

=============================================================================
