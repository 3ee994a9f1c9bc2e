--------------------------- MODULE MCIndexColumn ---------------------------
(***************************************************************************)
(* Six rows with two values, in three blocks of two rows: a value may have *)
(* rows before, between and after those of the blocks folded before.       *)
(***************************************************************************)
EXTENDS IndexColumn

MCValue == {0, 1}
=============================================================================
