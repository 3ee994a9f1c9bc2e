---------------------------- MODULE TableStorage ----------------------------
(***************************************************************************)
(* What the columns of a Table may rely on, whatever has become of the     *)
(* table: the properties of TableColumns, about its map of columns and the *)
(* storage below.                                                          *)
(***************************************************************************)
EXTENDS ColumnForest

VARIABLE columns     \* m_columns

(***************************************************************************)
(* After any sequence of calls, the storage of every column the table      *)
(* knows (its region, its field in it, its ColumnSpace) is still there:    *)
(* removing a column must not take away the region, or the ColumnSpace,    *)
(* that other columns share with it (Table::remove_columns).               *)
(***************************************************************************)
ColumnsBacked == Backed(columns)

(***************************************************************************)
(* Two columns never write to the same field of a region, whatever FieldIDs*)
(* the clients of add_columns pass and whichever fields were freed and     *)
(* taken again; and the columns of a ColumnSpace never split over two      *)
(* regions, so that one region requirement reaches all of them.            *)
(***************************************************************************)
StorageSeparate == Separate(columns)

(***************************************************************************)
(* Nothing is leaked: each allocated field and each live keyword region    *)
(* belongs to a column of the table, a region is destroyed with its last   *)
(* column and takes its ColumnSpace with it.  For a destroyed table, which *)
(* has no columns, that says that nothing at all is left.                  *)
(***************************************************************************)
NothingOrphaned ==
  /\ Accounted(columns)
  /\ CleanedUp
  /\ keywords \subseteq Present(columns)

=============================================================================
