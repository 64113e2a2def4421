---------------------------- MODULE MCColumnNames ----------------------------
(***************************************************************************)
(* Column lists whose given names look like generated ones.                *)
(***************************************************************************)
EXTENDS ColumnNames, TLC

CONSTANT MaxColumns   \* bound on the length of a column list

GivenNames == {[base |-> "id", nums |-> n] : n \in {<<>>, <<2>>, <<3>>, <<2, 2>>}}

ColumnLists == UNION {[1 .. n -> GivenNames] : n \in 0 .. MaxColumns}
=============================================================================
