--------------------------- MODULE MCCatalogReads ---------------------------
(***************************************************************************)
(* Tables of up to two columns; "j" has no MIN and MAX, "o d" no plain name.*)
(***************************************************************************)
EXTENDS CatalogReads, TLC

ColumnNames == {"a", "j", "o d"}
JsonColumns == {"j"}
OddColumns == {"o d"}

ColumnLists == {<<>>, <<"a">>, <<"a", "j">>, <<"j", "a">>, <<"a", "o d">>}

SmallTables ==
  {[exists |-> TRUE, cols |-> cols, key |-> key, out |-> out, idx |-> {},
    inbound |-> inbound] :
     cols \in ColumnLists, key \in {{}, {"a"}}, out \in {{}, {"a"}, {"j"}},
     inbound \in {{}, {"a"}}}
ConsistentTables ==
  {t \in SmallTables : t.key \cup t.out \subseteq ToSet(t.cols) /\ t.inbound \subseteq t.key}
=============================================================================
